-------------------------- MODULE OobUploadProofs --------------------------
(***************************************************************************)
(* Proofs about OobUpload for any list of files, any contents and any      *)
(* number of attempts: type correctness, what the BMC holds when the       *)
(* uploads are signalled, which digests are saved, and that every step     *)
(* leaves less to do.                                                      *)
(***************************************************************************)
EXTENDS OobUpload, TLAPS

\* A saved digest describes the BMC's copy, unless the BMC took another file
\* whose digest was not saved.
VouchInv ==
  \A t \in FileType :
    UsesDigest(t) /\ digest[t] # NoDigest /\ t \notin unsaved /\ bmcFile[t] # NoFile
      => digest[t] = Digest[t][bmcFile[t]]

\* The status PEI read still holds for the files that were not handled yet,
\* except for the ones lost since.
StatusInv ==
  \A k \in 1..Len(Uploads) :
    /\ \/ pc \in {"prepare", "start", "done", "save"} /\ k > n
       \/ pc = "check" /\ k >= n
    /\ Uploads[k] \in OobFileStatus0
    => bmcFile[Uploads[k]] # NoFile \/ Uploads[k] \in lost

\* There is a file to upload, and before its digest is saved the BMC has it.
SaveInv ==
  /\ pc \in {"prepare", "start", "done", "save"} => data[cur] # NoFile
  /\ pc = "save" => bmcFile[cur] = data[cur] \/ (bmcFile[cur] = NoFile /\ cur \in lost)

\* The files that were handled are settled.
SettledInv ==
  \A k \in 1..Len(Uploads) :
    \/ pc \in {"check", "prepare", "start", "done", "save"} /\ k < n
    \/ pc \in {"signal", "os"}
    => Settled(Uploads[k])

IInv == TypeOK /\ VouchInv /\ StatusInv /\ SaveInv /\ SettledInv

\* The file of every step is one of the files to upload.
LEMMA CurType == TypeOK => cur \in FileType
BY DEF TypeOK, cur, FileType

\* Every step keeps the types: FileRetry and n stay in their ranges.
LEMMA TypeStep ==
  ASSUME TypeOK, SaveInv, [Next]_vars
  PROVE  TypeOK'
<1> USE UploadConstantsAssumption, UploadsAssumption, DigestAssumption DEF TypeOK, SaveInv, Step, vars, nvVars, bmcVars, postVars
<1>0. cur \in FileType
  BY CurType
<1>1. CASE SkipAbsent
  BY <1>0, <1>1 DEF SkipAbsent, Advance
<1>2. CASE SkipNoBuffer
  BY <1>0, <1>2 DEF SkipNoBuffer, Advance
<1>3. CASE SkipUnchanged
  BY <1>0, <1>3 DEF SkipUnchanged, Advance, Unchanged
<1>4. CASE BeginUpload
  BY <1>0, <1>4 DEF BeginUpload, Unchanged
<1>5. CASE Prepare
  BY <1>0, <1>5 DEF Prepare
<1>6. CASE PrepareFails
  BY <1>0, <1>6 DEF PrepareFails, AttemptFails, Advance
<1>7. CASE Start
  BY <1>0, <1>7 DEF Start
<1>8. CASE StartFails
  BY <1>0, <1>8 DEF StartFails, AttemptFails, Advance, Accept
<1>9. CASE Done
  BY <1>0, <1>9 DEF Done, Advance, Accept
<1>10. CASE DoneFails
  BY <1>0, <1>10 DEF DoneFails, AttemptFails, Advance, Accept
<1>11. CASE Save
  BY <1>0, <1>11 DEF Save, Advance
<1>12. CASE SaveFails
  BY <1>0, <1>12 DEF SaveFails, Advance
<1>13. CASE Signal
  BY <1>0, <1>13 DEF Signal
<1>14. CASE Boot
  BY <1>0, <1>14 DEF Boot
<1>15. CASE PowerOff
  BY <1>0, <1>15 DEF PowerOff
<1>16. CASE ClearNvram
  BY <1>0, <1>16 DEF ClearNvram
<1>17. ASSUME NEW t \in FileType, BmcLoses(t) PROVE TypeOK'
  BY <1>17 DEF BmcLoses
<1>18. CASE UNCHANGED vars
  BY <1>18
<1> QED
  BY <1>1, <1>2, <1>3, <1>4, <1>5, <1>6, <1>7, <1>8, <1>9, <1>10, <1>11, <1>12, <1>13, <1>14, <1>15, <1>16, <1>17, <1>18 DEF Next, Bios, Environment

\* No step makes a saved digest stale without recording it.
LEMMA VouchStep ==
  ASSUME TypeOK, VouchInv, SaveInv, [Next]_vars
  PROVE  VouchInv'
<1> USE UploadConstantsAssumption, UploadsAssumption, DigestAssumption DEF TypeOK, VouchInv, SaveInv, cur, UsesDigest, FileType, vars, nvVars, bmcVars, postVars
<1>0. cur \in FileType
  BY CurType
<1>1. CASE SkipAbsent
  BY <1>0, <1>1 DEF SkipAbsent, Advance
<1>2. CASE SkipNoBuffer
  BY <1>0, <1>2 DEF SkipNoBuffer, Advance
<1>3. CASE SkipUnchanged
  BY <1>0, <1>3 DEF SkipUnchanged, Advance, Unchanged
<1>4. CASE BeginUpload
  BY <1>0, <1>4 DEF BeginUpload, Unchanged
<1>5. CASE Prepare
  BY <1>0, <1>5 DEF Prepare
<1>6. CASE PrepareFails
  BY <1>0, <1>6 DEF PrepareFails, AttemptFails, Advance
<1>7. CASE Start
  BY <1>0, <1>7 DEF Start
<1>8. CASE StartFails
  BY <1>0, <1>8 DEF StartFails, AttemptFails, Advance, Accept
<1>9. CASE Done
  BY <1>0, <1>9 DEF Done, Advance, Accept
<1>10. CASE DoneFails
  BY <1>0, <1>10 DEF DoneFails, AttemptFails, Advance, Accept
<1>11. CASE Save
  BY <1>0, <1>11 DEF Save, Advance
<1>12. CASE SaveFails
  BY <1>0, <1>12 DEF SaveFails, Advance
<1>13. CASE Signal
  BY <1>0, <1>13 DEF Signal
<1>14. CASE Boot
  BY <1>0, <1>14 DEF Boot
<1>15. CASE PowerOff
  BY <1>0, <1>15 DEF PowerOff
<1>16. CASE ClearNvram
  BY <1>0, <1>16 DEF ClearNvram
<1>17. ASSUME NEW t \in FileType, BmcLoses(t) PROVE VouchInv'
  BY <1>17 DEF BmcLoses
<1>18. CASE UNCHANGED vars
  BY <1>18
<1> QED
  BY <1>1, <1>2, <1>3, <1>4, <1>5, <1>6, <1>7, <1>8, <1>9, <1>10, <1>11, <1>12, <1>13, <1>14, <1>15, <1>16, <1>17, <1>18 DEF Next, Bios, Environment

\* Only the file at hand, or a loss, changes what the BMC holds.
LEMMA StatusStep ==
  ASSUME TypeOK, StatusInv, [Next]_vars
  PROVE  StatusInv'
<1> USE UploadConstantsAssumption, UploadsAssumption, DigestAssumption DEF TypeOK, StatusInv, cur, FileType, vars, nvVars, bmcVars, postVars
<1>0. cur \in FileType
  BY CurType
<1>1. CASE SkipAbsent
  BY <1>0, <1>1 DEF SkipAbsent, Advance
<1>2. CASE SkipNoBuffer
  BY <1>0, <1>2 DEF SkipNoBuffer, Advance
<1>3. CASE SkipUnchanged
  BY <1>0, <1>3 DEF SkipUnchanged, Advance, Unchanged
<1>4. CASE BeginUpload
  BY <1>0, <1>4 DEF BeginUpload, Unchanged
<1>5. CASE Prepare
  BY <1>0, <1>5 DEF Prepare
<1>6. CASE PrepareFails
  BY <1>0, <1>6 DEF PrepareFails, AttemptFails, Advance
<1>7. CASE Start
  BY <1>0, <1>7 DEF Start
<1>8. CASE StartFails
  BY <1>0, <1>8 DEF StartFails, AttemptFails, Advance, Accept
<1>9. CASE Done
  BY <1>0, <1>9 DEF Done, Advance, Accept
<1>10. CASE DoneFails
  BY <1>0, <1>10 DEF DoneFails, AttemptFails, Advance, Accept
<1>11. CASE Save
  BY <1>0, <1>11 DEF Save, Advance
<1>12. CASE SaveFails
  BY <1>0, <1>12 DEF SaveFails, Advance
<1>13. CASE Signal
  BY <1>0, <1>13 DEF Signal
<1>14. CASE Boot
  BY <1>0, <1>14 DEF Boot
<1>15. CASE PowerOff
  BY <1>0, <1>15 DEF PowerOff
<1>16. CASE ClearNvram
  BY <1>0, <1>16 DEF ClearNvram
<1>17. ASSUME NEW t \in FileType, BmcLoses(t) PROVE StatusInv'
  BY <1>17 DEF BmcLoses
<1>18. CASE UNCHANGED vars
  BY <1>18
<1> QED
  BY <1>1, <1>2, <1>3, <1>4, <1>5, <1>6, <1>7, <1>8, <1>9, <1>10, <1>11, <1>12, <1>13, <1>14, <1>15, <1>16, <1>17, <1>18 DEF Next, Bios, Environment

\* The steps of one upload happen in order.
LEMMA SaveStep ==
  ASSUME TypeOK, SaveInv, [Next]_vars
  PROVE  SaveInv'
<1> USE UploadConstantsAssumption, UploadsAssumption, DigestAssumption DEF TypeOK, SaveInv, cur, FileType, vars, nvVars, bmcVars, postVars
<1>0. cur \in FileType
  BY CurType
<1>1. CASE SkipAbsent
  BY <1>0, <1>1 DEF SkipAbsent, Advance
<1>2. CASE SkipNoBuffer
  BY <1>0, <1>2 DEF SkipNoBuffer, Advance
<1>3. CASE SkipUnchanged
  BY <1>0, <1>3 DEF SkipUnchanged, Advance, Unchanged
<1>4. CASE BeginUpload
  BY <1>0, <1>4 DEF BeginUpload, Unchanged
<1>5. CASE Prepare
  BY <1>0, <1>5 DEF Prepare
<1>6. CASE PrepareFails
  BY <1>0, <1>6 DEF PrepareFails, AttemptFails, Advance
<1>7. CASE Start
  BY <1>0, <1>7 DEF Start
<1>8. CASE StartFails
  BY <1>0, <1>8 DEF StartFails, AttemptFails, Advance, Accept
<1>9. CASE Done
  <2>1. bmcFile'[cur] = data[cur] /\ data' = data /\ data[cur] # NoFile
    BY <1>0, <1>9 DEF Done, Accept
  <2>2. CASE UsesDigest(cur)
    BY <1>9, <2>1, <2>2 DEF Done
  <2>3. CASE ~UsesDigest(cur)
    BY <1>9, <2>3 DEF Done, Advance
  <2> QED
    BY <2>2, <2>3
<1>10. CASE DoneFails
  BY <1>0, <1>10 DEF DoneFails, AttemptFails, Advance, Accept
<1>11. CASE Save
  BY <1>0, <1>11 DEF Save, Advance
<1>12. CASE SaveFails
  BY <1>0, <1>12 DEF SaveFails, Advance
<1>13. CASE Signal
  BY <1>0, <1>13 DEF Signal
<1>14. CASE Boot
  BY <1>0, <1>14 DEF Boot
<1>15. CASE PowerOff
  BY <1>0, <1>15 DEF PowerOff
<1>16. CASE ClearNvram
  BY <1>0, <1>16 DEF ClearNvram
<1>17. ASSUME NEW t \in FileType, BmcLoses(t) PROVE SaveInv'
  BY <1>17 DEF BmcLoses
<1>18. CASE UNCHANGED vars
  BY <1>18
<1> QED
  BY <1>1, <1>2, <1>3, <1>4, <1>5, <1>6, <1>7, <1>8, <1>9, <1>10, <1>11, <1>12, <1>13, <1>14, <1>15, <1>16, <1>17, <1>18 DEF Next, Bios, Environment

\* Handling a file settles it, and nothing later unsettles it.
LEMMA SettledStep ==
  ASSUME TypeOK, VouchInv, StatusInv, SaveInv, SettledInv, [Next]_vars
  PROVE  SettledInv'
<1> USE UploadConstantsAssumption, UploadsAssumption, DigestAssumption, Md5Assumption DEF TypeOK, VouchInv, StatusInv, SaveInv, SettledInv, Settled, Current, UsesDigest, cur, FileType, vars, nvVars, bmcVars, postVars
<1>0. cur \in FileType
  BY CurType
<1>1. CASE SkipAbsent
  BY <1>0, <1>1 DEF SkipAbsent, Advance
<1>2. CASE SkipNoBuffer
  BY <1>0, <1>2 DEF SkipNoBuffer, Advance
<1>3. CASE SkipUnchanged
  BY <1>0, <1>3 DEF SkipUnchanged, Advance, Unchanged
<1>4. CASE BeginUpload
  BY <1>0, <1>4 DEF BeginUpload, Unchanged
<1>5. CASE Prepare
  BY <1>0, <1>5 DEF Prepare
<1>6. CASE PrepareFails
  BY <1>0, <1>6 DEF PrepareFails, AttemptFails, Advance
<1>7. CASE Start
  BY <1>0, <1>7 DEF Start
<1>8. CASE StartFails
  BY <1>0, <1>8 DEF StartFails, AttemptFails, Advance, Accept
<1>9. CASE Done
  BY <1>0, <1>9 DEF Done, Advance, Accept
<1>10. CASE DoneFails
  BY <1>0, <1>10 DEF DoneFails, AttemptFails, Advance, Accept
<1>11. CASE Save
  BY <1>0, <1>11 DEF Save, Advance
<1>12. CASE SaveFails
  BY <1>0, <1>12 DEF SaveFails, Advance
<1>13. CASE Signal
  BY <1>0, <1>13 DEF Signal
<1>14. CASE Boot
  BY <1>0, <1>14 DEF Boot
<1>15. CASE PowerOff
  BY <1>0, <1>15 DEF PowerOff
<1>16. CASE ClearNvram
  BY <1>0, <1>16 DEF ClearNvram
<1>17. ASSUME NEW t \in FileType, BmcLoses(t) PROVE SettledInv'
  BY <1>17 DEF BmcLoses
<1>18. CASE UNCHANGED vars
  BY <1>18
<1> QED
  BY <1>1, <1>2, <1>3, <1>4, <1>5, <1>6, <1>7, <1>8, <1>9, <1>10, <1>11, <1>12, <1>13, <1>14, <1>15, <1>16, <1>17, <1>18 DEF Next, Bios, Environment

\* The conjuncts hold together from the first state on.
THEOREM Invariance == Spec => []IInv
<1>1. Init => IInv
  BY UploadsAssumption, UploadConstantsAssumption
  DEF Init, IInv, TypeOK, VouchInv, StatusInv, SaveInv, SettledInv, Step
<1>2. IInv /\ [Next]_vars => IInv'
  BY TypeStep, VouchStep, StatusStep, SaveStep, SettledStep DEF IInv
<1> QED
  BY <1>1, <1>2, PTL DEF Spec

\* The variables of UploadOobDataToBmc have their types in every state: no list
\* of files and no retry count leads out of them.
THEOREM TypeCorrect == Spec => []TypeOK
BY Invariance, PTL DEF IInv

\* When the uploads are signalled, each file of the list is settled, for any list
\* of files, any contents and any number of attempts.
THEOREM SignalledIsCurrent == Spec => []CurrentWhenSignalled
<1>1. IInv => CurrentWhenSignalled
  BY DEF IInv, SettledInv, CurrentWhenSignalled, FileType
<1> QED
  BY <1>1, Invariance, PTL

\* A digest is saved only for what the BMC has acknowledged.
THEOREM DigestsVouch == Spec => DigestVouchesForBmc
<1> DEFINE Vouches == \A t \in FileType : digest'[t] \notin {digest[t], NoDigest} =>
                        Current(t) \/ t \in lost
<1>1. IInv /\ [Next]_vars => [Vouches]_vars
  <2> SUFFICES ASSUME IInv, [Next]_vars PROVE Vouches
    OBVIOUS
  <2> USE DEF vars, nvVars, bmcVars, postVars, IInv, TypeOK
  <2>0. cur \in FileType
    BY CurType
  <2>1. CASE Save
    BY <2>0, <2>1, DigestAssumption DEF Save, SaveInv, Current
  <2>2. CASE ClearNvram
    BY <2>2 DEF ClearNvram
  <2>3. CASE UNCHANGED digest
    BY <2>3
  <2> QED
    BY <2>1, <2>2, <2>3 DEF Next, Bios, Environment, SkipAbsent, SkipNoBuffer,
       SkipUnchanged, BeginUpload, Prepare, PrepareFails, Start, StartFails, Done,
       DoneFails, SaveFails, Signal, Boot, PowerOff, BmcLoses
<1> QED
  BY <1>1, Invariance, PTL DEF Spec, DigestVouchesForBmc

-----------------------------------------------------------------------------
(* The loops over files and attempts.                                      *)

\* What the POST has left to do: the files from the one at hand, its attempts, and
\* the steps of the attempt.
FilesLeft == IF pc \in {"signal", "os"} THEN 0 ELSE Len(Uploads) + 1 - n
StepsLeft ==
  CASE pc = "check" -> 5 [] pc = "prepare" -> 4 [] pc = "start" -> 3
    [] pc = "done"  -> 2 [] pc \in {"save", "signal"} -> 1 [] OTHER -> 0

Left == <<FilesLeft, FileRetry, StepsLeft>>

\* The loop of each upload counts FileRetry down on the failing path of three nested
\* conditions and starts over from PrepareDataToBmc. Every step of the POST leaves less
\* to do, whatever the BMC answers: of the numbers that are left, all of them naturals,
\* the first that changes is smaller.
LessLeft ==
  [][Bios => \E i \in 1..3 : /\ Left'[i] < Left[i] /\ \A j \in 1..3 : Left'[j] \in Nat
                             /\ \A j \in 1..(i - 1) : Left'[j] = Left[j]]_vars

\* The first number that changes is smaller.
Less ==
  \/ FilesLeft' < FilesLeft
  \/ FilesLeft' = FilesLeft /\ FileRetry' < FileRetry
  \/ FilesLeft' = FilesLeft /\ FileRetry' = FileRetry /\ StepsLeft' < StepsLeft

\* What is left to do is counted by naturals.
LEMMA LeftType ==
  ASSUME TypeOK
  PROVE  FilesLeft \in Nat /\ FileRetry \in Nat /\ StepsLeft \in Nat
BY UploadsAssumption, UploadConstantsAssumption DEF TypeOK, FilesLeft, StepsLeft, Step

\* An upload function that returns leaves fewer files.
LEMMA AdvanceLess ==
  ASSUME TypeOK, pc \notin {"signal", "os"}, Advance
  PROVE  Less
BY UploadsAssumption DEF TypeOK, Advance, Less, FilesLeft

\* A failed attempt leaves fewer attempts, or it was the last one for the file.
LEMMA AttemptLess ==
  ASSUME TypeOK, pc \in {"prepare", "start", "done"}, AttemptFails
  PROVE  Less
<1>1. CASE FileRetry > 1
  BY <1>1, UploadsAssumption, UploadConstantsAssumption DEF TypeOK, AttemptFails, Less, FilesLeft
<1>2. CASE ~(FileRetry > 1)
  BY <1>2, AdvanceLess DEF AttemptFails
<1> QED
  BY <1>1, <1>2

\* Every step of the POST leaves less to do.
LEMMA EveryLess ==
  ASSUME TypeOK, Bios
  PROVE  Less
<1>1. CASE SkipAbsent \/ SkipNoBuffer \/ SkipUnchanged \/ Save \/ SaveFails
  BY <1>1, AdvanceLess DEF SkipAbsent, SkipNoBuffer, SkipUnchanged, Save, SaveFails
<1>2. CASE PrepareFails \/ StartFails \/ DoneFails
  BY <1>2, AttemptLess DEF PrepareFails, StartFails, DoneFails
<1>3. CASE BeginUpload \/ Prepare \/ Start \/ Signal
  BY <1>3 DEF BeginUpload, Prepare, Start, Signal, Less, FilesLeft, StepsLeft
<1>4. CASE Done
  <2>1. CASE UsesDigest(cur)
    BY <1>4, <2>1 DEF Done, Less, FilesLeft, StepsLeft
  <2>2. CASE ~UsesDigest(cur)
    BY <1>4, <2>2, AdvanceLess DEF Done
  <2> QED
    BY <2>1, <2>2
<1> QED
  BY <1>1, <1>2, <1>3, <1>4 DEF Bios

\* Every step of the POST leaves less to do, whatever the BMC answers, for any list of
\* files and any number of attempts: the upload loops cannot run forever.
THEOREM LoopsEnd == Spec => LessLeft
<1> DEFINE Lower == \E i \in 1..3 : /\ Left'[i] < Left[i] /\ \A j \in 1..3 : Left'[j] \in Nat
                                    /\ \A j \in 1..(i - 1) : Left'[j] = Left[j]
           Numbers == FilesLeft \in Nat /\ FileRetry \in Nat /\ StepsLeft \in Nat
<1>1. TypeOK => Numbers
  BY LeftType
<1>2. TypeOK' => Numbers'
  BY <1>1, PTL
<1>3. TypeOK /\ TypeOK' /\ [Next]_vars => [Bios => Lower]_vars
  <2> SUFFICES ASSUME TypeOK, TypeOK', Bios PROVE Lower
    OBVIOUS
  <2>1. Less
    BY EveryLess
  <2>2. /\ Left[1] = FilesLeft /\ Left[2] = FileRetry /\ Left[3] = StepsLeft
        /\ Left'[1] = FilesLeft' /\ Left'[2] = FileRetry' /\ Left'[3] = StepsLeft'
    BY DEF Left
  <2>3. \A j \in 1..3 : Left'[j] \in Nat
    BY <1>2, <2>2
  <2>4. ASSUME NEW i \in 1..3, Left'[i] < Left[i], \A j \in 1..(i - 1) : Left'[j] = Left[j]
        PROVE  Lower
    BY <2>3, <2>4
  <2> HIDE DEF Lower
  <2>5. CASE FilesLeft' < FilesLeft
    BY <2>2, <2>4, <2>5
  <2>6. CASE FilesLeft' = FilesLeft /\ FileRetry' < FileRetry
    BY <2>2, <2>4, <2>6
  <2>7. CASE FilesLeft' = FilesLeft /\ FileRetry' = FileRetry /\ StepsLeft' < StepsLeft
    BY <2>2, <2>4, <2>7
  <2> QED
    BY <2>1, <2>5, <2>6, <2>7 DEF Less
<1> QED
  BY <1>3, TypeCorrect, PTL DEF Spec, LessLeft
=============================================================================
