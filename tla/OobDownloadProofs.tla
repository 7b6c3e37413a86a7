------------------------- MODULE OobDownloadProofs -------------------------
(***************************************************************************)
(* Proofs about OobDownload for any set of files, any number of attempts,  *)
(* polls and flash faults: type correctness, truthful success reports,     *)
(* at-most-once delivery as a refinement of FileDelivery, the regions that *)
(* a restore leaves, that it keeps stored files, that preserved SMBIOS     *)
(* data reaches NVRAM, and that every step leaves less to do.              *)
(***************************************************************************)
EXTENDS OobDownload, TLAPS

\* The loops are inside their bounds and have not succeeded yet.
LoopInv ==
  /\ pc \in {"off", "enter", "finished", "edmiArray", "edmiClear", "ready"} =>
       DownloadFailRetry = 0 /\ DownloadSuccess = 0
  /\ pc \in {"start", "wait", "read"} => DownloadFailRetry < MaxRetry /\ DownloadSuccess = 0
  /\ pc = "wait" => WaitBmcLoop < MaxWait

\* What the BMC offers: a user's file under one type, and never a stored one.
OfferInv ==
  /\ stored \subseteq submitted
  /\ \A t \in UserFile : bmc[t] \in submitted \cup {NoFile} /\ bmc[t] \notin stored
  /\ bmc["BIN"] = bmc["DMI"] => bmc["BIN"] = NoFile
  /\ bmc["STORAGE"] \in {Backup, NoFile}

\* Which file the BIOS has in its hands at each step.
HandInv ==
  /\ pc \in {"wait", "read"} => DownloadProcess = 1 /\ bmc[ft] # NoFile
  /\ pc = "report" /\ DownloadSuccess = 1 =>
       DownloadProcess = 1 /\ buf = bmc[ft] /\ bmc[ft] # NoFile
  /\ pc \in StorageSteps => /\ ft = "STORAGE" /\ DownloadProcess = 1 /\ DownloadSuccess = 1
                            /\ buf = bmc[ft] /\ bmc[ft] # NoFile
  /\ pc = "store" => /\ ft \in UserFile
                     /\ buf \in submitted \ stored
                     /\ \A t \in UserFile : bmc[t] # buf

IInv == TypeOK /\ LoopInv /\ OfferInv /\ HandInv

-----------------------------------------------------------------------------
(* Facts about the ROM hole's operators.                                   *)

\* A pass over the blocks that is stopped leaves, in every region, a content of
\* one of the two images or a torn one.
LEMMA StoppedType ==
  ASSUME NEW C, Torn \in C, NEW a \in [Region -> C], NEW b \in [Region -> C]
  PROVE  Stopped(a, b) \subseteq [Region -> C]
BY DEF Stopped

\* So does a call of SmcRomHoleWriteRegion that fails.
LEMMA FailedWritesType ==
  ASSUME NEW C, Torn \in C, Blank \in C,
         NEW old \in [Region -> C], NEW new \in [Region -> C]
  PROVE  FailedWrites(old, new) \subseteq [Region -> C]
<1> DEFINE overlay == [r \in Region |-> Program(old[r], new[r])]
<1>1. Erased \in [Region -> C]
  BY DEF Erased
<1>2. overlay \in [Region -> C]
  BY DEF Program
<1>3. /\ Stopped(Erased, old) \subseteq [Region -> C]
      /\ Stopped(new, Erased) \subseteq [Region -> C]
      /\ Stopped(new, overlay) \subseteq [Region -> C]
  <2> HIDE DEF overlay
  <2> QED  BY <1>1, <1>2, StoppedType
<1> QED
  BY <1>3 DEF FailedWrites

\* The image restored from a backup is made of region contents.
LEMMA RestoredType ==
  ASSUME NEW c \in Content, NEW flags
  PROVE  Restored(c, flags) \in [Region -> Content]
BY DEF Restored, Content

\* SmcEDMIInit clears the flag of the region or leaves it as it is.
LEMMA UnflaggedType ==
  ASSUME TypeOK
  PROVE  Unflagged \in Content
BY DEF TypeOK, Unflagged, smbios, Content, Region

\* A write of SmcEDMIInit leaves contents of regions.
LEMMA WriteSmbiosType ==
  ASSUME TypeOK, NEW c \in Content, WriteSmbios(c)
  PROVE  rom' \in [Region -> Content] /\ postFaults' \in Nat /\ faults' \in 0..MaxFault
<1> DEFINE new == WriteRegion(rom, "SMBIOS_FOR_BMC", c)
<1>1. rom \in [Region -> Content] /\ postFaults \in Nat /\ faults \in 0..MaxFault
  BY DEF TypeOK
<1>2. new \in [Region -> Content]
  BY <1>1 DEF WriteRegion, Region
<1>3. \/ rom' = new /\ UNCHANGED faultVars
      \/ rom' \in FailedWrites(rom, new) /\ Fault
  BY DEF WriteSmbios
<1>4. Torn \in Content /\ Blank \in Content
  BY DEF Content
<1> HIDE DEF new
<1>5. rom' \in [Region -> Content]
  BY <1>1, <1>2, <1>3, <1>4, FailedWritesType
<1> QED
  BY <1>1, <1>3, <1>5, ConstantsAssumption DEF Fault, faultVars

-----------------------------------------------------------------------------
(* The inductive invariant.                                                *)

\* Every step keeps the loop counters inside their bounds.
LEMMA LoopStep ==
  ASSUME TypeOK, LoopInv, HandInv, [Next]_vars
  PROVE  LoopInv'
<1> USE ConstantsAssumption DEF TypeOK, LoopInv, HandInv, vars, bmcVars, romVars, faultVars, loopVars, flagVars, localVars, UserFile, FileType, Step, StorageSteps, Flags
<1>1. CASE Enter
  BY <1>1 DEF Enter
<1>2. CASE EnterSkips
  BY <1>2 DEF EnterSkips, Leave, ClearLocals
<1>3. CASE StartError
  BY <1>3 DEF StartError, EndAttempt
<1>4. CASE StartNotAvailable
  BY <1>4 DEF StartNotAvailable
<1>5. CASE StartAvailable
  BY <1>5 DEF StartAvailable
<1>6. CASE WaitReady
  BY <1>6 DEF WaitReady
<1>7. CASE WaitNotAvailable
  BY <1>7 DEF WaitNotAvailable, EndAttempt
<1>8. CASE WaitBusy
  BY <1>8 DEF WaitBusy, EndAttempt
<1>9. CASE ReadError
  BY <1>9 DEF ReadError, EndAttempt
<1>10. CASE Read
  BY <1>10 DEF Read, EndAttempt, ChecksumOk
<1>11. CASE ReportNothing
  BY <1>11 DEF ReportNothing, Leave, ClearLocals
<1>12. CASE ReportFailure
  BY <1>12 DEF ReportFailure, Leave, ClearLocals
<1>13. CASE ReportSuccess
  BY <1>13 DEF ReportSuccess
<1>14. CASE ReportSuccessLeaves
  BY <1>14 DEF ReportSuccessLeaves, Leave, ClearLocals
<1>15. CASE Store
  BY <1>15 DEF Store, Leave, ClearLocals
<1>16. CASE StoreError
  BY <1>16 DEF StoreError, Leave, ClearLocals, Fault
<1>17. CASE GetFlags
  BY <1>17 DEF GetFlags
<1>18. CASE GetFlagsError
  BY <1>18 DEF GetFlagsError
<1>19. CASE RestoreSmbios
  BY <1>19 DEF RestoreSmbios, Restore, Fault
<1>20. CASE RestoreOA3
  BY <1>20 DEF RestoreOA3, Restore, Fault
<1>21. CASE RestoreOA2
  BY <1>21 DEF RestoreOA2, Restore, Fault
<1>22. CASE ClearFlags
  BY <1>22 DEF ClearFlags
<1>23. CASE WriteFull
  BY <1>23 DEF WriteFull, Fault
<1>24. CASE Boot
  BY <1>24 DEF Boot
<1>25. CASE FinishPost
  BY <1>25 DEF FinishPost
<1>26. CASE Crash
  BY <1>26 DEF Crash, ClearLocals
<1>27. CASE Reflash
  BY <1>27 DEF Reflash
<1>28. CASE SubmitBackup
  BY <1>28 DEF SubmitBackup
<1>29. ASSUME NEW t \in UserFile, NEW i \in Image, Submit(t, i) PROVE LoopInv'
  BY <1>29 DEF Submit
<1>30. CASE UNCHANGED vars
  BY <1>30
<1>31. CASE EdmiSkips
  BY <1>31 DEF EdmiSkips
<1>32. CASE EdmiEmpty
  BY <1>32 DEF EdmiEmpty, WriteSmbios, Fault
<1>33. CASE EdmiVars
  BY <1>33 DEF EdmiVars, Fault
<1>34. CASE EdmiArray
  BY <1>34 DEF EdmiArray, Fault
<1>35. CASE EdmiClear
  BY <1>35 DEF EdmiClear, WriteSmbios, Fault
<1>36. CASE EdmiSave
  BY <1>36 DEF EdmiSave, WriteSmbios, Fault
<1> QED
  BY <1>1, <1>2, <1>3, <1>4, <1>5, <1>6, <1>7, <1>8, <1>9, <1>10, <1>11, <1>12, <1>13, <1>14, <1>15, <1>16, <1>17, <1>18, <1>19, <1>20, <1>21, <1>22, <1>23, <1>24, <1>25, <1>26, <1>27, <1>28, <1>29, <1>30, <1>31, <1>32, <1>33, <1>34, <1>35, <1>36 DEF Next, Bios, Edmi, Environment

\* No step makes the BMC offer a file twice, or again after it was stored.
LEMMA OfferStep ==
  ASSUME TypeOK, OfferInv, HandInv, [Next]_vars
  PROVE  OfferInv'
<1> USE DistinctAssumption DEF TypeOK, OfferInv, HandInv, vars, bmcVars, romVars, faultVars, loopVars, flagVars, localVars, UserFile, FileType, Step, StorageSteps, Flags
<1>1. CASE Enter
  BY <1>1 DEF Enter
<1>2. CASE EnterSkips
  BY <1>2 DEF EnterSkips, Leave, ClearLocals
<1>3. CASE StartError
  BY <1>3 DEF StartError, EndAttempt
<1>4. CASE StartNotAvailable
  BY <1>4 DEF StartNotAvailable
<1>5. CASE StartAvailable
  BY <1>5 DEF StartAvailable
<1>6. CASE WaitReady
  BY <1>6 DEF WaitReady
<1>7. CASE WaitNotAvailable
  BY <1>7 DEF WaitNotAvailable, EndAttempt
<1>8. CASE WaitBusy
  BY <1>8 DEF WaitBusy, EndAttempt
<1>9. CASE ReadError
  BY <1>9 DEF ReadError, EndAttempt
<1>10. CASE Read
  BY <1>10 DEF Read, EndAttempt, ChecksumOk
<1>11. CASE ReportNothing
  BY <1>11 DEF ReportNothing, Leave, ClearLocals
<1>12. CASE ReportFailure
  BY <1>12 DEF ReportFailure, Leave, ClearLocals
<1>13. CASE ReportSuccess
  BY <1>13 DEF ReportSuccess
<1>14. CASE ReportSuccessLeaves
  BY <1>14 DEF ReportSuccessLeaves, Leave, ClearLocals
<1>15. CASE Store
  BY <1>15 DEF Store, Leave, ClearLocals
<1>16. CASE StoreError
  BY <1>16 DEF StoreError, Leave, ClearLocals, Fault
<1>17. CASE GetFlags
  BY <1>17 DEF GetFlags
<1>18. CASE GetFlagsError
  BY <1>18 DEF GetFlagsError
<1>19. CASE RestoreSmbios
  BY <1>19 DEF RestoreSmbios, Restore, Fault
<1>20. CASE RestoreOA3
  BY <1>20 DEF RestoreOA3, Restore, Fault
<1>21. CASE RestoreOA2
  BY <1>21 DEF RestoreOA2, Restore, Fault
<1>22. CASE ClearFlags
  BY <1>22 DEF ClearFlags
<1>23. CASE WriteFull
  BY <1>23 DEF WriteFull, Fault
<1>24. CASE Boot
  BY <1>24 DEF Boot
<1>25. CASE FinishPost
  BY <1>25 DEF FinishPost
<1>26. CASE Crash
  BY <1>26 DEF Crash, ClearLocals
<1>27. CASE Reflash
  BY <1>27 DEF Reflash
<1>28. CASE SubmitBackup
  BY <1>28 DEF SubmitBackup
<1>29. ASSUME NEW t \in UserFile, NEW i \in Image, Submit(t, i) PROVE OfferInv'
  BY <1>29 DEF Submit
<1>30. CASE UNCHANGED vars
  BY <1>30
<1>31. CASE EdmiSkips
  BY <1>31 DEF EdmiSkips
<1>32. CASE EdmiEmpty
  BY <1>32 DEF EdmiEmpty, WriteSmbios, Fault
<1>33. CASE EdmiVars
  BY <1>33 DEF EdmiVars, Fault
<1>34. CASE EdmiArray
  BY <1>34 DEF EdmiArray, Fault
<1>35. CASE EdmiClear
  BY <1>35 DEF EdmiClear, WriteSmbios, Fault
<1>36. CASE EdmiSave
  BY <1>36 DEF EdmiSave, WriteSmbios, Fault
<1> QED
  BY <1>1, <1>2, <1>3, <1>4, <1>5, <1>6, <1>7, <1>8, <1>9, <1>10, <1>11, <1>12, <1>13, <1>14, <1>15, <1>16, <1>17, <1>18, <1>19, <1>20, <1>21, <1>22, <1>23, <1>24, <1>25, <1>26, <1>27, <1>28, <1>29, <1>30, <1>31, <1>32, <1>33, <1>34, <1>35, <1>36 DEF Next, Bios, Edmi, Environment

\* Every step hands the file over as HandInv says.
LEMMA HandStep ==
  ASSUME TypeOK, LoopInv, OfferInv, HandInv, [Next]_vars
  PROVE  HandInv'
<1> USE DistinctAssumption DEF TypeOK, LoopInv, OfferInv, HandInv, vars, bmcVars, romVars, faultVars, loopVars, flagVars, localVars, UserFile, FileType, Step, StorageSteps, Flags
<1>1. CASE Enter
  BY <1>1 DEF Enter
<1>2. CASE EnterSkips
  BY <1>2 DEF EnterSkips, Leave, ClearLocals
<1>3. CASE StartError
  BY <1>3 DEF StartError, EndAttempt
<1>4. CASE StartNotAvailable
  BY <1>4 DEF StartNotAvailable
<1>5. CASE StartAvailable
  BY <1>5 DEF StartAvailable
<1>6. CASE WaitReady
  BY <1>6 DEF WaitReady
<1>7. CASE WaitNotAvailable
  BY <1>7 DEF WaitNotAvailable, EndAttempt
<1>8. CASE WaitBusy
  BY <1>8 DEF WaitBusy, EndAttempt
<1>9. CASE ReadError
  BY <1>9 DEF ReadError, EndAttempt
<1>10. CASE Read
  BY <1>10 DEF Read, EndAttempt, ChecksumOk
<1>11. CASE ReportNothing
  BY <1>11 DEF ReportNothing, Leave, ClearLocals
<1>12. CASE ReportFailure
  BY <1>12 DEF ReportFailure, Leave, ClearLocals
<1>13. CASE ReportSuccess
  BY <1>13 DEF ReportSuccess
<1>14. CASE ReportSuccessLeaves
  BY <1>14 DEF ReportSuccessLeaves, Leave, ClearLocals
<1>15. CASE Store
  BY <1>15 DEF Store, Leave, ClearLocals
<1>16. CASE StoreError
  BY <1>16 DEF StoreError, Leave, ClearLocals, Fault
<1>17. CASE GetFlags
  BY <1>17 DEF GetFlags
<1>18. CASE GetFlagsError
  BY <1>18 DEF GetFlagsError
<1>19. CASE RestoreSmbios
  BY <1>19 DEF RestoreSmbios, Restore, Fault
<1>20. CASE RestoreOA3
  BY <1>20 DEF RestoreOA3, Restore, Fault
<1>21. CASE RestoreOA2
  BY <1>21 DEF RestoreOA2, Restore, Fault
<1>22. CASE ClearFlags
  BY <1>22 DEF ClearFlags
<1>23. CASE WriteFull
  BY <1>23 DEF WriteFull, Fault
<1>24. CASE Boot
  BY <1>24 DEF Boot
<1>25. CASE FinishPost
  BY <1>25 DEF FinishPost
<1>26. CASE Crash
  BY <1>26 DEF Crash, ClearLocals
<1>27. CASE Reflash
  BY <1>27 DEF Reflash
<1>28. CASE SubmitBackup
  BY <1>28 DEF SubmitBackup
<1>29. ASSUME NEW t \in UserFile, NEW i \in Image, Submit(t, i) PROVE HandInv'
  BY <1>29 DEF Submit
<1>30. CASE UNCHANGED vars
  BY <1>30
<1>31. CASE EdmiSkips
  BY <1>31 DEF EdmiSkips
<1>32. CASE EdmiEmpty
  BY <1>32 DEF EdmiEmpty, WriteSmbios, Fault
<1>33. CASE EdmiVars
  BY <1>33 DEF EdmiVars, Fault
<1>34. CASE EdmiArray
  BY <1>34 DEF EdmiArray, Fault
<1>35. CASE EdmiClear
  BY <1>35 DEF EdmiClear, WriteSmbios, Fault
<1>36. CASE EdmiSave
  BY <1>36 DEF EdmiSave, WriteSmbios, Fault
<1> QED
  BY <1>1, <1>2, <1>3, <1>4, <1>5, <1>6, <1>7, <1>8, <1>9, <1>10, <1>11, <1>12, <1>13, <1>14, <1>15, <1>16, <1>17, <1>18, <1>19, <1>20, <1>21, <1>22, <1>23, <1>24, <1>25, <1>26, <1>27, <1>28, <1>29, <1>30, <1>31, <1>32, <1>33, <1>34, <1>35, <1>36 DEF Next, Bios, Edmi, Environment

\* Every step keeps the types. The steps that write the ROM are the ones that
\* need the facts about its operators.
LEMMA TypeStep ==
  ASSUME TypeOK, LoopInv, OfferInv, HandInv, [Next]_vars
  PROVE  TypeOK'
<1> USE ConstantsAssumption DEF TypeOK, LoopInv, vars, bmcVars, romVars, faultVars, loopVars, flagVars, localVars, UserFile, FileType, Step, StorageSteps, Flags
<1>0. /\ {Torn, Blank, Smc, Backup} \subseteq Content /\ Image \subseteq Content
      /\ \A t \in UserFile : Target(t) \in Region
  BY DEF Content, Target, Region
<1>1. CASE Enter
  BY <1>1 DEF Enter
<1>2. CASE EnterSkips
  BY <1>2 DEF EnterSkips, Leave, ClearLocals
<1>3. CASE StartError
  BY <1>3 DEF StartError, EndAttempt
<1>4. CASE StartNotAvailable
  BY <1>4 DEF StartNotAvailable
<1>5. CASE StartAvailable
  BY <1>5 DEF StartAvailable
<1>6. CASE WaitReady
  BY <1>6 DEF WaitReady
<1>7. CASE WaitNotAvailable
  BY <1>7 DEF WaitNotAvailable, EndAttempt
<1>8. CASE WaitBusy
  BY <1>8 DEF WaitBusy, EndAttempt
<1>9. CASE ReadError
  BY <1>9 DEF ReadError, EndAttempt
<1>10. CASE Read
  BY <1>10 DEF Read, EndAttempt, ChecksumOk
<1>11. CASE ReportNothing
  BY <1>11 DEF ReportNothing, Leave, ClearLocals
<1>12. CASE ReportFailure
  BY <1>12 DEF ReportFailure, Leave, ClearLocals
<1>13. CASE ReportSuccess
  BY <1>13 DEF ReportSuccess
<1>14. CASE ReportSuccessLeaves
  BY <1>14 DEF ReportSuccessLeaves, Leave, ClearLocals
<1>15. CASE Store
  <2>1. buf \in Image /\ ft \in UserFile
    BY <1>15 DEF Store, HandInv
  <2>2. rom' \in [Region -> Content]
    BY <1>15, <1>0, <2>1 DEF Store, WriteRegion
  <2> QED
    BY <1>15, <2>1, <2>2 DEF Store, Leave, ClearLocals
<1>16. CASE StoreError
  <2>1. buf \in Image /\ ft \in UserFile
    BY <1>16 DEF StoreError, HandInv
  <2>2. WriteRegion(rom, Target(ft), buf) \in [Region -> Content]
    BY <1>0, <2>1 DEF WriteRegion
  <2>3. rom' \in [Region -> Content]
    BY <1>16, <1>0, <2>2, FailedWritesType DEF StoreError
  <2> QED
    BY <1>16, <2>1, <2>3 DEF StoreError, Leave, ClearLocals, Fault
<1>17. CASE GetFlags
  BY <1>17 DEF GetFlags
<1>18. CASE GetFlagsError
  BY <1>18 DEF GetFlagsError
<1>19. CASE RestoreSmbios
  <2> DEFINE new == WriteRegion(rom, "SMBIOS_FOR_BMC", Restored(buf, FlashFlag)["SMBIOS_FOR_BMC"])
  <2>1. buf \in Content
    BY <1>19, <1>0 DEF RestoreSmbios, Restore, OfferInv, HandInv
  <2>2. Restored(buf, FlashFlag) \in [Region -> Content]
    BY <2>1, RestoredType
  <2>3. new \in [Region -> Content]
    BY <2>2 DEF WriteRegion, Region
  <2>4. rom' = new \/ rom' \in FailedWrites(rom, new)
    BY <1>19 DEF RestoreSmbios, Restore
  <2>5. rom' \in [Region -> Content]
    BY <1>0, <2>3, <2>4, FailedWritesType
  <2> QED
    BY <1>19, <2>5 DEF RestoreSmbios, Restore, Fault
<1>20. CASE RestoreOA3
  <2> DEFINE new == WriteRegion(rom, "OA3", Restored(buf, FlashFlag)["OA3"])
  <2>1. buf \in Content
    BY <1>20, <1>0 DEF RestoreOA3, Restore, OfferInv, HandInv
  <2>2. Restored(buf, FlashFlag) \in [Region -> Content]
    BY <2>1, RestoredType
  <2>3. new \in [Region -> Content]
    BY <2>2 DEF WriteRegion, Region
  <2>4. rom' = new \/ rom' \in FailedWrites(rom, new)
    BY <1>20 DEF RestoreOA3, Restore
  <2>5. rom' \in [Region -> Content]
    BY <1>0, <2>3, <2>4, FailedWritesType
  <2> QED
    BY <1>20, <2>5 DEF RestoreOA3, Restore, Fault
<1>21. CASE RestoreOA2
  <2> DEFINE new == WriteRegion(rom, "OA2", Restored(buf, FlashFlag)["OA2"])
  <2>1. buf \in Content
    BY <1>21, <1>0 DEF RestoreOA2, Restore, OfferInv, HandInv
  <2>2. Restored(buf, FlashFlag) \in [Region -> Content]
    BY <2>1, RestoredType
  <2>3. new \in [Region -> Content]
    BY <2>2 DEF WriteRegion, Region
  <2>4. rom' = new \/ rom' \in FailedWrites(rom, new)
    BY <1>21 DEF RestoreOA2, Restore
  <2>5. rom' \in [Region -> Content]
    BY <1>0, <2>3, <2>4, FailedWritesType
  <2> QED
    BY <1>21, <2>5 DEF RestoreOA2, Restore, Fault
<1>22. CASE ClearFlags
  BY <1>22 DEF ClearFlags
<1>23. CASE WriteFull
  <2>1. buf \in Content
    BY <1>23, <1>0 DEF WriteFull, OfferInv, HandInv
  <2>2. Restored(buf, FlashFlag) \in [Region -> Content]
    BY <2>1, RestoredType
  <2>3. rom' \in [Region -> Content]
    BY <1>23, <1>0, <2>2, FailedWritesType DEF WriteFull
  <2> QED
    BY <1>23, <2>3 DEF WriteFull, Fault
<1>24. CASE Boot
  BY <1>24 DEF Boot
<1>25. CASE FinishPost
  <2>1. rom' \in [Region -> Content]
    BY <1>25, <1>0 DEF FinishPost
  <2> QED
    BY <1>25, <2>1 DEF FinishPost
<1>26. CASE Crash
  BY <1>26 DEF Crash, ClearLocals
<1>27. CASE Reflash
  BY <1>27, <1>0 DEF Reflash, Erased
<1>28. CASE SubmitBackup
  BY <1>28 DEF SubmitBackup
<1>29. ASSUME NEW t \in UserFile, NEW i \in Image, Submit(t, i) PROVE TypeOK'
  BY <1>29 DEF Submit
<1>30. CASE UNCHANGED vars
  BY <1>30
<1>31. CASE EdmiSkips
  BY <1>31 DEF EdmiSkips
<1>32. CASE EdmiEmpty
  <2>1. rom' \in [Region -> Content] /\ postFaults' \in Nat /\ faults' \in 0..MaxFault
    BY <1>32, UnflaggedType, WriteSmbiosType DEF EdmiEmpty
  <2> QED
    BY <1>32, <2>1 DEF EdmiEmpty
<1>33. CASE EdmiVars
  BY <1>33 DEF EdmiVars, Fault
<1>34. CASE EdmiArray
  BY <1>34 DEF EdmiArray, Fault
<1>35. CASE EdmiClear
  <2>1. rom' \in [Region -> Content] /\ postFaults' \in Nat /\ faults' \in 0..MaxFault
    BY <1>35, UnflaggedType, WriteSmbiosType DEF EdmiClear
  <2> QED
    BY <1>35, <2>1 DEF EdmiClear
<1>36. CASE EdmiSave
  <2>1. PICK c \in {Smc, Table} : WriteSmbios(c)
    BY <1>36 DEF EdmiSave
  <2>2. c \in Content
    BY <2>1 DEF Content
  <2>3. rom' \in [Region -> Content] /\ postFaults' \in Nat /\ faults' \in 0..MaxFault
    BY <2>1, <2>2, WriteSmbiosType
  <2> QED
    BY <1>36, <2>3 DEF EdmiSave
<1> QED
  BY <1>1, <1>2, <1>3, <1>4, <1>5, <1>6, <1>7, <1>8, <1>9, <1>10, <1>11, <1>12, <1>13, <1>14, <1>15, <1>16, <1>17, <1>18, <1>19, <1>20, <1>21, <1>22, <1>23, <1>24, <1>25, <1>26, <1>27, <1>28, <1>29, <1>30, <1>31, <1>32, <1>33, <1>34, <1>35, <1>36 DEF Next, Bios, Edmi, Environment

\* The conjuncts hold together from the first state on.
THEOREM Invariance == Spec => []IInv
<1>1. Init => IInv
  BY ConstantsAssumption, DistinctAssumption
  DEF Init, IInv, TypeOK, LoopInv, OfferInv, HandInv, Erased, Content, Step,
      StorageSteps, UserFile, FileType, Flags
<1>2. IInv /\ [Next]_vars => IInv'
  BY TypeStep, LoopStep, OfferStep, HandStep DEF IInv
<1> QED
  BY <1>1, <1>2, PTL DEF Spec

\* The variables of DownloadFileFromBMC have their types in every state: the
\* retry and poll counters never pass their limits, and every region holds a
\* content that some writer put there, or a blank or torn one.
THEOREM TypeCorrect == Spec => []TypeOK
BY Invariance, PTL DEF IInv

\* DownloadOobDataDone(0) is only ever sent for data equal to the file the BMC
\* still offers, for any number of attempts and polls.
THEOREM ReportsAreTruthful == Spec => []SuccessReportIsTruthful
<1>1. IInv => SuccessReportIsTruthful
  BY DEF IInv, HandInv, SuccessReportIsTruthful
<1> QED
  BY <1>1, Invariance, PTL

-----------------------------------------------------------------------------
(* At-most-once delivery.                                                  *)

\* Nothing becomes of a file in a step that leaves the BMC's offers and the
\* history alone and is not about to store a file.
LEMMA FatesKept ==
  ASSUME UNCHANGED <<bmc, submitted, stored>>, pc # "store", pc' # "store"
  PROVE  fates' = fates
BY DEF fates, FateOf

\* One file changes its fate as FileDelivery allows.
LEMMA FateStep ==
  ASSUME NEW i \in Image,
         \/ FateOf(i) = "new" /\ FateOf(i)' = "offered"
         \/ FateOf(i) = "offered" /\ FateOf(i)' \in {"taken", "lost"}
         \/ FateOf(i) = "taken" /\ FateOf(i)' \in {"stored", "lost"},
         \A j \in Image \ {i} : FateOf(j)' = FateOf(j)
  PROVE  Delivery!Next
<1>1. fates[i] = FateOf(i) /\ fates' = [fates EXCEPT ![i] = FateOf(i)']
  BY DEF fates
<1> QED
  BY <1>1 DEF Delivery!Next, Delivery!Offer, Delivery!Take, Delivery!Store, Delivery!Lose

\* The BMC drops the file it offers under ft, or keeps it.
LEMMA DropStep ==
  ASSUME IInv, IInv', pc # "store", pc' # "store", UNCHANGED <<submitted, stored>>,
         bmc' \in {bmc, [bmc EXCEPT ![ft] = NoFile]}
  PROVE  [Delivery!Next]_fates
<1> USE DistinctAssumption DEF IInv, TypeOK, OfferInv, UserFile, FileType
<1>1. CASE ft \in UserFile /\ bmc[ft] # NoFile /\ bmc' # bmc
  <2>1. PICK i \in Image : i = bmc[ft]
    BY <1>1
  <2>2. FateOf(i) = "offered" /\ FateOf(i)' = "lost"
    BY <1>1, <2>1 DEF FateOf
  <2>3. \A j \in Image \ {i} : FateOf(j)' = FateOf(j)
    BY <1>1, <2>1 DEF FateOf
  <2> QED
    BY <2>2, <2>3, FateStep
<1>2. CASE ~(ft \in UserFile /\ bmc[ft] # NoFile /\ bmc' # bmc)
  <2>1. fates' = fates
    BY <1>2 DEF fates, FateOf
  <2> QED
    BY <2>1
<1> QED
  BY <1>1, <1>2

\* A step that leaves "store" turns the taken file into a stored or a lost one.
LEMMA StoreStep ==
  ASSUME IInv, pc = "store", pc' # "store", UNCHANGED <<bmc, submitted>>,
         stored' \in {stored, stored \cup {buf}}
  PROVE  Delivery!Next
<1> USE DistinctAssumption DEF IInv, TypeOK, OfferInv, HandInv, UserFile, FileType
<1>1. PICK i \in Image : i = buf
  OBVIOUS
<1>2. FateOf(i) = "taken" /\ FateOf(i)' \in {"stored", "lost"}
  BY <1>1 DEF FateOf
<1>3. \A j \in Image \ {i} : FateOf(j)' = FateOf(j)
  BY <1>1 DEF FateOf
<1> QED
  BY <1>2, <1>3, FateStep

\* Every step of the downloads is a step of FileDelivery or leaves the fates.
LEMMA DeliveryStep ==
  ASSUME IInv, IInv', [Next]_vars
  PROVE  [Delivery!Next]_fates
<1> USE DEF vars, bmcVars, romVars, faultVars, loopVars, flagVars, localVars
<1>1. CASE Enter
  BY <1>1, FatesKept DEF Enter
<1>2. CASE EnterSkips
  BY <1>2, FatesKept DEF EnterSkips, Leave
<1>3. CASE StartError
  BY <1>3, FatesKept DEF StartError, EndAttempt
<1>4. CASE StartNotAvailable
  BY <1>4, FatesKept DEF StartNotAvailable
<1>5. CASE StartAvailable
  BY <1>5, FatesKept DEF StartAvailable
<1>6. CASE WaitReady
  BY <1>6, FatesKept DEF WaitReady
<1>7. CASE WaitNotAvailable
  BY <1>7, FatesKept DEF WaitNotAvailable, EndAttempt
<1>8. CASE WaitBusy
  BY <1>8, FatesKept DEF WaitBusy, EndAttempt
<1>9. CASE ReadError
  BY <1>9, FatesKept DEF ReadError, EndAttempt
<1>10. CASE Read
  BY <1>10, FatesKept DEF Read, EndAttempt
<1>11. CASE ReportNothing
  BY <1>11, FatesKept DEF ReportNothing, Leave
<1>12. CASE ReportFailure
  BY <1>12, DropStep DEF ReportFailure, Leave, ClearLocals
<1>13. CASE ReportSuccess
  <2> USE DistinctAssumption DEF IInv, TypeOK, OfferInv, HandInv, UserFile, FileType
  <2>1. PICK i \in Image : i = bmc[ft]
    BY <1>13 DEF ReportSuccess
  <2>2. FateOf(i) = "offered" /\ FateOf(i)' = "taken"
    BY <1>13, <2>1 DEF ReportSuccess, FateOf
  <2>3. \A j \in Image \ {i} : FateOf(j)' = FateOf(j)
    BY <1>13, <2>1 DEF ReportSuccess, FateOf
  <2> QED
    BY <2>2, <2>3, FateStep
<1>14. CASE ReportSuccessLeaves
  BY <1>14, DropStep DEF ReportSuccessLeaves, Leave, ClearLocals
<1>15. CASE Store
  BY <1>15, StoreStep DEF Store, Leave, ClearLocals
<1>16. CASE StoreError
  BY <1>16, StoreStep DEF StoreError, Leave, ClearLocals, Fault
<1>17. CASE GetFlags
  BY <1>17, FatesKept DEF GetFlags
<1>18. CASE GetFlagsError
  BY <1>18, FatesKept DEF GetFlagsError
<1>19. CASE RestoreSmbios
  BY <1>19, FatesKept DEF RestoreSmbios, Restore
<1>20. CASE RestoreOA3
  BY <1>20, FatesKept DEF RestoreOA3, Restore
<1>21. CASE RestoreOA2
  BY <1>21, FatesKept DEF RestoreOA2, Restore
<1>22. CASE ClearFlags
  BY <1>22, FatesKept DEF ClearFlags
<1>23. CASE WriteFull
  BY <1>23, FatesKept DEF WriteFull
<1>24. CASE Boot
  BY <1>24, FatesKept DEF Boot
<1>25. CASE FinishPost
  BY <1>25, FatesKept DEF FinishPost
<1>26. CASE Crash
  <2>1. CASE pc = "store"
    BY <1>26, <2>1, StoreStep DEF Crash
  <2>2. CASE pc # "store"
    BY <1>26, <2>2, FatesKept DEF Crash
  <2> QED
    BY <2>1, <2>2
<1>27. CASE Reflash
  BY <1>27, FatesKept DEF Reflash
<1>28. CASE SubmitBackup
  <2>1. fates' = fates
    BY <1>28, DistinctAssumption DEF SubmitBackup, fates, FateOf, UserFile, IInv, TypeOK, FileType
  <2> QED
    BY <2>1
<1>29. ASSUME NEW t \in UserFile, NEW i \in Image, Submit(t, i) PROVE [Delivery!Next]_fates
  <2> USE DistinctAssumption DEF IInv, TypeOK, OfferInv, HandInv, UserFile, FileType
  <2>1. FateOf(i) = "new" /\ FateOf(i)' = "offered"
    BY <1>29 DEF Submit, FateOf
  <2>2. \A j \in Image \ {i} : FateOf(j)' = FateOf(j)
    BY <1>29 DEF Submit, FateOf
  <2> QED
    BY <2>1, <2>2, FateStep
<1>30. CASE UNCHANGED vars
  BY <1>30 DEF fates, FateOf
<1>31. CASE EdmiSkips
  BY <1>31, FatesKept DEF EdmiSkips
<1>32. CASE EdmiEmpty
  BY <1>32, FatesKept DEF EdmiEmpty
<1>33. CASE EdmiVars
  BY <1>33, FatesKept DEF EdmiVars
<1>34. CASE EdmiArray
  BY <1>34, FatesKept DEF EdmiArray
<1>35. CASE EdmiClear
  BY <1>35, FatesKept DEF EdmiClear
<1>36. CASE EdmiSave
  BY <1>36, FatesKept DEF EdmiSave
<1> QED
  BY <1>1, <1>2, <1>3, <1>4, <1>5, <1>6, <1>7, <1>8, <1>9, <1>10, <1>11, <1>12, <1>13, <1>14, <1>15, <1>16, <1>17, <1>18, <1>19, <1>20, <1>21, <1>22, <1>23, <1>24, <1>25, <1>26, <1>27, <1>28, <1>29, <1>30, <1>31, <1>32, <1>33, <1>34, <1>35, <1>36 DEF Next, Bios, Edmi, Environment

\* DownloadFileFromBMC implements FileDelivery: whatever fails, is retried or
\* is cut off, no file of any user is stored twice, or stored while the BMC
\* still offers it.
THEOREM AtMostOnce == Spec => DeliversAtMostOnce
<1>1. Init => Delivery!Init
  BY DistinctAssumption DEF Init, Delivery!Init, fates, FateOf, UserFile, FileType
<1>2. IInv /\ IInv' /\ [Next]_vars => [Delivery!Next]_fates
  BY DeliveryStep
<1> QED
  BY <1>1, <1>2, Invariance, PTL DEF Spec, DeliversAtMostOnce, Delivery!Spec

-----------------------------------------------------------------------------
(* The restore of the backup                                              *)

\* The flags are held only between their command and the acknowledgement.
FlagInv ==
  /\ FlashFlag # "error" =>
       ft = "STORAGE" /\ pc \in {"writeSmbios", "writeOA3", "writeOA2", "clear", "full", "report"}
  /\ pc \in {"writeSmbios", "writeOA3", "writeOA2"} => FlashFlag # "error"
  /\ pc = "full" => Bakerville
  /\ pc = "store" => ft \in UserFile

\* The regions restored by this step of DownloadBiosStorageFromBmc.
RestoredBy(step) ==
  CASE step = "writeOA3" -> {"SMBIOS_FOR_BMC"}
    [] step = "writeOA2" -> {"SMBIOS_FOR_BMC", "OA3"}
    [] step \in {"clear", "full", "report"} -> {"SMBIOS_FOR_BMC", "OA3", "OA2"}
    [] OTHER -> {}

\* Between the writes no other write touches what was restored.
RestoreInv ==
  postFaults = 0 /\ FlashFlag # "error" =>
    \A r \in RestoredBy(pc) : rom[r] = Restored(buf, FlashFlag)[r]

\* What this POST stored is in its region.
FreshInv ==
  postFaults = 0 /\ pc # "off" =>
    \A t \in UserFile : fresh[t] # NoFile => rom[Target(t)] = fresh[t]

\* The backup is only fetched and restored over a region without "$SMC".
UnsignedInv ==
  postFaults = 0 /\ ft = "STORAGE" =>
    /\ pc \in {"start", "wait", "read", "flags", "writeSmbios"} => ~HasSmc(rom["SMBIOS_FOR_BMC"])
    /\ pc \in {"clear", "full"} /\ FlashFlag = "error" => ~HasSmc(rom["SMBIOS_FOR_BMC"])

\* RestoredBy, step by step.
LEMMA RestoredByValues ==
  /\ RestoredBy("writeOA3") = {"SMBIOS_FOR_BMC"}
  /\ RestoredBy("writeOA2") = {"SMBIOS_FOR_BMC", "OA3"}
  /\ \A p \in {"clear", "full", "report"} : RestoredBy(p) = {"SMBIOS_FOR_BMC", "OA3", "OA2"}
  /\ RestoredBy("writeSmbios") = {}
  /\ \A p : RestoredBy(p) \subseteq {"SMBIOS_FOR_BMC", "OA3", "OA2"}
<1>1. RestoredBy("writeOA3") = {"SMBIOS_FOR_BMC"} /\ RestoredBy("writeOA2") = {"SMBIOS_FOR_BMC", "OA3"}
  BY DEF RestoredBy
<1>2. \A p \in {"clear", "full", "report"} : RestoredBy(p) = {"SMBIOS_FOR_BMC", "OA3", "OA2"}
  BY DEF RestoredBy
<1>3. RestoredBy("writeSmbios") = {}
  BY DEF RestoredBy
<1>4. ASSUME NEW p PROVE RestoredBy(p) \subseteq {"SMBIOS_FOR_BMC", "OA3", "OA2"}
  BY DEF RestoredBy
<1> QED
  BY <1>1, <1>2, <1>3, <1>4

\* A write that succeeds replaces its region and keeps the others.
LEMMA WriteRegionValues ==
  ASSUME TypeOK, NEW r \in Region, NEW c, rom' = WriteRegion(rom, r, c)
  PROVE  rom'[r] = c /\ \A q \in Region \ {r} : rom'[q] = rom[q]
BY DEF TypeOK, WriteRegion

\* A write of SmcEDMIInit that succeeds replaces its region and keeps the others.
LEMMA WriteSmbiosValues ==
  ASSUME TypeOK, NEW c, WriteSmbios(c), postFaults' = 0
  PROVE  /\ rom'["SMBIOS_FOR_BMC"] = c
         /\ \A q \in Region \ {"SMBIOS_FOR_BMC"} : rom'[q] = rom[q]
         /\ postFaults = 0
<1>1. ~Fault
  BY DEF Fault, TypeOK
<1>2. rom' = WriteRegion(rom, "SMBIOS_FOR_BMC", c) /\ UNCHANGED faultVars
  BY <1>1 DEF WriteSmbios
<1> QED
  BY <1>2, WriteRegionValues DEF faultVars, Region

\* Every step keeps the flags where they belong.
LEMMA FlagStep ==
  ASSUME TypeOK, HandInv, FlagInv, [Next]_vars
  PROVE  FlagInv'
<1> USE ConstantsAssumption DEF TypeOK, FlagInv, HandInv, vars, bmcVars, romVars, faultVars, loopVars, flagVars, localVars, UserFile, FileType, StorageSteps, Flags
<1>1. CASE Enter
  BY <1>1 DEF Enter
<1>2. CASE EnterSkips
  BY <1>2 DEF EnterSkips, Leave, ClearLocals
<1>3. CASE StartError
  BY <1>3 DEF StartError, EndAttempt
<1>4. CASE StartNotAvailable
  BY <1>4 DEF StartNotAvailable
<1>5. CASE StartAvailable
  BY <1>5 DEF StartAvailable
<1>6. CASE WaitReady
  BY <1>6 DEF WaitReady
<1>7. CASE WaitNotAvailable
  BY <1>7 DEF WaitNotAvailable, EndAttempt
<1>8. CASE WaitBusy
  BY <1>8 DEF WaitBusy, EndAttempt
<1>9. CASE ReadError
  BY <1>9 DEF ReadError, EndAttempt
<1>10. CASE Read
  BY <1>10 DEF Read, EndAttempt
<1>11. CASE ReportNothing
  BY <1>11 DEF ReportNothing, Leave, ClearLocals
<1>12. CASE ReportFailure
  BY <1>12 DEF ReportFailure, Leave, ClearLocals
<1>13. CASE ReportSuccess
  BY <1>13 DEF ReportSuccess
<1>14. CASE ReportSuccessLeaves
  BY <1>14 DEF ReportSuccessLeaves, Leave, ClearLocals
<1>15. CASE Store
  BY <1>15 DEF Store, Leave, ClearLocals
<1>16. CASE StoreError
  BY <1>16 DEF StoreError, Leave, ClearLocals, Fault
<1>17. CASE GetFlags
  BY <1>17 DEF GetFlags
<1>18. CASE GetFlagsError
  BY <1>18 DEF GetFlagsError
<1>19. CASE RestoreSmbios
  BY <1>19 DEF RestoreSmbios, Restore, Fault
<1>20. CASE RestoreOA3
  BY <1>20 DEF RestoreOA3, Restore, Fault
<1>21. CASE RestoreOA2
  BY <1>21 DEF RestoreOA2, Restore, Fault
<1>22. CASE ClearFlags
  BY <1>22 DEF ClearFlags
<1>23. CASE WriteFull
  BY <1>23 DEF WriteFull, Fault
<1>24. CASE Boot
  BY <1>24 DEF Boot
<1>25. CASE FinishPost
  BY <1>25 DEF FinishPost
<1>26. CASE Crash
  BY <1>26 DEF Crash, ClearLocals
<1>27. CASE Reflash
  BY <1>27 DEF Reflash
<1>28. CASE SubmitBackup
  BY <1>28 DEF SubmitBackup
<1>29. ASSUME NEW t \in UserFile, NEW i \in Image, Submit(t, i) PROVE FlagInv'
  BY <1>29 DEF Submit
<1>30. CASE UNCHANGED vars
  BY <1>30
<1>31. CASE EdmiSkips
  BY <1>31 DEF EdmiSkips
<1>32. CASE EdmiEmpty
  BY <1>32 DEF EdmiEmpty, WriteSmbios, Fault
<1>33. CASE EdmiVars
  BY <1>33 DEF EdmiVars, Fault
<1>34. CASE EdmiArray
  BY <1>34 DEF EdmiArray, Fault
<1>35. CASE EdmiClear
  BY <1>35 DEF EdmiClear, WriteSmbios, Fault
<1>36. CASE EdmiSave
  BY <1>36 DEF EdmiSave, WriteSmbios, Fault
<1> QED
  BY <1>1, <1>2, <1>3, <1>4, <1>5, <1>6, <1>7, <1>8, <1>9, <1>10, <1>11, <1>12, <1>13, <1>14, <1>15, <1>16, <1>17, <1>18, <1>19, <1>20, <1>21, <1>22, <1>23, <1>24, <1>25, <1>26, <1>27, <1>28, <1>29, <1>30, <1>31, <1>32, <1>33, <1>34, <1>35, <1>36 DEF Next, Bios, Edmi, Environment

\* Every step keeps what is restored.
LEMMA RestoreStep ==
  ASSUME TypeOK, HandInv, FlagInv, RestoreInv, [Next]_vars
  PROVE  RestoreInv'
<1> USE DEF vars, bmcVars, romVars, faultVars, loopVars, flagVars, localVars
<1>1. CASE Enter
  BY <1>1 DEF Enter, FlagInv, RestoreInv
<1>2. CASE EnterSkips
  BY <1>2 DEF EnterSkips, Leave, ClearLocals, FlagInv, RestoreInv
<1>3. CASE StartError
  BY <1>3 DEF StartError, EndAttempt, FlagInv, RestoreInv
<1>4. CASE StartNotAvailable
  BY <1>4 DEF StartNotAvailable, FlagInv, RestoreInv
<1>5. CASE StartAvailable
  BY <1>5 DEF StartAvailable, FlagInv, RestoreInv
<1>6. CASE WaitReady
  BY <1>6 DEF WaitReady, FlagInv, RestoreInv
<1>7. CASE WaitNotAvailable
  BY <1>7 DEF WaitNotAvailable, EndAttempt, FlagInv, RestoreInv
<1>8. CASE WaitBusy
  BY <1>8 DEF WaitBusy, EndAttempt, FlagInv, RestoreInv
<1>9. CASE ReadError
  BY <1>9 DEF ReadError, EndAttempt, FlagInv, RestoreInv
<1>10. CASE Read
  BY <1>10 DEF Read, EndAttempt, FlagInv, RestoreInv
<1>11. CASE ReportNothing
  BY <1>11 DEF ReportNothing, Leave, ClearLocals, FlagInv, RestoreInv
<1>12. CASE ReportFailure
  BY <1>12 DEF ReportFailure, Leave, ClearLocals, FlagInv, RestoreInv
<1>13. CASE ReportSuccess
  BY <1>13 DEF ReportSuccess, FlagInv, RestoreInv, UserFile
<1>14. CASE ReportSuccessLeaves
  BY <1>14 DEF ReportSuccessLeaves, Leave, ClearLocals, FlagInv, RestoreInv
<1>15. CASE Store
  BY <1>15 DEF Store, Leave, ClearLocals, RestoreInv
<1>16. CASE StoreError
  BY <1>16 DEF StoreError, Leave, ClearLocals, RestoreInv
<1>17. CASE GetFlags
  BY <1>17, RestoredByValues DEF GetFlags, RestoreInv
<1>18. CASE GetFlagsError
  BY <1>18 DEF GetFlagsError, FlagInv, RestoreInv
<1>19. CASE RestoreSmbios
  <2>1. CASE rom' = WriteRegion(rom, "SMBIOS_FOR_BMC", Restored(buf, FlashFlag)["SMBIOS_FOR_BMC"]) /\ UNCHANGED faultVars
    <3>1. /\ rom'["SMBIOS_FOR_BMC"] = Restored(buf, FlashFlag)["SMBIOS_FOR_BMC"]
          /\ \A q \in Region \ {"SMBIOS_FOR_BMC"} : rom'[q] = rom[q]
      BY <2>1, WriteRegionValues DEF Region
    <3>2. pc = "writeSmbios" /\ pc' = "writeOA3" /\ UNCHANGED <<buf, FlashFlag, postFaults>>
      BY <1>19, <2>1 DEF RestoreSmbios, Restore
    <3>3. /\ RestoredBy(pc') = RestoredBy(pc) \cup {"SMBIOS_FOR_BMC"}
          /\ RestoredBy(pc) \subseteq Region \ {"SMBIOS_FOR_BMC"}
      BY <3>2, RestoredByValues DEF Region
    <3> QED
      BY <3>1, <3>2, <3>3 DEF RestoreInv
  <2>2. CASE Fault
    BY <2>2 DEF Fault, RestoreInv, TypeOK
  <2> QED
    BY <1>19, <2>1, <2>2 DEF RestoreSmbios, Restore
<1>20. CASE RestoreOA3
  <2>1. CASE rom' = WriteRegion(rom, "OA3", Restored(buf, FlashFlag)["OA3"]) /\ UNCHANGED faultVars
    <3>1. /\ rom'["OA3"] = Restored(buf, FlashFlag)["OA3"]
          /\ \A q \in Region \ {"OA3"} : rom'[q] = rom[q]
      BY <2>1, WriteRegionValues DEF Region
    <3>2. pc = "writeOA3" /\ pc' = "writeOA2" /\ UNCHANGED <<buf, FlashFlag, postFaults>>
      BY <1>20, <2>1 DEF RestoreOA3, Restore
    <3>3. /\ RestoredBy(pc') = RestoredBy(pc) \cup {"OA3"}
          /\ RestoredBy(pc) \subseteq Region \ {"OA3"}
      BY <3>2, RestoredByValues DEF Region
    <3> QED
      BY <3>1, <3>2, <3>3 DEF RestoreInv
  <2>2. CASE Fault
    BY <2>2 DEF Fault, RestoreInv, TypeOK
  <2> QED
    BY <1>20, <2>1, <2>2 DEF RestoreOA3, Restore
<1>21. CASE RestoreOA2
  <2>1. CASE rom' = WriteRegion(rom, "OA2", Restored(buf, FlashFlag)["OA2"]) /\ UNCHANGED faultVars
    <3>1. /\ rom'["OA2"] = Restored(buf, FlashFlag)["OA2"]
          /\ \A q \in Region \ {"OA2"} : rom'[q] = rom[q]
      BY <2>1, WriteRegionValues DEF Region
    <3>2. pc = "writeOA2" /\ pc' = "clear" /\ UNCHANGED <<buf, FlashFlag, postFaults>>
      BY <1>21, <2>1 DEF RestoreOA2, Restore
    <3>3. /\ RestoredBy(pc') = RestoredBy(pc) \cup {"OA2"}
          /\ RestoredBy(pc) \subseteq Region \ {"OA2"}
      BY <3>2, RestoredByValues DEF Region
    <3> QED
      BY <3>1, <3>2, <3>3 DEF RestoreInv
  <2>2. CASE Fault
    BY <2>2 DEF Fault, RestoreInv, TypeOK
  <2> QED
    BY <1>21, <2>1, <2>2 DEF RestoreOA2, Restore
<1>22. CASE ClearFlags
  <2>1. RestoredBy(pc') = RestoredBy(pc)
    BY <1>22, RestoredByValues DEF ClearFlags
  <2> QED
    BY <1>22, <2>1 DEF ClearFlags, RestoreInv
<1>23. CASE WriteFull
  <2>1. CASE rom' = Restored(buf, FlashFlag) /\ UNCHANGED faultVars
    BY <1>23, <2>1 DEF WriteFull, RestoreInv
  <2>2. CASE Fault
    BY <2>2 DEF Fault, RestoreInv, TypeOK
  <2> QED
    BY <1>23, <2>1, <2>2 DEF WriteFull
<1>24. CASE Boot
  BY <1>24 DEF Boot, FlagInv, RestoreInv
<1>25. CASE FinishPost
  BY <1>25 DEF FinishPost, FlagInv, RestoreInv
<1>26. CASE Crash
  BY <1>26 DEF Crash, ClearLocals, FlagInv, RestoreInv
<1>27. CASE Reflash
  BY <1>27 DEF Reflash, FlagInv, RestoreInv
<1>28. CASE SubmitBackup
  BY <1>28 DEF SubmitBackup, FlagInv, RestoreInv
<1>29. ASSUME NEW t \in UserFile, NEW i \in Image, Submit(t, i) PROVE RestoreInv'
  BY <1>29 DEF Submit, RestoreInv
<1>30. CASE UNCHANGED vars
  BY <1>30 DEF RestoreInv
<1>31. CASE EdmiSkips
  BY <1>31 DEF EdmiSkips, FlagInv, RestoreInv
<1>32. CASE EdmiEmpty
  BY <1>32 DEF EdmiEmpty, WriteSmbios, Fault, FlagInv, RestoreInv
<1>33. CASE EdmiVars
  BY <1>33 DEF EdmiVars, Fault, FlagInv, RestoreInv
<1>34. CASE EdmiArray
  BY <1>34 DEF EdmiArray, Fault, FlagInv, RestoreInv
<1>35. CASE EdmiClear
  BY <1>35 DEF EdmiClear, WriteSmbios, Fault, FlagInv, RestoreInv
<1>36. CASE EdmiSave
  BY <1>36 DEF EdmiSave, WriteSmbios, Fault, FlagInv, RestoreInv
<1> QED
  BY <1>1, <1>2, <1>3, <1>4, <1>5, <1>6, <1>7, <1>8, <1>9, <1>10, <1>11, <1>12, <1>13, <1>14, <1>15, <1>16, <1>17, <1>18, <1>19, <1>20, <1>21, <1>22, <1>23, <1>24, <1>25, <1>26, <1>27, <1>28, <1>29, <1>30, <1>31, <1>32, <1>33, <1>34, <1>35, <1>36 DEF Next, Bios, Edmi, Environment

\* On every platform but Bakerville, every step keeps what this POST stored.
LEMMA FreshStep ==
  ASSUME TypeOK, FlagInv, FreshInv, ~Bakerville, [Next]_vars
  PROVE  FreshInv'
<1> USE DEF vars, bmcVars, romVars, faultVars, loopVars, flagVars, localVars
<1>1. CASE Enter
  BY <1>1 DEF Enter, FreshInv
<1>2. CASE EnterSkips
  BY <1>2 DEF EnterSkips, Leave, ClearLocals, FreshInv
<1>3. CASE StartError
  BY <1>3 DEF StartError, FreshInv
<1>4. CASE StartNotAvailable
  BY <1>4 DEF StartNotAvailable, FreshInv
<1>5. CASE StartAvailable
  BY <1>5 DEF StartAvailable, FreshInv
<1>6. CASE WaitReady
  BY <1>6 DEF WaitReady, FreshInv
<1>7. CASE WaitNotAvailable
  BY <1>7 DEF WaitNotAvailable, FreshInv
<1>8. CASE WaitBusy
  BY <1>8 DEF WaitBusy, FreshInv
<1>9. CASE ReadError
  BY <1>9 DEF ReadError, FreshInv
<1>10. CASE Read
  BY <1>10 DEF Read, FreshInv
<1>11. CASE ReportNothing
  BY <1>11 DEF ReportNothing, Leave, ClearLocals, FreshInv
<1>12. CASE ReportFailure
  BY <1>12 DEF ReportFailure, Leave, ClearLocals, FreshInv
<1>13. CASE ReportSuccess
  BY <1>13 DEF ReportSuccess, FreshInv
<1>14. CASE ReportSuccessLeaves
  BY <1>14 DEF ReportSuccessLeaves, Leave, ClearLocals, FreshInv
<1>15. CASE Store
  <2>1. /\ rom'[Target(ft)] = buf
        /\ \A q \in Region \ {Target(ft)} : rom'[q] = rom[q]
    BY <1>15, WriteRegionValues DEF Store, Target, Region
  <2>2. ft \in UserFile /\ fresh' = [fresh EXCEPT ![ft] = buf] /\ pc # "off" /\ postFaults' = postFaults
    BY <1>15 DEF Store, FlagInv
  <2>3. ASSUME NEW t \in UserFile, t # ft PROVE Target(t) \in Region \ {Target(ft)}
    BY <2>2, <2>3 DEF Target, UserFile, Region
  <2>4. ASSUME NEW t \in UserFile, postFaults = 0, fresh'[t] # NoFile PROVE rom'[Target(t)] = fresh'[t]
    BY <2>1, <2>2, <2>3, <2>4 DEF FreshInv, TypeOK
  <2> QED
    BY <2>2, <2>4 DEF FreshInv
<1>16. CASE StoreError
  BY <1>16 DEF StoreError, Fault, FreshInv, TypeOK
<1>17. CASE GetFlags
  BY <1>17 DEF GetFlags, FreshInv
<1>18. CASE GetFlagsError
  BY <1>18 DEF GetFlagsError, FreshInv
<1>19. CASE RestoreSmbios
  <2>1. CASE rom' = WriteRegion(rom, "SMBIOS_FOR_BMC", Restored(buf, FlashFlag)["SMBIOS_FOR_BMC"]) /\ UNCHANGED faultVars
    <3>1. \A q \in Region \ {"SMBIOS_FOR_BMC"} : rom'[q] = rom[q]
      BY <2>1, WriteRegionValues DEF Region
    <3> QED
      BY <1>19, <2>1, <3>1 DEF RestoreSmbios, Restore, FreshInv, Target, Region
  <2>2. CASE Fault
    BY <2>2 DEF Fault, FreshInv, TypeOK
  <2> QED
    BY <1>19, <2>1, <2>2 DEF RestoreSmbios, Restore
<1>20. CASE RestoreOA3
  <2>1. CASE rom' = WriteRegion(rom, "OA3", Restored(buf, FlashFlag)["OA3"]) /\ UNCHANGED faultVars
    <3>1. \A q \in Region \ {"OA3"} : rom'[q] = rom[q]
      BY <2>1, WriteRegionValues DEF Region
    <3> QED
      BY <1>20, <2>1, <3>1 DEF RestoreOA3, Restore, FreshInv, Target, Region
  <2>2. CASE Fault
    BY <2>2 DEF Fault, FreshInv, TypeOK
  <2> QED
    BY <1>20, <2>1, <2>2 DEF RestoreOA3, Restore
<1>21. CASE RestoreOA2
  <2>1. CASE rom' = WriteRegion(rom, "OA2", Restored(buf, FlashFlag)["OA2"]) /\ UNCHANGED faultVars
    <3>1. \A q \in Region \ {"OA2"} : rom'[q] = rom[q]
      BY <2>1, WriteRegionValues DEF Region
    <3> QED
      BY <1>21, <2>1, <3>1 DEF RestoreOA2, Restore, FreshInv, Target, Region
  <2>2. CASE Fault
    BY <2>2 DEF Fault, FreshInv, TypeOK
  <2> QED
    BY <1>21, <2>1, <2>2 DEF RestoreOA2, Restore
<1>22. CASE ClearFlags
  BY <1>22 DEF ClearFlags, FreshInv
<1>23. CASE WriteFull
  BY <1>23 DEF WriteFull, FlagInv
<1>24. CASE Boot
  BY <1>24 DEF Boot, FreshInv
<1>25. CASE FinishPost
  BY <1>25 DEF FinishPost, FreshInv
<1>26. CASE Crash
  BY <1>26 DEF Crash, ClearLocals, FreshInv
<1>27. CASE Reflash
  BY <1>27 DEF Reflash, FreshInv
<1>28. CASE SubmitBackup
  BY <1>28 DEF SubmitBackup, FreshInv
<1>29. ASSUME NEW t \in UserFile, NEW i \in Image, Submit(t, i) PROVE FreshInv'
  BY <1>29 DEF Submit, FreshInv
<1>30. CASE UNCHANGED vars
  BY <1>30 DEF FreshInv
<1>31. CASE EdmiSkips
  BY <1>31 DEF EdmiSkips, FreshInv
<1>32. CASE EdmiEmpty \/ EdmiClear \/ EdmiSave
  <2>1. PICK c : WriteSmbios(c)
    BY <1>32 DEF EdmiEmpty, EdmiClear, EdmiSave
  <2>2. fresh' = fresh /\ pc # "off"
    BY <1>32 DEF EdmiEmpty, EdmiClear, EdmiSave
  <2>3. ASSUME NEW t \in UserFile PROVE Target(t) \in Region \ {"SMBIOS_FOR_BMC"}
    BY DEF Target, Region
  <2> QED
    BY <2>1, <2>2, <2>3, WriteSmbiosValues DEF FreshInv
<1>33. CASE EdmiVars
  BY <1>33 DEF EdmiVars, Fault, FreshInv, TypeOK
<1>34. CASE EdmiArray
  BY <1>34 DEF EdmiArray, Fault, FreshInv, TypeOK
<1> QED
  BY <1>1, <1>2, <1>3, <1>4, <1>5, <1>6, <1>7, <1>8, <1>9, <1>10, <1>11, <1>12, <1>13, <1>14, <1>15, <1>16, <1>17, <1>18, <1>19, <1>20, <1>21, <1>22, <1>23, <1>24, <1>25, <1>26, <1>27, <1>28, <1>29, <1>30, <1>31, <1>32, <1>33, <1>34 DEF Next, Bios, Edmi, Environment

\* Every step keeps the backup away from a signed region.
LEMMA UnsignedStep ==
  ASSUME TypeOK, HandInv, FlagInv, UnsignedInv, [Next]_vars
  PROVE  UnsignedInv'
<1> USE DEF vars, bmcVars, romVars, faultVars, loopVars, flagVars, localVars, UnsignedInv
<1>1. CASE Enter
  BY <1>1 DEF Enter, NeedsDownload, TypeOK
<1>2. CASE EnterSkips
  BY <1>2 DEF EnterSkips, Leave, ClearLocals, FlagInv
<1>3. CASE StartError
  BY <1>3 DEF StartError, EndAttempt, FlagInv
<1>4. CASE StartNotAvailable
  BY <1>4 DEF StartNotAvailable, FlagInv
<1>5. CASE StartAvailable
  BY <1>5 DEF StartAvailable, FlagInv
<1>6. CASE WaitReady
  BY <1>6 DEF WaitReady, FlagInv
<1>7. CASE WaitNotAvailable
  BY <1>7 DEF WaitNotAvailable, EndAttempt, FlagInv
<1>8. CASE WaitBusy
  BY <1>8 DEF WaitBusy, EndAttempt, FlagInv
<1>9. CASE ReadError
  BY <1>9 DEF ReadError, EndAttempt, FlagInv
<1>10. CASE Read
  BY <1>10 DEF Read, EndAttempt
<1>11. CASE ReportNothing
  BY <1>11 DEF ReportNothing, Leave, ClearLocals, FlagInv
<1>12. CASE ReportFailure
  BY <1>12 DEF ReportFailure, Leave, ClearLocals, FlagInv
<1>13. CASE ReportSuccess
  BY <1>13 DEF ReportSuccess, FlagInv
<1>14. CASE ReportSuccessLeaves
  BY <1>14 DEF ReportSuccessLeaves, Leave, ClearLocals, FlagInv
<1>15. CASE Store
  BY <1>15 DEF Store, Leave
<1>16. CASE StoreError
  BY <1>16 DEF StoreError, Leave
<1>17. CASE GetFlags
  BY <1>17 DEF GetFlags, FlagInv
<1>18. CASE GetFlagsError
  BY <1>18 DEF GetFlagsError, FlagInv
<1>19. CASE RestoreSmbios
  BY <1>19 DEF RestoreSmbios, Restore, FlagInv
<1>20. CASE RestoreOA3
  BY <1>20 DEF RestoreOA3, Restore, FlagInv
<1>21. CASE RestoreOA2
  BY <1>21 DEF RestoreOA2, Restore, FlagInv
<1>22. CASE ClearFlags
  BY <1>22 DEF ClearFlags, FlagInv
<1>23. CASE WriteFull
  BY <1>23 DEF WriteFull
<1>24. CASE Boot
  BY <1>24 DEF Boot, FlagInv
<1>25. CASE FinishPost
  BY <1>25 DEF FinishPost, FlagInv
<1>26. CASE Crash
  BY <1>26 DEF Crash, ClearLocals, FlagInv
<1>27. CASE Reflash
  BY <1>27 DEF Reflash, FlagInv
<1>28. CASE SubmitBackup
  BY <1>28 DEF SubmitBackup, FlagInv
<1>29. ASSUME NEW t \in UserFile, NEW i \in Image, Submit(t, i) PROVE UnsignedInv'
  BY <1>29 DEF Submit
<1>30. CASE UNCHANGED vars
  BY <1>30
<1>31. CASE EdmiSkips
  BY <1>31 DEF EdmiSkips
<1>32. CASE EdmiEmpty
  BY <1>32 DEF EdmiEmpty, WriteSmbios, Fault
<1>33. CASE EdmiVars
  BY <1>33 DEF EdmiVars, Fault
<1>34. CASE EdmiArray
  BY <1>34 DEF EdmiArray, Fault
<1>35. CASE EdmiClear
  BY <1>35 DEF EdmiClear, WriteSmbios, Fault
<1>36. CASE EdmiSave
  BY <1>36 DEF EdmiSave, WriteSmbios, Fault
<1> QED
  BY <1>1, <1>2, <1>3, <1>4, <1>5, <1>6, <1>7, <1>8, <1>9, <1>10, <1>11, <1>12, <1>13, <1>14, <1>15, <1>16, <1>17, <1>18, <1>19, <1>20, <1>21, <1>22, <1>23, <1>24, <1>25, <1>26, <1>27, <1>28, <1>29, <1>30, <1>31, <1>32, <1>33, <1>34, <1>35, <1>36 DEF Next, Bios, Edmi, Environment

\* The restore's invariants hold together from the first state on.
THEOREM RestoreInvariance == Spec => [](FlagInv /\ RestoreInv /\ UnsignedInv)
<1>1. Init => FlagInv /\ RestoreInv /\ UnsignedInv
  BY DEF Init, FlagInv, RestoreInv, UnsignedInv
<1>2. IInv /\ FlagInv /\ RestoreInv /\ UnsignedInv /\ [Next]_vars => (FlagInv /\ RestoreInv /\ UnsignedInv)'
  BY FlagStep, RestoreStep, UnsignedStep DEF IInv
<1> QED
  BY <1>1, <1>2, Invariance, PTL DEF Spec

\* When DownloadBiosStorageFromBmc acknowledges the backup, the three regions
\* hold what the user's preserve flags ask for, unless a flash write failed or
\* the flags could not be read.
THEOREM FlagsAreHonoured == Spec => []PreserveHonoured
<1>1. IInv /\ RestoreInv => PreserveHonoured
  <2> SUFFICES ASSUME IInv, RestoreInv, pc = "report", ft = "STORAGE", DownloadSuccess = 1,
                      postFaults = 0, FlashFlag # "error",
                      NEW r \in {"SMBIOS_FOR_BMC", "OA3", "OA2"}
               PROVE  rom[r] = Restored(bmc["STORAGE"], FlashFlag)[r]
    BY DEF PreserveHonoured
  <2>1. buf = bmc["STORAGE"]
    BY DEF IInv, HandInv
  <2>2. r \in RestoredBy(pc)
    BY RestoredByValues
  <2> QED
    BY <2>1, <2>2 DEF RestoreInv
<1> QED
  BY <1>1, Invariance, RestoreInvariance, PTL

\* On every platform but Bakerville a file that DownloadBiosCfgFromBMC or
\* DownloadSmbiosFileFromBmc stored awaits SmcInBandCallback in its region,
\* whatever the download of the backup and SmcEDMIInit write in between. (On
\* Bakerville the write of FULL_REGION may replace it.)
THEOREM StoredFilesAwait == (~Bakerville) => (Spec => []StoredAwaitsInBand)
<1> SUFFICES ASSUME ~Bakerville PROVE Spec => []StoredAwaitsInBand
  OBVIOUS
<1>1. Init => FreshInv
  BY DEF Init, FreshInv
<1>2. IInv /\ FlagInv /\ FreshInv /\ [Next]_vars => FreshInv'
  BY FreshStep DEF IInv
<1>3. FreshInv => StoredAwaitsInBand
  BY DEF FreshInv, StoredAwaitsInBand
<1> QED
  BY <1>1, <1>2, <1>3, Invariance, RestoreInvariance, PTL DEF Spec

-----------------------------------------------------------------------------
(* The SMBIOS data to preserve.                                            *)

\* Between the writes of SmcEDMIInit NVRAM holds what it has set from the region.
NvramInv ==
  postFaults = 0 /\ smbios = Flagged =>
    /\ pc = "edmiArray" => dmi = "vars"
    /\ pc = "edmiClear" => dmi = "backup"

\* Every step keeps it.
LEMMA NvramStep ==
  ASSUME TypeOK, NvramInv, [Next]_vars
  PROVE  NvramInv'
<1> USE DEF vars, bmcVars, romVars, faultVars
<1>1. CASE EdmiVars
  BY <1>1 DEF EdmiVars, NvramInv, Fault, TypeOK, smbios
<1>2. CASE EdmiArray
  BY <1>2 DEF EdmiArray, NvramInv, Fault, TypeOK, smbios
<1>3. CASE EdmiSkips \/ EdmiEmpty \/ EdmiClear \/ EdmiSave
  BY <1>3 DEF EdmiSkips, EdmiEmpty, EdmiClear, EdmiSave, NvramInv
<1>4. ASSUME UNCHANGED <<pc, rom, dmi, postFaults>> PROVE NvramInv'
  BY <1>4 DEF NvramInv, smbios
<1>5. ASSUME pc' \notin {"edmiArray", "edmiClear"} PROVE NvramInv'
  BY <1>5 DEF NvramInv
<1>6. CASE Bios
  <2>1. EndAttempt => pc' \in {"start", "report"}
    BY DEF EndAttempt
  <2>2. Leave => pc' \in {"finished", "enter"}
    BY DEF Leave
  <2>3. pc' \notin {"edmiArray", "edmiClear"}
    BY <1>6, <2>1, <2>2 DEF Bios, Enter, EnterSkips, StartError, StartNotAvailable, StartAvailable,
       WaitReady, WaitNotAvailable, WaitBusy, ReadError, Read, ReportNothing, ReportFailure,
       ReportSuccess, ReportSuccessLeaves, Store, StoreError, GetFlags, GetFlagsError,
       RestoreSmbios, RestoreOA3, RestoreOA2, Restore, ClearFlags, WriteFull
  <2> QED
    BY <1>5, <2>3
<1>7. CASE Environment
  <2>1. CASE Boot \/ FinishPost \/ Crash \/ Reflash
    BY <1>5, <2>1 DEF Boot, FinishPost, Crash, Reflash
  <2>2. CASE SubmitBackup \/ \E t \in UserFile, i \in Image : Submit(t, i)
    BY <1>4, <2>2 DEF SubmitBackup, Submit
  <2> QED
    BY <1>7, <2>1, <2>2 DEF Environment
<1>8. CASE UNCHANGED vars
  BY <1>4, <1>8
<1> QED
  BY <1>1, <1>2, <1>3, <1>6, <1>7, <1>8 DEF Next, Edmi

PreservedStepOk ==
  smbios = Flagged /\ BackupSigned /\ BackupCount \notin {0, 255}
    /\ pc # "off" /\ postFaults' = 0 /\ smbios' # Flagged => dmi' = "backup"

\* No step of a POST without a failed write takes the flag off the region before the
\* variables are in NVRAM.
LEMMA PreservedStep ==
  ASSUME TypeOK, HandInv, FlagInv, RestoreInv, UnsignedInv, NvramInv, [Next]_vars
  PROVE  PreservedStepOk
<1> USE DEF vars, bmcVars, romVars, faultVars, loopVars, flagVars, localVars, PreservedStepOk, smbios
<1>1. CASE Enter
  BY <1>1 DEF Enter
<1>2. CASE EnterSkips
  BY <1>2 DEF EnterSkips
<1>3. CASE StartError
  BY <1>3 DEF StartError
<1>4. CASE StartNotAvailable
  BY <1>4 DEF StartNotAvailable
<1>5. CASE StartAvailable
  BY <1>5 DEF StartAvailable
<1>6. CASE WaitReady
  BY <1>6 DEF WaitReady
<1>7. CASE WaitNotAvailable
  BY <1>7 DEF WaitNotAvailable
<1>8. CASE WaitBusy
  BY <1>8 DEF WaitBusy
<1>9. CASE ReadError
  BY <1>9 DEF ReadError
<1>10. CASE Read
  BY <1>10 DEF Read
<1>11. CASE ReportNothing
  BY <1>11 DEF ReportNothing
<1>12. CASE ReportFailure
  BY <1>12 DEF ReportFailure
<1>13. CASE ReportSuccess
  BY <1>13 DEF ReportSuccess
<1>14. CASE ReportSuccessLeaves
  BY <1>14 DEF ReportSuccessLeaves
<1>15. CASE Store
  <2>1. Target(ft) # "SMBIOS_FOR_BMC"
    BY DEF Target
  <2> QED
    BY <1>15, <2>1, WriteRegionValues DEF Store, Target, Region
<1>16. CASE StoreError
  BY <1>16 DEF StoreError, Fault, TypeOK
<1>17. CASE GetFlags
  BY <1>17 DEF GetFlags
<1>18. CASE GetFlagsError
  BY <1>18 DEF GetFlagsError
<1>19. CASE RestoreSmbios
  BY <1>19 DEF RestoreSmbios, Restore, Fault, UnsignedInv, HasSmc, TypeOK, HandInv, StorageSteps
<1>20. CASE RestoreOA3
  <2>1. CASE rom' = WriteRegion(rom, "OA3", Restored(buf, FlashFlag)["OA3"]) /\ UNCHANGED faultVars
    BY <2>1, WriteRegionValues DEF Region
  <2>2. CASE Fault
    BY <2>2 DEF Fault, TypeOK
  <2> QED
    BY <1>20, <2>1, <2>2 DEF RestoreOA3, Restore
<1>21. CASE RestoreOA2
  <2>1. CASE rom' = WriteRegion(rom, "OA2", Restored(buf, FlashFlag)["OA2"]) /\ UNCHANGED faultVars
    BY <2>1, WriteRegionValues DEF Region
  <2>2. CASE Fault
    BY <2>2 DEF Fault, TypeOK
  <2> QED
    BY <1>21, <2>1, <2>2 DEF RestoreOA2, Restore
<1>22. CASE ClearFlags
  BY <1>22 DEF ClearFlags
<1>23. CASE WriteFull
  <2>1. CASE rom' = Restored(buf, FlashFlag) /\ UNCHANGED faultVars
    <3>1. pc = "full" /\ ft = "STORAGE"
      BY <1>23 DEF WriteFull, HandInv, StorageSteps
    <3>2. CASE FlashFlag = "error"
      BY <2>1, <3>1, <3>2 DEF UnsignedInv, HasSmc
    <3>3. CASE FlashFlag # "error"
      BY <2>1, <3>1, <3>3, RestoredByValues DEF RestoreInv
    <3> QED
      BY <3>2, <3>3
  <2>2. CASE Fault
    BY <2>2 DEF Fault, TypeOK
  <2> QED
    BY <1>23, <2>1, <2>2 DEF WriteFull
<1>24. CASE Boot
  BY <1>24 DEF Boot
<1>25. CASE FinishPost
  <2>1. PICK S \in SUBSET {"INBAND", "CURRENT_SMBIOS"} :
          rom' = [r \in Region |-> IF r \in S THEN Blank ELSE rom[r]]
    BY <1>25 DEF FinishPost
  <2>2. "SMBIOS_FOR_BMC" \in Region /\ "SMBIOS_FOR_BMC" \notin S
    BY DEF Region
  <2> QED
    BY <2>1, <2>2
<1>26. CASE Crash
  BY <1>26 DEF Crash
<1>27. CASE Reflash
  BY <1>27 DEF Reflash
<1>28. CASE SubmitBackup
  BY <1>28 DEF SubmitBackup
<1>29. ASSUME NEW t \in UserFile, NEW i \in Image, Submit(t, i) PROVE PreservedStepOk
  BY <1>29 DEF Submit
<1>30. CASE UNCHANGED vars
  BY <1>30
<1>31. CASE EdmiSkips
  BY <1>31 DEF EdmiSkips
<1>32. CASE EdmiEmpty
  BY <1>32, DistinctAssumption DEF EdmiEmpty, NoneToRestore
<1>33. CASE EdmiVars
  BY <1>33 DEF EdmiVars
<1>34. CASE EdmiArray
  BY <1>34 DEF EdmiArray
<1>35. CASE EdmiClear
  <2>1. postFaults' = 0 => postFaults = 0
    BY <1>35, WriteSmbiosValues DEF EdmiClear
  <2> QED
    BY <1>35, <2>1 DEF EdmiClear, NvramInv
<1>36. CASE EdmiSave
  BY <1>36, DistinctAssumption DEF EdmiSave, RestoreAsked
<1> QED
  BY <1>1, <1>2, <1>3, <1>4, <1>5, <1>6, <1>7, <1>8, <1>9, <1>10, <1>11, <1>12, <1>13, <1>14, <1>15, <1>16, <1>17, <1>18, <1>19, <1>20, <1>21, <1>22, <1>23, <1>24, <1>25, <1>26, <1>27, <1>28, <1>29, <1>30, <1>31, <1>32, <1>33, <1>34, <1>35, <1>36 DEF Next, Bios, Edmi, Environment

\* SMBIOS data that the user chose to preserve reaches NVRAM: in a POST without a failed
\* write the region keeps its flag until the DmiVars and the DmiArray are set from it,
\* whatever the BMC answers, and wherever earlier POSTs were cut off or had writes fail.
THEOREM PreservedIsRestored == Spec => PreservedReachesNvram
<1>1. Init => NvramInv
  BY DEF Init, NvramInv
<1>2. IInv /\ NvramInv /\ [Next]_vars => NvramInv'
  BY NvramStep DEF IInv
<1>3. IInv /\ FlagInv /\ RestoreInv /\ UnsignedInv /\ NvramInv /\ [Next]_vars => [PreservedStepOk]_vars
  BY PreservedStep DEF IInv
<1> QED
  BY <1>1, <1>2, <1>3, Invariance, RestoreInvariance, PTL DEF Spec, PreservedReachesNvram, PreservedStepOk

-----------------------------------------------------------------------------
(* The loops over files, attempts and polls.                               *)

\* What the POST has left to do: the files, the phases of a file (the attempts are one
\* of them), the attempts, the steps of the attempt at hand and its polls.
FilesLeft ==
  IF pc = "finished" THEN 0 ELSE IF ft = "BIN" THEN 3 ELSE IF ft = "DMI" THEN 2 ELSE 1
PhasesLeft ==
  CASE pc = "enter" -> 9 [] pc \in {"start", "wait", "read"} -> 8
    [] pc = "flags" -> 7 [] pc = "writeSmbios" -> 6 [] pc = "writeOA3" -> 5 [] pc = "writeOA2" -> 4
    [] pc = "clear" -> 3 [] pc = "full" -> 2 [] pc = "report" -> 1 [] OTHER -> 0
AttemptsLeft == MaxRetry - DownloadFailRetry
StepsLeft    == CASE pc = "start" -> 2 [] pc = "wait" -> 1 [] OTHER -> 0
PollsLeft    == MaxWait - WaitBmcLoop

Left == <<FilesLeft, PhasesLeft, AttemptsLeft, StepsLeft, PollsLeft>>

\* The attempts and the polls are two nested loops that the BMC's answers leave in
\* several ways, and only some of these count. Every step of the POST leaves less to do,
\* however the BMC answers: of the numbers that are left, all of them naturals, the first
\* that changes is smaller.
LessLeft ==
  [][Bios => \E i \in 1..5 : /\ Left'[i] < Left[i] /\ \A j \in 1..5 : Left'[j] \in Nat
                             /\ \A j \in 1..(i - 1) : Left'[j] = Left[j]]_vars

\* The first number that changes is smaller.
Less ==
  \/ FilesLeft' < FilesLeft
  \/ /\ FilesLeft' = FilesLeft
     /\ \/ PhasesLeft' < PhasesLeft
        \/ PhasesLeft' = PhasesLeft /\ AttemptsLeft' < AttemptsLeft
        \/ PhasesLeft' = PhasesLeft /\ AttemptsLeft' = AttemptsLeft /\ StepsLeft' < StepsLeft
        \/ PhasesLeft' = PhasesLeft /\ AttemptsLeft' = AttemptsLeft /\ StepsLeft' = StepsLeft
             /\ PollsLeft' < PollsLeft

\* What is left to do is counted by naturals.
LEMMA LeftType ==
  ASSUME TypeOK
  PROVE  /\ FilesLeft \in Nat /\ PhasesLeft \in Nat /\ AttemptsLeft \in Nat
         /\ StepsLeft \in Nat /\ PollsLeft \in Nat
<1> USE DEF TypeOK
<1>1. FilesLeft \in Nat
  BY DEF FilesLeft, FileType, UserFile
<1>2. PhasesLeft \in Nat
  BY DEF PhasesLeft
<1>3. AttemptsLeft \in Nat /\ PollsLeft \in Nat
  BY ConstantsAssumption DEF AttemptsLeft, PollsLeft
<1>4. StepsLeft \in Nat
  BY DEF StepsLeft
<1> QED
  BY <1>1, <1>2, <1>3, <1>4

\* A download function that returns leaves fewer files.
LEMMA LeaveLess ==
  ASSUME TypeOK, pc # "finished", Leave
  PROVE  Less
BY DEF TypeOK, Leave, Less, FilesLeft, FileType, UserFile

\* A step to a later phase of the same file.
LEMMA PhaseLess ==
  ASSUME pc # "finished", pc' # "finished", ft' = ft, PhasesLeft' < PhasesLeft
  PROVE  Less
BY DEF Less, FilesLeft

\* A failed attempt leaves fewer attempts, or it was the last one for the file.
LEMMA AttemptLess ==
  ASSUME TypeOK, pc \in {"start", "wait", "read"}, ft' = ft, EndAttempt
  PROVE  Less
<1>1. CASE DownloadFailRetry + 1 < MaxRetry
  <2>1. pc' = "start" /\ FilesLeft' = FilesLeft /\ PhasesLeft' = PhasesLeft
    BY <1>1 DEF EndAttempt, FilesLeft, PhasesLeft
  <2>2. AttemptsLeft' < AttemptsLeft
    BY <1>1, ConstantsAssumption DEF TypeOK, EndAttempt, AttemptsLeft
  <2> QED
    BY <2>1, <2>2 DEF Less
<1>2. CASE ~(DownloadFailRetry + 1 < MaxRetry)
  <2>1. pc' = "report" /\ PhasesLeft' < PhasesLeft
    BY <1>2 DEF EndAttempt, PhasesLeft
  <2> QED
    BY <2>1, PhaseLess
<1> QED
  BY <1>1, <1>2

\* Every step of the POST leaves less to do.
LEMMA EveryLess ==
  ASSUME TypeOK, Bios
  PROVE  Less
<1> USE DEF localVars, loopVars, flagVars
<1>1. CASE EnterSkips \/ ReportNothing \/ ReportFailure \/ ReportSuccessLeaves \/ Store \/ StoreError
  BY <1>1, LeaveLess DEF EnterSkips, ReportNothing, ReportFailure, ReportSuccessLeaves, Store, StoreError
<1>2. CASE StartError \/ WaitNotAvailable \/ ReadError
  BY <1>2, AttemptLess DEF StartError, WaitNotAvailable, ReadError
<1>3. CASE Enter \/ StartNotAvailable \/ ReportSuccess
  <2>1. pc # "finished" /\ pc' # "finished" /\ ft' = ft /\ PhasesLeft' < PhasesLeft
    BY <1>3 DEF Enter, StartNotAvailable, ReportSuccess, PhasesLeft
  <2> QED
    BY <2>1, PhaseLess
<1>4. CASE GetFlags \/ GetFlagsError \/ ClearFlags \/ WriteFull
  <2>1. pc # "finished" /\ pc' # "finished" /\ ft' = ft /\ PhasesLeft' < PhasesLeft
    BY <1>4 DEF GetFlags, GetFlagsError, ClearFlags, WriteFull, PhasesLeft
  <2> QED
    BY <2>1, PhaseLess
<1>5. CASE RestoreSmbios \/ RestoreOA3 \/ RestoreOA2
  <2>1. pc # "finished" /\ pc' # "finished" /\ ft' = ft /\ PhasesLeft' < PhasesLeft
    BY <1>5 DEF RestoreSmbios, RestoreOA3, RestoreOA2, Restore, PhasesLeft
  <2> QED
    BY <2>1, PhaseLess
<1>6. CASE StartAvailable \/ WaitReady
  <2>1. FilesLeft' = FilesLeft /\ PhasesLeft' = PhasesLeft /\ StepsLeft' < StepsLeft
    BY <1>6 DEF StartAvailable, WaitReady, FilesLeft, PhasesLeft, StepsLeft
  <2>2. AttemptsLeft' = AttemptsLeft
    BY <1>6 DEF StartAvailable, WaitReady, AttemptsLeft
  <2> QED
    BY <2>1, <2>2 DEF Less
<1>7. CASE WaitBusy
  <2>1. CASE WaitBmcLoop + 1 < MaxWait
    <3>1. UNCHANGED <<pc, ft, DownloadFailRetry>> /\ WaitBmcLoop' = WaitBmcLoop + 1
      BY <1>7, <2>1 DEF WaitBusy
    <3>2. FilesLeft' = FilesLeft /\ PhasesLeft' = PhasesLeft /\ StepsLeft' = StepsLeft
      BY <3>1 DEF FilesLeft, PhasesLeft, StepsLeft
    <3>3. AttemptsLeft' = AttemptsLeft
      BY <3>1 DEF AttemptsLeft
    <3>4. PollsLeft' < PollsLeft
      BY <3>1, ConstantsAssumption DEF TypeOK, PollsLeft
    <3> QED
      BY <3>2, <3>3, <3>4 DEF Less
  <2>2. CASE ~(WaitBmcLoop + 1 < MaxWait)
    BY <1>7, <2>2, AttemptLess DEF WaitBusy
  <2> QED
    BY <2>1, <2>2
<1>8. CASE Read
  <2>1. CASE ChecksumOk(buf')
    <3>1. pc # "finished" /\ pc' # "finished" /\ ft' = ft /\ PhasesLeft' < PhasesLeft
      BY <1>8, <2>1 DEF Read, PhasesLeft
    <3> QED
      BY <3>1, PhaseLess
  <2>2. CASE ~ChecksumOk(buf')
    BY <1>8, <2>2, AttemptLess DEF Read
  <2> QED
    BY <2>1, <2>2
<1> QED
  BY <1>1, <1>2, <1>3, <1>4, <1>5, <1>6, <1>7, <1>8 DEF Bios

\* Every step of the POST leaves less to do, however the BMC answers, for any number of
\* attempts and polls, on both kinds of platform and with failing flash writes: the
\* download loops cannot run forever.
THEOREM LoopsEnd == Spec => LessLeft
<1> DEFINE Lower == \E i \in 1..5 : /\ Left'[i] < Left[i] /\ \A j \in 1..5 : Left'[j] \in Nat
                                    /\ \A j \in 1..(i - 1) : Left'[j] = Left[j]
           Numbers == /\ FilesLeft \in Nat /\ PhasesLeft \in Nat /\ AttemptsLeft \in Nat
                      /\ StepsLeft \in Nat /\ PollsLeft \in Nat
<1>1. TypeOK => Numbers
  BY LeftType
<1>2. TypeOK' => Numbers'
  BY <1>1, PTL
<1>3. TypeOK /\ TypeOK' /\ [Next]_vars => [Bios => Lower]_vars
  <2> SUFFICES ASSUME TypeOK, TypeOK', Bios PROVE Lower
    OBVIOUS
  <2>1. Less
    BY EveryLess
  <2>2. /\ Left[1] = FilesLeft /\ Left[2] = PhasesLeft /\ Left[3] = AttemptsLeft
        /\ Left[4] = StepsLeft /\ Left[5] = PollsLeft
    BY DEF Left
  <2>3. /\ Left'[1] = FilesLeft' /\ Left'[2] = PhasesLeft' /\ Left'[3] = AttemptsLeft'
        /\ Left'[4] = StepsLeft' /\ Left'[5] = PollsLeft'
    BY DEF Left
  <2>4. \A j \in 1..5 : Left'[j] \in Nat
    BY <1>2, <2>3
  <2>5. \E i \in 1..5 : Left'[i] < Left[i] /\ \A j \in 1..(i - 1) : Left'[j] = Left[j]
    BY <2>1, <2>2, <2>3 DEF Less
  <2> QED
    BY <2>4, <2>5
<1> QED
  BY <1>3, TypeCorrect, PTL DEF Spec, LessLeft
=============================================================================
