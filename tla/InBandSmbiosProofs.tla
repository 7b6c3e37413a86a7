------------------------- MODULE InBandSmbiosProofs -------------------------
(***************************************************************************)
(* Proofs about InBandSmbios for any list of fields, any values and any    *)
(* number of files and failed writes: type correctness, the agreement of   *)
(* DmiArray with the DmiVar variables, and that the last file takes effect *)
(* - the last two as long as the power losses, each of which may leave one *)
(* record too many behind, do not fill the 8-bit list; and that a loop of  *)
(* resets needs a failure or a new file for each round, and no POST hangs. *)
(***************************************************************************)
EXTENDS InBandSmbios, FiniteSetTheorems, SequenceTheorems, WellFoundedInduction, TLAPS

\* The fields whose variable is set.
SetFields == {f \in Field : DmiVar[f] # None}

\* The step between the two NVRAM writes of a field.
Pending == pc = "unlist" \/ (pc = "set" /\ DmiVar[cur] = None)

\* Every variable has its record, and there are few other records.
ListInv ==
  nvFaults = 0 =>
    /\ \A f \in SetFields : Listed(f)
    /\ pc = "unlist" => Listed(cur) /\ DmiVar[cur] = None
    /\ pc = "set" => Listed(cur)
    /\ pc # "hung"
    /\ Len(DmiArray) <= Cardinality(SetFields) + crashes + IF Pending THEN 1 ELSE 0

\* A string is never set to the value 0xFE.
VarInv ==
  /\ \A f \in StringField : DmiVar[f] # LoadDefault
  /\ pc = "set" => ~LoadsDefault(cur, new)

\* The file at hand.
FileInv ==
  /\ pc \in {"field", "unlist", "set", "clear"} => current.origin = "user"
  /\ pc \in {"combine", "combineCurrent"} => current.origin # "user"
  /\ pc \in {"download", "update", "combine"} => table = Effective
  /\ current.origin = "user" => goal = current.data

\* What the NVRAM asks for.
Asked(f) == IF DmiVar[f] # None THEN DmiVar[f] ELSE Factory[f]

Tracked == nvFaults = 0 /\ stale = 0 /\ goal # None

\* A field is as it was when the file arrived, or as the file asks; those that
\* the loop has passed are as the file asks, and all are once Source is cleared.
GoalInv ==
  Tracked =>
    /\ \A f \in Field : current.origin = "user" =>
         /\ Asked(f) = previous[f] \/ Asked(f) = Wanted(goal)[f]
         /\ f \in StringField => previous[f] # LoadDefault
    /\ \A i \in 1..Len(Fields) : pc \in {"field", "unlist", "set"} /\ i < k =>
         Asked(Fields[i]) = Wanted(goal)[Fields[i]]
    /\ pc = "unlist" => Asked(cur) = Wanted(goal)[cur]
    /\ current.origin # "user" \/ pc = "clear" =>
         \A f \in Field : Asked(f) = Wanted(goal)[f]

IInv == TypeOK /\ ListInv /\ VarInv /\ FileInv /\ GoalInv

-----------------------------------------------------------------------------
(* Facts about finite sets and lists.                                     *)

\* The fields are finitely many, no more than the file has places for.
LEMMA FieldFinite ==
  IsFiniteSet(Field) /\ Cardinality(Field) <= Len(Fields)
<1> DEFINE n == Len(Fields)
<1>1. n \in Nat /\ Fields \in [1..n -> Field]
  BY SmbiosAssumption
<1>2. Fields \in Surjection(1..n, Field)
  BY <1>1 DEF Field, Surjection
<1>3. IsFiniteSet(1..n) /\ Cardinality(1..n) = n
  BY <1>1, FS_Interval
<1> QED
  BY <1>2, <1>3, FS_Surjection

\* So are those whose variable is set; a field without one is not among them.
LEMMA SetFieldsFinite ==
  /\ IsFiniteSet(SetFields) /\ Cardinality(SetFields) \in Nat
  /\ Cardinality(SetFields) <= Len(Fields)
  /\ \A f \in Field : DmiVar[f] = None => Cardinality(SetFields) < Len(Fields)
<1>1. IsFiniteSet(Field) /\ Cardinality(Field) <= Len(Fields) /\ SetFields \in SUBSET Field
  BY FieldFinite DEF SetFields
<1>2. IsFiniteSet(SetFields) /\ Cardinality(SetFields) <= Cardinality(Field)
  BY <1>1, FS_Subset
<1>3. Cardinality(SetFields) \in Nat /\ Cardinality(Field) \in Nat /\ Len(Fields) \in Nat
  BY <1>1, <1>2, FS_CardinalityType, SmbiosAssumption
<1>4. ASSUME NEW f \in Field, DmiVar[f] = None PROVE Cardinality(SetFields) < Len(Fields)
  <2>1. SetFields # Field
    BY <1>4 DEF SetFields
  <2>2. Cardinality(SetFields) # Cardinality(Field)
    BY <1>1, <2>1, FS_Subset
  <2> QED
    BY <1>1, <1>2, <1>3, <2>2
<1> QED
  BY <1>1, <1>2, <1>3, <1>4

\* A non-empty set of numbers has its minimum.
LEMMA MinIn ==
  ASSUME NEW I \in SUBSET Nat, I # {}
  PROVE  Min(I) \in I
<1>1. PICK x \in I : \A y \in I : ~(<<y, x>> \in OpToRel(<, Nat))
  BY NatLessThanWellFounded, WFMin
<1>2. ASSUME NEW y \in I PROVE x <= y
  <2>1. <<y, x>> \notin {ss \in Nat \X Nat : ss[1] < ss[2]}
    BY <1>1, Zenon DEF OpToRel
  <2> QED
    BY <2>1
<1> QED
  BY <1>2 DEF Min

\* RemoveAt takes one element out and keeps the others.
LEMMA RemoveAtKeeps ==
  ASSUME NEW S, NEW s \in Seq(S), NEW j \in 1..Len(s)
  PROVE  /\ RemoveAt(s, j) \in Seq(S)
         /\ Len(RemoveAt(s, j)) = Len(s) - 1
         /\ \A i \in 1..Len(s) : i # j => \E m \in 1..Len(RemoveAt(s, j)) : RemoveAt(s, j)[m] = s[i]
<1> DEFINE a == SubSeq(s, 1, j - 1)
           b == SubSeq(s, j + 1, Len(s))
           c == a \o b
<1>1. a \in Seq(S) /\ Len(a) = j - 1 /\ \A i \in 1..(j - 1) : a[i] = s[i]
  <2>1. \A i \in 1..(j - 1) : s[i] \in S
    OBVIOUS
  <2>2. 1 \in Int /\ j - 1 \in Int
    OBVIOUS
  <2> QED
    BY <2>1, <2>2, SubSeqProperties
<1>2. b \in Seq(S) /\ Len(b) = Len(s) - j /\ \A i \in 1..(Len(s) - j) : b[i] = s[j + i]
  <2>1. \A i \in (j + 1)..Len(s) : s[i] \in S
    OBVIOUS
  <2>2. j + 1 \in Int /\ Len(s) \in Int
    OBVIOUS
  <2> QED
    BY <2>1, <2>2, SubSeqProperties
<1> HIDE DEF a, b
<1>3. /\ c \in Seq(S) /\ Len(c) = Len(a) + Len(b)
      /\ \A i \in 1..(Len(a) + Len(b)) : c[i] = IF i <= Len(a) THEN a[i] ELSE b[i - Len(a)]
  BY <1>1, <1>2, ConcatProperties
<1>4. RemoveAt(s, j) = c
  BY DEF RemoveAt, a, b
<1> HIDE DEF c
<1>5. ASSUME NEW i \in 1..Len(s), i # j PROVE \E m \in 1..Len(c) : c[m] = s[i]
  <2>1. CASE i < j
    BY <1>1, <1>2, <1>3, <2>1
  <2>2. CASE i > j
    <3>1. i - 1 \in 1..Len(c) /\ i - 1 > Len(a) /\ i - j \in 1..(Len(s) - j)
      BY <1>1, <1>2, <1>3, <2>2
    <3>2. c[i - 1] = b[i - j]
      BY <1>1, <1>2, <1>3, <3>1
    <3>3. b[i - j] = s[i]
      BY <1>2, <3>1
    <3> QED
      BY <3>1, <3>2, <3>3
  <2> QED
    BY <1>5, <2>1, <2>2
<1>6. Len(c) = Len(s) - 1
  BY <1>1, <1>2, <1>3
<1> QED
  BY <1>3, <1>4, <1>5, <1>6

\* Taking out the record of a listed field keeps the other fields listed.
LEMMA RemovedListed ==
  ASSUME DmiArray \in Seq(Field \cup {None}), NEW f, Listed(f)
  PROVE  /\ Removed(f) \in Seq(Field \cup {None})
         /\ Len(Removed(f)) = Len(DmiArray) - 1
         /\ \A g : g # f /\ Listed(g) => \E i \in 1..Len(Removed(f)) : Removed(f)[i] = g
<1> DEFINE I == {i \in 1..Len(DmiArray) : DmiArray[i] = f}
<1>1. I # {} /\ I \in SUBSET Nat
  BY DEF Listed
<1>2. Min(I) \in I
  BY <1>1, MinIn
<1>3. Removed(f) = RemoveAt(DmiArray, Min(I))
  BY <1>1 DEF Removed, SelectInSeq
<1> DEFINE j == Min(I)
<1>4. j \in 1..Len(DmiArray) /\ DmiArray[j] = f
  BY <1>2
<1> HIDE DEF j
<1>5. Removed(f) = RemoveAt(DmiArray, j)
  BY <1>3 DEF j
<1>6. /\ RemoveAt(DmiArray, j) \in Seq(Field \cup {None})
      /\ Len(RemoveAt(DmiArray, j)) = Len(DmiArray) - 1
      /\ \A i \in 1..Len(DmiArray) : i # j => \E m \in 1..Len(RemoveAt(DmiArray, j)) : RemoveAt(DmiArray, j)[m] = DmiArray[i]
  BY <1>4, RemoveAtKeeps
<1> QED
  BY <1>4, <1>5, <1>6 DEF Listed

\* The second pass at the largest count leaves a list as well.
LEMMA OverrunType ==
  ASSUME NEW s \in Seq(Field \cup {None}), Len(s) = MaxRecords - 1
  PROVE  Overrun(s) \in Seq(Field \cup {None}) /\ Len(Overrun(s)) <= MaxRecords
<1> DEFINE c == IF s = <<>> \/ Head(s) = None THEN 0 ELSE Type[Head(s)]
<1>1. c \in 0..(MaxRecords - 1)
  <2>1. CASE s = <<>> \/ Head(s) = None
    BY <2>1, SmbiosBoundsAssumption
  <2>2. CASE ~(s = <<>> \/ Head(s) = None)
    <3>1. Head(s) \in Field
      BY <2>2
    <3> QED
      BY <2>2, <3>1, SmbiosAssumption
  <2> QED
    BY <2>1, <2>2
<1> HIDE DEF c
<1>2. Overrun(s) = IF c = 0 THEN Append(s, None) ELSE SubSeq(s, 2, c)
  BY DEF Overrun, c
<1>3. CASE c = 0
  BY <1>2, <1>3, SmbiosBoundsAssumption
<1>4. CASE c # 0
  <2>1. \A i \in 2..c : s[i] \in Field \cup {None}
    BY <1>1, SmbiosBoundsAssumption
  <2>2. 2 \in Int /\ c \in Int
    BY <1>1
  <2>3. /\ SubSeq(s, 2, c) \in Seq(Field \cup {None})
        /\ Len(SubSeq(s, 2, c)) = IF 2 <= c THEN c - 2 + 1 ELSE 0
    BY <2>1, <2>2, SubSeqProperties
  <2> QED
    BY <1>1, <1>2, <1>4, <2>3, SmbiosBoundsAssumption
<1> QED
  BY <1>3, <1>4

\* Whatever Unlist leaves is a list of records that the count can count.
LEMMA WithoutType ==
  ASSUME DmiArray \in Seq(Field \cup {None}), Len(DmiArray) <= MaxRecords, NEW f,
         NEW d \in Without(f)
  PROVE  d \in Seq(Field \cup {None}) /\ Len(d) <= MaxRecords
<1>1. CASE Listed(f)
  <2>1. Removed(f) \in Seq(Field \cup {None}) /\ Len(Removed(f)) = Len(DmiArray) - 1
    BY <1>1, RemovedListed
  <2>2. CASE Full
    <3>1. d = Overrun(Removed(f)) /\ Len(Removed(f)) = MaxRecords - 1
      BY <1>1, <2>1, <2>2 DEF Without, Full
    <3> QED
      BY <2>1, <3>1, OverrunType
  <2>3. CASE ~Full
    <3>1. d = Removed(f)
      BY <1>1, <2>3 DEF Without
    <3> QED
      BY <2>1, <3>1, SmbiosBoundsAssumption
  <2> QED
    BY <2>2, <2>3
<1>2. CASE ~Listed(f) /\ DmiArray # <<>>
  <2>1. d = SubSeq(DmiArray, 1, Len(DmiArray) - 1)
    BY <1>2 DEF Without, Front
  <2>2. \A i \in 1..(Len(DmiArray) - 1) : DmiArray[i] \in Field \cup {None}
    OBVIOUS
  <2>3. 1 \in Int /\ Len(DmiArray) - 1 \in Int
    OBVIOUS
  <2>4. /\ d \in Seq(Field \cup {None})
        /\ Len(d) = IF 1 <= Len(DmiArray) - 1 THEN Len(DmiArray) - 1 - 1 + 1 ELSE 0
    BY <2>1, <2>2, <2>3, SubSeqProperties
  <2> QED
    BY <2>4, SmbiosBoundsAssumption
<1>3. CASE ~Listed(f) /\ DmiArray = <<>>
  <2>1. d \in [1..MaxRecords -> Field \cup {None}]
    BY <1>3 DEF Without
  <2> QED
    BY <2>1, SmbiosBoundsAssumption
<1> QED
  BY <1>1, <1>2, <1>3

\* So is what AddRecord writes.
LEMMA WithType ==
  ASSUME DmiArray \in Seq(Field \cup {None}), Len(DmiArray) <= MaxRecords, NEW f \in Field
  PROVE  With(f) \in Seq(Field \cup {None}) /\ Len(With(f)) <= MaxRecords
<1>1. CASE ~Full
  BY <1>1, SmbiosBoundsAssumption DEF With, Full
<1>2. CASE Full
  <2>1. PICK c \in 1..MaxRecords : With(f) = SubSeq(DmiArray, 1, c)
    BY <1>2, SmbiosAssumption, SmbiosBoundsAssumption DEF With
  <2>2. Len(DmiArray) = MaxRecords
    BY <1>2 DEF Full
  <2>3. \A i \in 1..c : DmiArray[i] \in Field \cup {None}
    BY <2>2
  <2>4. 1 \in Int /\ c \in Int
    OBVIOUS
  <2> QED
    BY <2>1, <2>3, <2>4, SubSeqProperties
<1> QED
  BY <1>1, <1>2

-----------------------------------------------------------------------------
(* Types.                                                                  *)

CurrentType == [origin : Origin, data : [Field -> Value]]
PreviousType == [Field -> Value \cup {Damaged}]

\* The field at hand and its value in the file.
LEMMA CurType ==
  ASSUME TypeOK
  PROVE  cur \in Field /\ new \in Value /\ k \in 1..Len(Fields) /\ Len(Fields) \in Nat
<1>1. k \in 1..Len(Fields) /\ Len(Fields) \in Nat
  BY SmbiosAssumption DEF TypeOK
<1>2. cur \in Field
  BY <1>1 DEF cur, Field
<1> QED
  BY <1>1, <1>2 DEF TypeOK, new

\* The two regions keep their types, whether the write fails or not.
LEMMA WriteRomType ==
  ASSUME TypeOK, NEW c \in CurrentType, NEW p \in PreviousType, WriteRom(c, p)
  PROVE  current' \in CurrentType /\ previous' \in PreviousType /\ romFaults' \in 0..MaxFault
<1>1. NoCurrent \in CurrentType /\ NoPrevious \in PreviousType
  BY SmbiosAssumption DEF NoCurrent, NoPrevious, CurrentType, PreviousType, Origin, Value
<1> QED
  BY <1>1, SmbiosBoundsAssumption DEF WriteRom, RomFault, TypeOK, CurrentType, PreviousType

\* The loop stays inside the list of fields.
LEMMA NextFieldType ==
  ASSUME TypeOK, NextField
  PROVE  k' \in 1..Len(Fields) /\ pc' \in {"field", "clear"}
BY CurType DEF NextField

\* The table of the next boot has a value in every field.
LEMMA EffectiveType ==
  ASSUME TypeOK
  PROVE  Effective \in [Field -> Value]
BY SmbiosAssumption DEF TypeOK, Effective, Value

\* An arrival keeps the types.
LEMMA ArriveType ==
  ASSUME TypeOK, NEW c \in CurrentType, Arrive(c), pc' \in Step
  PROVE  TypeOK'
<1>1. current' \in CurrentType /\ previous' \in PreviousType /\ romFaults' \in 0..MaxFault
  BY WriteRomType DEF Arrive, TypeOK, PreviousType
<1>2. goal' \in [Field -> Value] \cup {None} /\ files' \in 0..MaxFiles /\ stale' \in {0, 1}
  BY <1>1, SmbiosBoundsAssumption DEF Arrive, CurrentType, TypeOK
<1> QED
  BY <1>1, <1>2 DEF Arrive, TypeOK, nvVars, CurrentType, PreviousType

\* Every step keeps the types.
LEMMA TypeStep ==
  ASSUME TypeOK, [Next]_vars
  PROVE  TypeOK'
<1> USE DEF vars, nvVars, romVars, fileVars, faultVars, Step
<1>k. 1 \in 1..Len(Fields)
  BY CurType
<1>c. cur \in Field /\ new \in Value
  BY CurType
<1>1. CASE Boot
  BY <1>1, EffectiveType DEF Boot, TypeOK
<1>2. CASE NoDownload
  BY <1>2 DEF NoDownload, TypeOK
<1>3. CASE NoUpdate
  BY <1>3 DEF NoUpdate, TypeOK
<1>4. CASE StartUpdate
  BY <1>4, <1>k DEF StartUpdate, TypeOK
<1>5. CASE SkipSame
  BY <1>5, NextFieldType DEF SkipSame, TypeOK
<1>6. CASE DefaultAbsent
  BY <1>6, NextFieldType DEF DefaultAbsent, TypeOK
<1>7. CASE DeleteVar
  BY <1>7, <1>c, SmbiosBoundsAssumption DEF DeleteVar, NvFault, TypeOK
<1>8. CASE Unlist
  <2>1. /\ DmiArray' \in Seq(Field \cup {None}) /\ Len(DmiArray') <= MaxRecords
        /\ nvFaults' \in 0..MaxFault
    BY <1>8, WithoutType, SmbiosBoundsAssumption DEF Unlist, NvFault, TypeOK
  <2> QED
    BY <1>8, <2>1, NextFieldType DEF Unlist, TypeOK
<1>9. CASE AddRecord
  <2>1. DmiArray' \in Seq(Field \cup {None}) /\ Len(DmiArray') <= MaxRecords
    BY <1>9, <1>c, WithType DEF AddRecord, TypeOK
  <2> QED
    BY <1>9, <2>1 DEF AddRecord, TypeOK
<1>10. CASE AddRecordFails
  BY <1>10, NextFieldType, SmbiosBoundsAssumption DEF AddRecordFails, NvFault, TypeOK
<1>11. CASE HasRecord
  BY <1>11 DEF HasRecord, TypeOK
<1>12. CASE SetVar
  <2>1. DmiVar' \in [Field -> Value \cup {None}] /\ nvFaults' \in 0..MaxFault
    BY <1>12, <1>c, SmbiosBoundsAssumption DEF SetVar, NvFault, TypeOK
  <2> QED
    BY <1>12, <2>1, NextFieldType DEF SetVar, TypeOK
<1>13. CASE ClearSource
  <2>1. [current EXCEPT !.origin = "bios"] \in CurrentType /\ previous \in PreviousType
    BY DEF TypeOK, CurrentType, PreviousType, Origin
  <2>2. current' \in CurrentType /\ previous' \in PreviousType /\ romFaults' \in 0..MaxFault
    BY <1>13, <2>1, WriteRomType DEF ClearSource
  <2> QED
    BY <1>13, <2>2 DEF ClearSource, TypeOK, CurrentType, PreviousType
<1>14. CASE CombinePrevious
  <2>1. current \in CurrentType /\ table \in PreviousType
    BY DEF TypeOK, CurrentType, PreviousType, Origin
  <2>2. current' \in CurrentType /\ previous' \in PreviousType /\ romFaults' \in 0..MaxFault
    BY <1>14, <2>1, WriteRomType DEF CombinePrevious
  <2> QED
    BY <1>14, <2>2 DEF CombinePrevious, TypeOK, CurrentType, PreviousType
<1>15. CASE CombineCurrent
  <2>1. [origin |-> "bios", data |-> table] \in CurrentType /\ previous \in PreviousType
    BY DEF TypeOK, CurrentType, PreviousType, Origin
  <2>2. current' \in CurrentType /\ previous' \in PreviousType /\ romFaults' \in 0..MaxFault
    BY <1>15, <2>1, WriteRomType DEF CombineCurrent
  <2> QED
    BY <1>15, <2>2 DEF CombineCurrent, TypeOK, CurrentType, PreviousType
<1>16. CASE CombineReturns
  BY <1>16 DEF CombineReturns, TypeOK
<1>17. CASE Shutdown
  BY <1>17 DEF Shutdown, TypeOK
<1>18. CASE PowerLoss
  BY <1>18, <1>k, SmbiosBoundsAssumption DEF PowerLoss, TypeOK
<1>19. ASSUME NEW d \in [Field -> Value], Download(d) PROVE TypeOK'
  <2>1. [origin |-> "user", data |-> d] \in CurrentType
    BY DEF CurrentType, Origin
  <2> QED
    BY <1>19, <2>1, ArriveType DEF Download
<1>20. ASSUME NEW d \in [Field -> Value], NEW o \in {"user", "damaged"},
             DownloadDataFromRAM([origin |-> o, data |-> d]) PROVE TypeOK'
  <2>1. [origin |-> o, data |-> d] \in CurrentType
    BY DEF CurrentType, Origin
  <2> QED
    BY <1>20, <2>1, ArriveType DEF DownloadDataFromRAM, TypeOK
<1>21. CASE UNCHANGED vars
  BY <1>21 DEF TypeOK
<1>22. CASE UnlistHangs
  BY <1>22 DEF UnlistHangs, TypeOK
<1>23. CASE Spin
  BY <1>21, <1>23 DEF Spin
<1> QED
  BY <1>1, <1>2, <1>3, <1>4, <1>5, <1>6, <1>7, <1>8, <1>9, <1>10, <1>11, <1>12, <1>13, <1>14, <1>15, <1>16, <1>17, <1>18, <1>19, <1>20, <1>21, <1>22, <1>23 DEF Next, Bios, Environment

-----------------------------------------------------------------------------
(* The list and the variables.                                             *)

\* A step outside the two NVRAM writes of a field keeps the agreement.
LEMMA ListKept ==
  ASSUME TypeOK, TypeOK', ListInv, UNCHANGED nvVars, nvFaults' = nvFaults,
         pc' \notin {"unlist", "set", "hung"},
         (crashes' = crashes /\ ~Pending) \/ crashes' = crashes + 1
  PROVE  ListInv'
<1>1. SetFields' = SetFields /\ DmiArray' = DmiArray /\ \A f : Listed(f)' = Listed(f)
  BY DEF nvVars, SetFields, Listed
<1>2. Cardinality(SetFields) \in Nat /\ crashes \in Nat /\ Len(DmiArray) \in Nat
  BY SetFieldsFinite DEF TypeOK
<1>3. ~Pending'
  BY DEF Pending
<1>4. CASE nvFaults # 0
  BY <1>4 DEF ListInv
<1>5. CASE nvFaults = 0
  <2>1. Len(DmiArray') <= Cardinality(SetFields') + crashes' + 0
    BY <1>1, <1>2, <1>5 DEF ListInv
  <2> QED
    BY <1>1, <1>3, <1>5, <2>1 DEF ListInv
<1> QED
  BY <1>4, <1>5

\* Every step keeps the list and the variables in agreement.
LEMMA ListStep ==
  ASSUME RecordsSuffice, TypeOK, TypeOK', ListInv, [Next]_vars
  PROVE  ListInv'
<1> USE DEF vars, nvVars, romVars, fileVars, faultVars
<1>c. cur \in Field /\ new \in Value /\ new # None /\ Len(Fields) \in Nat
  BY CurType, SmbiosAssumption
<1>s. /\ IsFiniteSet(SetFields) /\ Cardinality(SetFields) \in Nat
      /\ crashes \in Nat /\ Len(DmiArray) \in Nat
  BY SetFieldsFinite DEF TypeOK
<1>f. ASSUME nvFaults' # 0 PROVE ListInv'
  BY <1>f DEF ListInv
<1>g. ASSUME NvFault PROVE nvFaults' # 0
  BY <1>g DEF NvFault, TypeOK
<1>1. CASE Boot
  BY <1>1, ListKept DEF Boot, Pending
<1>2. CASE NoDownload
  BY <1>2, ListKept DEF NoDownload, Pending
<1>3. CASE NoUpdate
  BY <1>3, ListKept DEF NoUpdate, Pending
<1>4. CASE StartUpdate
  BY <1>4, ListKept DEF StartUpdate, Pending
<1>5. CASE SkipSame
  BY <1>5, NextFieldType, ListKept DEF SkipSame, Pending
<1>6. CASE DefaultAbsent
  BY <1>6, NextFieldType, ListKept DEF DefaultAbsent, Pending
<1>7. CASE DeleteVar
  <2>1. CASE NvFault
    BY <2>1, <1>f, <1>g
  <2>2. CASE DmiVar' = [DmiVar EXCEPT ![cur] = None] /\ UNCHANGED nvFaults /\ nvFaults = 0
    <3>1. /\ DmiArray' = DmiArray /\ pc' = "unlist" /\ k' = k /\ crashes' = crashes
          /\ cur' = cur /\ \A f : Listed(f)' = Listed(f)
      BY <1>7 DEF DeleteVar, cur, Listed
    <3>2. SetFields' = SetFields \ {cur} /\ cur \in SetFields /\ DmiVar'[cur] = None
      BY <1>7, <1>c, <2>2 DEF DeleteVar, SetFields, TypeOK
    <3>3. Cardinality(SetFields') = Cardinality(SetFields) - 1
      BY <1>s, <3>2, FS_RemoveElement
    <3>4. Pending' /\ ~Pending
      BY <1>7, <3>1 DEF DeleteVar, Pending
    <3>5. Len(DmiArray) <= Cardinality(SetFields) + crashes + 0
      BY <2>2, <3>4 DEF ListInv
    <3>6. Len(DmiArray') <= Cardinality(SetFields') + crashes' + 1
      BY <1>s, <3>1, <3>3, <3>5
    <3>7. (\A f \in SetFields : Listed(f)) /\ Listed(cur)
      BY <2>2, <3>2 DEF ListInv
    <3> QED
      BY <3>1, <3>2, <3>4, <3>6, <3>7 DEF ListInv
  <2> QED
    BY <1>7, <1>f, <2>1, <2>2 DEF DeleteVar
<1>8. CASE Unlist
  <2>1. CASE NvFault
    BY <2>1, <1>f, <1>g
  <2>2. CASE DmiArray' \in Without(cur) /\ UNCHANGED nvFaults /\ nvFaults = 0
    <3>1. Listed(cur) /\ DmiVar[cur] = None /\ Pending /\ Len(DmiArray) <= Cardinality(SetFields) + crashes + 1
      BY <1>8, <2>2 DEF Unlist, ListInv, Pending
    <3>a. Cardinality(SetFields) < Len(Fields)
      BY <1>c, <3>1, SetFieldsFinite
    <3>b. crashes <= MaxCrash /\ MaxCrash \in Nat /\ MaxRecords \in Nat
      BY SmbiosBoundsAssumption DEF TypeOK
    <3>d. ~Full
      BY <1>c, <1>s, <3>1, <3>a, <3>b DEF RecordsSuffice, Full
    <3>e. DmiArray' = Removed(cur)
      BY <2>2, <3>1, <3>d DEF Without
    <3>2. /\ Len(DmiArray') = Len(DmiArray) - 1
          /\ \A g : g # cur /\ Listed(g) => \E i \in 1..Len(DmiArray') : DmiArray'[i] = g
      <4>1. /\ Len(Removed(cur)) = Len(DmiArray) - 1
            /\ \A g : g # cur /\ Listed(g) => \E i \in 1..Len(Removed(cur)) : Removed(cur)[i] = g
        BY <3>1, RemovedListed DEF TypeOK
      <4> HIDE DEF Removed
      <4> QED
        BY <3>e, <4>1
    <3>3. SetFields' = SetFields /\ crashes' = crashes /\ cur \notin SetFields
      BY <1>8, <3>1 DEF Unlist, SetFields
    <3>4. \A f \in SetFields' : Listed(f)'
      BY <2>2, <3>2, <3>3 DEF ListInv, Listed
    <3>5. pc' \in {"field", "clear"} /\ ~Pending'
      BY <1>8, NextFieldType DEF Unlist, Pending
    <3>6. Len(DmiArray') <= Cardinality(SetFields') + crashes' + 0
      BY <1>s, <3>1, <3>2, <3>3
    <3> QED
      BY <3>4, <3>5, <3>6 DEF ListInv
  <2> QED
    BY <1>8, <1>f, <2>1, <2>2 DEF Unlist
<1>9. CASE AddRecord
  <2>1. CASE nvFaults = 0
    <3>1. DmiVar[cur] = None /\ ~Pending /\ Cardinality(SetFields) < Len(Fields)
      BY <1>9, <1>c, SetFieldsFinite DEF AddRecord, Pending
    <3>2. Len(DmiArray) <= Cardinality(SetFields) + crashes + 0
      BY <2>1, <3>1 DEF ListInv
    <3>3. Len(DmiArray) < MaxRecords
      <4>1. crashes <= MaxCrash /\ MaxCrash \in Nat /\ MaxRecords \in Nat
        BY SmbiosBoundsAssumption DEF TypeOK
      <4> QED
        BY <1>c, <1>s, <3>1, <3>2, <4>1 DEF RecordsSuffice
    <3>4. DmiArray' = Append(DmiArray, cur)
      BY <1>9, <3>3 DEF AddRecord, With, Full
    <3>5. /\ Len(DmiArray') = Len(DmiArray) + 1 /\ DmiArray'[Len(DmiArray) + 1] = cur
          /\ \A i \in 1..Len(DmiArray) : DmiArray'[i] = DmiArray[i]
      BY <1>c, <3>4 DEF TypeOK
    <3>6. Listed(cur)' /\ \A f : Listed(f) => Listed(f)'
      <4>1. cur' = cur
        BY <1>9 DEF AddRecord, cur
      <4>2. \E i \in 1..Len(DmiArray') : DmiArray'[i] = cur
        BY <1>s, <3>5
      <4>3. \A f : Listed(f) => \E i \in 1..Len(DmiArray') : DmiArray'[i] = f
        BY <1>s, <3>5 DEF Listed
      <4> QED
        BY <4>1, <4>2, <4>3 DEF Listed
    <3>7. /\ SetFields' = SetFields /\ crashes' = crashes /\ pc' = "set" /\ cur' = cur
          /\ DmiVar' = DmiVar /\ Pending'
      BY <1>9, <3>1 DEF AddRecord, SetFields, cur, Pending
    <3>8. Len(DmiArray') <= Cardinality(SetFields') + crashes' + 1
      BY <1>s, <3>2, <3>5, <3>7
    <3> QED
      BY <2>1, <3>6, <3>7, <3>8 DEF ListInv
  <2> QED
    BY <1>9, <1>f, <2>1 DEF AddRecord
<1>10. CASE AddRecordFails
  BY <1>10, <1>f, <1>g DEF AddRecordFails
<1>11. CASE HasRecord
  <2>1. CASE nvFaults = 0
    <3>1. /\ SetFields' = SetFields /\ DmiArray' = DmiArray /\ DmiVar' = DmiVar /\ cur' = cur
          /\ crashes' = crashes /\ pc' = "set" /\ \A f : Listed(f)' = Listed(f)
      BY <1>11 DEF HasRecord, SetFields, cur, Listed
    <3>2. ~Pending /\ ~Pending' /\ cur \in SetFields
      BY <1>11, <1>c, <3>1 DEF HasRecord, Pending, SetFields
    <3>3. Listed(cur)'
      BY <2>1, <3>1, <3>2 DEF ListInv
    <3> QED
      BY <2>1, <3>1, <3>2, <3>3 DEF ListInv
  <2> QED
    BY <1>11, <1>f, <2>1 DEF HasRecord
<1>12. CASE SetVar
  <2>1. CASE NvFault
    BY <2>1, <1>f, <1>g
  <2>2. CASE DmiVar' = [DmiVar EXCEPT ![cur] = new] /\ UNCHANGED nvFaults /\ nvFaults = 0
    <3>1. SetFields' = SetFields \cup {cur}
      BY <1>c, <2>2 DEF SetFields, TypeOK
    <3>2. DmiArray' = DmiArray /\ crashes' = crashes /\ \A f : Listed(f)' = Listed(f)
      BY <1>12 DEF SetVar, Listed
    <3>3. Listed(cur) /\ (\A f \in SetFields : Listed(f)) /\ (Pending <=> DmiVar[cur] = None)
      BY <1>12, <2>2 DEF SetVar, ListInv, Pending
    <3>4. \A f \in SetFields' : Listed(f)'
      BY <3>1, <3>2, <3>3
    <3>5. pc' \in {"field", "clear"} /\ ~Pending'
      BY <1>12, NextFieldType DEF SetVar, Pending
    <3>6. Len(DmiArray') <= Cardinality(SetFields') + crashes' + 0
      <4>1. CASE DmiVar[cur] = None
        <5>1. Cardinality(SetFields') = Cardinality(SetFields) + 1
          BY <1>s, <3>1, <4>1, FS_AddElement DEF SetFields
        <5>2. Len(DmiArray) <= Cardinality(SetFields) + crashes + 1
          BY <2>2, <3>3, <4>1 DEF ListInv
        <5> QED
          BY <1>s, <3>2, <5>1, <5>2
      <4>2. CASE DmiVar[cur] # None
        <5>1. SetFields' = SetFields
          BY <1>c, <3>1, <4>2 DEF SetFields
        <5>2. Len(DmiArray) <= Cardinality(SetFields) + crashes + 0
          BY <2>2, <3>3, <4>2 DEF ListInv
        <5> QED
          BY <3>2, <5>1, <5>2
      <4> QED
        BY <4>1, <4>2
    <3> QED
      BY <3>4, <3>5, <3>6 DEF ListInv
  <2> QED
    BY <1>12, <1>f, <2>1, <2>2 DEF SetVar
<1>13. CASE ClearSource
  BY <1>13, ListKept DEF ClearSource, Pending
<1>14. CASE CombinePrevious
  BY <1>14, ListKept DEF CombinePrevious, Pending
<1>15. CASE CombineCurrent
  BY <1>15, ListKept DEF CombineCurrent, Pending
<1>16. CASE CombineReturns
  BY <1>16, ListKept DEF CombineReturns, Pending
<1>17. CASE Shutdown
  BY <1>17, ListKept DEF Shutdown, Pending
<1>18. CASE PowerLoss
  BY <1>18, ListKept DEF PowerLoss
<1>19. ASSUME NEW d \in [Field -> Value], Download(d) PROVE ListInv'
  BY <1>19, ListKept DEF Download, Arrive, Pending
<1>20. ASSUME NEW d \in [Field -> Value], NEW o \in {"user", "damaged"},
             DownloadDataFromRAM([origin |-> o, data |-> d]) PROVE ListInv'
  BY <1>20, ListKept DEF DownloadDataFromRAM, Arrive, Pending
<1>21. CASE UNCHANGED vars
  <2>1. SetFields' = SetFields /\ cur' = cur /\ Pending' = Pending
    BY <1>21 DEF SetFields, cur, Pending
  <2> QED
    BY <1>21, <2>1 DEF ListInv, Listed
<1>22. CASE UnlistHangs
  <2>1. nvFaults # 0 /\ nvFaults' = nvFaults
    BY <1>22 DEF UnlistHangs, ListInv
  <2> QED
    BY <1>f, <2>1
<1>23. CASE Spin
  BY <1>21, <1>23 DEF Spin
<1> QED
  BY <1>1, <1>2, <1>3, <1>4, <1>5, <1>6, <1>7, <1>8, <1>9, <1>10, <1>11, <1>12, <1>13, <1>14, <1>15, <1>16, <1>17, <1>18, <1>19, <1>20, <1>21, <1>22, <1>23 DEF Next, Bios, Environment

-----------------------------------------------------------------------------
(* The file takes effect.                                                  *)

\* Every step keeps 0xFE out of the variables of strings.
LEMMA VarStep ==
  ASSUME TypeOK, VarInv, [Next]_vars
  PROVE  VarInv'
<1> USE DEF vars, nvVars, romVars, fileVars, faultVars, VarInv
<1>c. cur \in Field /\ StringField \subseteq Field /\ None # LoadDefault
  BY CurType, SmbiosAssumption DEF Value
<1>1. CASE Boot
  BY <1>1 DEF Boot
<1>2. CASE NoDownload
  BY <1>2 DEF NoDownload
<1>3. CASE NoUpdate
  BY <1>3 DEF NoUpdate
<1>4. CASE StartUpdate
  BY <1>4 DEF StartUpdate
<1>5. CASE SkipSame
  BY <1>5, NextFieldType DEF SkipSame
<1>6. CASE DefaultAbsent
  BY <1>6, NextFieldType DEF DefaultAbsent
<1>7. CASE DeleteVar
  BY <1>7, <1>c DEF DeleteVar, TypeOK
<1>8. CASE Unlist
  BY <1>8, NextFieldType DEF Unlist
<1>9. CASE AddRecord
  BY <1>9 DEF AddRecord, cur, new
<1>10. CASE AddRecordFails
  BY <1>10, NextFieldType DEF AddRecordFails
<1>11. CASE HasRecord
  BY <1>11 DEF HasRecord, cur, new
<1>12. CASE SetVar
  <2>1. pc' # "set" /\ DmiVar' \in {DmiVar, [DmiVar EXCEPT ![cur] = new]}
    BY <1>12, NextFieldType DEF SetVar
  <2>2. ~(cur \in StringField /\ new = LoadDefault)
    BY <1>12 DEF SetVar, LoadsDefault
  <2> QED
    BY <1>c, <2>1, <2>2 DEF TypeOK
<1>13. CASE ClearSource
  BY <1>13 DEF ClearSource
<1>14. CASE CombinePrevious
  BY <1>14 DEF CombinePrevious
<1>15. CASE CombineCurrent
  BY <1>15 DEF CombineCurrent
<1>16. CASE CombineReturns
  BY <1>16 DEF CombineReturns
<1>17. CASE Shutdown
  BY <1>17 DEF Shutdown
<1>18. CASE PowerLoss
  BY <1>18 DEF PowerLoss
<1>19. ASSUME NEW d \in [Field -> Value], Download(d) PROVE VarInv'
  BY <1>19 DEF Download, Arrive
<1>20. ASSUME NEW d \in [Field -> Value], NEW o \in {"user", "damaged"},
             DownloadDataFromRAM([origin |-> o, data |-> d]) PROVE VarInv'
  BY <1>20 DEF DownloadDataFromRAM, Arrive
<1>21. CASE UNCHANGED vars
  BY <1>21 DEF cur, new, LoadsDefault
<1>22. CASE UnlistHangs
  BY <1>22 DEF UnlistHangs
<1>23. CASE Spin
  BY <1>21, <1>23 DEF Spin
<1> QED
  BY <1>1, <1>2, <1>3, <1>4, <1>5, <1>6, <1>7, <1>8, <1>9, <1>10, <1>11, <1>12, <1>13, <1>14, <1>15, <1>16, <1>17, <1>18, <1>19, <1>20, <1>21, <1>22, <1>23 DEF Next, Bios, Environment

\* A write of the ROM leaves an image of the file at hand, a replaced one or none.
LEMMA WriteRomValues ==
  ASSUME NEW c, NEW p, WriteRom(c, p)
  PROVE  /\ current' = current \/ current' = c \/ current' = NoCurrent
         /\ previous' = previous \/ previous' = p \/ previous' = NoPrevious
BY DEF WriteRom

\* Every step keeps the file at hand.
LEMMA FileStep ==
  ASSUME TypeOK, FileInv, [Next]_vars
  PROVE  FileInv'
<1> USE DEF vars, nvVars, romVars, fileVars, faultVars
<1>e. ASSUME UNCHANGED nvVars PROVE Effective' = Effective
  BY <1>e DEF Effective, Listed
<1>1. CASE Boot
  BY <1>1, <1>e DEF Boot, FileInv
<1>2. CASE NoDownload
  BY <1>2, <1>e DEF NoDownload, FileInv
<1>3. CASE NoUpdate
  BY <1>3, <1>e DEF NoUpdate, FileInv
<1>4. CASE StartUpdate
  BY <1>4, <1>e DEF StartUpdate, FileInv
<1>5. CASE SkipSame
  BY <1>5, NextFieldType DEF SkipSame, FileInv
<1>6. CASE DefaultAbsent
  BY <1>6, NextFieldType DEF DefaultAbsent, FileInv
<1>7. CASE DeleteVar
  BY <1>7 DEF DeleteVar, FileInv
<1>8. CASE Unlist
  BY <1>8, NextFieldType DEF Unlist, FileInv
<1>9. CASE AddRecord
  BY <1>9 DEF AddRecord, FileInv
<1>10. CASE AddRecordFails
  BY <1>10, NextFieldType DEF AddRecordFails, FileInv
<1>11. CASE HasRecord
  BY <1>11 DEF HasRecord, FileInv
<1>12. CASE SetVar
  BY <1>12, NextFieldType DEF SetVar, FileInv
<1>13. CASE ClearSource
  <2>1. current'.origin = "user" => current' = current
    BY <1>13, WriteRomValues DEF ClearSource, NoCurrent, TypeOK
  <2> QED
    BY <1>13, <2>1 DEF ClearSource, FileInv
<1>14. CASE CombinePrevious
  <2>1. current'.origin # "user"
    BY <1>14, WriteRomValues DEF CombinePrevious, NoCurrent, FileInv
  <2> QED
    BY <1>14, <2>1 DEF CombinePrevious, FileInv
<1>15. CASE CombineCurrent
  <2>1. current'.origin # "user"
    BY <1>15, WriteRomValues DEF CombineCurrent, NoCurrent, FileInv
  <2> QED
    BY <1>15, <2>1 DEF CombineCurrent, FileInv
<1>16. CASE CombineReturns
  BY <1>16, <1>e DEF CombineReturns, FileInv
<1>17. CASE Shutdown
  BY <1>17, <1>e DEF Shutdown, FileInv
<1>18. CASE PowerLoss
  BY <1>18, <1>e DEF PowerLoss, FileInv
<1>19. ASSUME NEW d \in [Field -> Value], Download(d) PROVE FileInv'
  BY <1>19, <1>e DEF Download, Arrive, FileInv
<1>20. ASSUME NEW d \in [Field -> Value], NEW o \in {"user", "damaged"},
             DownloadDataFromRAM([origin |-> o, data |-> d]) PROVE FileInv'
  BY <1>20, <1>e DEF DownloadDataFromRAM, Arrive, FileInv
<1>21. CASE UNCHANGED vars
  BY <1>21, <1>e DEF FileInv
<1>22. CASE UnlistHangs
  BY <1>22, <1>e DEF UnlistHangs, FileInv
<1>23. CASE Spin
  BY <1>21, <1>23 DEF Spin
<1> QED
  BY <1>1, <1>2, <1>3, <1>4, <1>5, <1>6, <1>7, <1>8, <1>9, <1>10, <1>11, <1>12, <1>13, <1>14, <1>15, <1>16, <1>17, <1>18, <1>19, <1>20, <1>21, <1>22, <1>23 DEF Next, Bios, Environment

\* With the list complete the table of the next boot is what the NVRAM asks for.
LEMMA EffectiveIsAsked ==
  ASSUME TypeOK, ListInv, nvFaults = 0, NEW f \in Field
  PROVE  Effective[f] = Asked(f)
BY DEF ListInv, SetFields, Effective, Asked

\* What the NVRAM asks for is a value, and for a string not 0xFE.
LEMMA AskedType ==
  ASSUME TypeOK, VarInv, NEW f \in Field
  PROVE  /\ Asked(f) \in Value /\ Asked(f) # Damaged
         /\ f \in StringField => Asked(f) # LoadDefault
<1>1. Asked(f) \in Value
  BY SmbiosAssumption DEF TypeOK, Asked, Value
<1>2. f \in StringField => Asked(f) # LoadDefault
  BY SmbiosAssumption DEF VarInv, Asked
<1> QED
  BY <1>1, <1>2, SmbiosAssumption

\* A step that leaves the NVRAM, the regions and the goal, outside the loop.
LEMMA GoalKept ==
  ASSUME GoalInv, UNCHANGED <<DmiVar, romVars, fileVars>>, nvFaults' = nvFaults,
         pc' \notin {"field", "unlist", "set", "clear"}
  PROVE  GoalInv'
<1>1. \A f : Asked(f)' = Asked(f)
  BY DEF Asked
<1> QED
  BY <1>1 DEF GoalInv, Tracked, romVars, fileVars, Wanted

\* The loop leaves a field that is as the file asks.
LEMMA FieldDone ==
  ASSUME TypeOK, FileInv, GoalInv, Tracked, pc \in {"field", "unlist", "set"}, NextField,
         UNCHANGED <<romVars, fileVars>>, NEW c0 \in Field, c0 = cur,
         Asked(c0)' = Wanted(goal)[c0],
         \A f \in Field : f # c0 => Asked(f)' = Asked(f)
  PROVE  GoalInv'
<1> USE DEF romVars, fileVars
<1>1. Wanted(goal)' = Wanted(goal) /\ current.origin = "user" /\ k \in 1..Len(Fields) /\ Len(Fields) \in Nat
  BY CurType DEF Wanted, FileInv
<1>2. ASSUME NEW f \in Field
      PROVE  /\ Asked(f)' = previous[f] \/ Asked(f)' = Wanted(goal)[f]
             /\ f \in StringField => previous[f] # LoadDefault
  BY <1>1 DEF GoalInv
<1>3. ASSUME NEW i \in 1..Len(Fields), i <= k PROVE Asked(Fields[i])' = Wanted(goal)[Fields[i]]
  <2>1. CASE Fields[i] = c0
    BY <2>1
  <2>2. CASE Fields[i] # c0
    <3>1. i # k /\ i < k
      BY <1>1, <1>3, <2>2 DEF cur
    <3>2. Asked(Fields[i]) = Wanted(goal)[Fields[i]] /\ Fields[i] \in Field
      BY <3>1 DEF GoalInv, Field
    <3> QED
      BY <2>2, <3>2
  <2> QED
    BY <2>1, <2>2
<1>4. CASE k < Len(Fields)
  <2>1. pc' = "field" /\ k' = k + 1
    BY <1>4 DEF NextField
  <2>2. \A i \in 1..Len(Fields) : i < k + 1 => Asked(Fields[i])' = Wanted(goal)[Fields[i]]
    BY <1>1, <1>3
  <2> QED
    BY <1>1, <1>2, <2>1, <2>2 DEF GoalInv
<1>5. CASE ~(k < Len(Fields))
  <2>1. pc' = "clear"
    BY <1>5 DEF NextField
  <2>2. \A i \in 1..Len(Fields) : Asked(Fields[i])' = Wanted(goal)[Fields[i]]
    BY <1>1, <1>3, <1>5
  <2>3. \A f \in Field : Asked(f)' = Wanted(goal)[f]
    BY <2>2 DEF Field
  <2> QED
    BY <1>1, <1>2, <2>1, <2>3 DEF GoalInv
<1> QED
  BY <1>4, <1>5

\* A file arrives over the image of the system: every field is as it was.
LEMMA ArriveGoal ==
  ASSUME TypeOK, TypeOK', ListInv, VarInv, NEW c, Arrive(c),
         pc' \notin {"field", "unlist", "set", "clear"}
  PROVE  GoalInv'
<1> SUFFICES ASSUME Tracked' PROVE GoalInv'
  BY DEF GoalInv
<1>1. nvFaults = 0 /\ DmiVar' = DmiVar /\ previous' = Effective /\ current'.origin = "user"
  BY DEF Arrive, Tracked, nvVars
<1>2. \A f \in Field : Asked(f)' = Asked(f) /\ previous'[f] = Asked(f)
  BY <1>1, EffectiveIsAsked DEF Asked
<1>3. \A f \in StringField : previous'[f] # LoadDefault
  BY <1>2, AskedType, SmbiosAssumption
<1> QED
  BY <1>1, <1>2, <1>3 DEF GoalInv

\* Every step keeps each field as it was or as the file asks.
LEMMA GoalStep ==
  ASSUME TypeOK, TypeOK', ListInv, VarInv, FileInv, GoalInv, [Next]_vars
  PROVE  GoalInv'
<1> USE DEF vars, nvVars, romVars, fileVars, faultVars
<1>c. cur \in Field /\ new \in Value /\ new # None
  BY CurType, SmbiosAssumption
<1>t. ASSUME ~Tracked' PROVE GoalInv'
  BY <1>t DEF GoalInv
<1>g. ASSUME NvFault PROVE ~Tracked'
  BY <1>g DEF NvFault, Tracked, TypeOK
<1>w. ASSUME UNCHANGED fileVars, nvFaults' = nvFaults PROVE Tracked' = Tracked
  BY <1>w DEF Tracked
<1>d. ASSUME pc \in {"field", "unlist", "set"}
      PROVE  /\ current.origin = "user" /\ goal = current.data /\ goal[cur] = new
             /\ Wanted(goal)[cur] = IF LoadsDefault(cur, new) THEN Factory[cur] ELSE new
  <2>1. current.origin = "user" /\ goal = current.data /\ goal[cur] = new
    BY <1>d DEF FileInv, new
  <2> QED
    BY <1>c, <2>1 DEF Wanted, LoadsDefault
<1>1. CASE Boot
  BY <1>1, GoalKept DEF Boot
<1>2. CASE NoDownload
  BY <1>2, GoalKept DEF NoDownload
<1>3. CASE NoUpdate
  BY <1>3, GoalKept DEF NoUpdate
<1>4. CASE StartUpdate
  <2>1. \A f : Asked(f)' = Asked(f)
    BY <1>4 DEF StartUpdate, Asked
  <2>2. Wanted(goal)' = Wanted(goal) /\ Tracked' = Tracked /\ pc' = "field" /\ k' = 1 /\ UNCHANGED romVars
    BY <1>4, <1>w DEF StartUpdate, Wanted
  <2>3. current.origin = "user"
    BY <1>4 DEF StartUpdate
  <2> QED
    BY <2>1, <2>2, <2>3 DEF GoalInv
<1>5. CASE SkipSame
  <2> SUFFICES ASSUME Tracked' PROVE GoalInv'
    BY <1>t
  <2>1. Tracked /\ pc \in {"field", "unlist", "set"} /\ NextField /\ UNCHANGED <<romVars, fileVars>>
    BY <1>5, <1>g, <1>w DEF SkipSame
  <2>2. \A f : Asked(f)' = Asked(f)
    BY <1>5 DEF SkipSame, Asked
  <2>3. Asked(cur) = Wanted(goal)[cur]
    <3>1. previous[cur] = new \/ previous[cur] = Damaged
      BY <1>5 DEF SkipSame, Same
    <3>2. Asked(cur) = previous[cur] \/ Asked(cur) = Wanted(goal)[cur]
      BY <1>c, <1>d, <2>1 DEF GoalInv
    <3>3. cur \in StringField => previous[cur] # LoadDefault
      BY <1>c, <1>d, <2>1 DEF GoalInv
    <3>4. Asked(cur) # Damaged
      BY <1>c, AskedType
    <3> QED
      BY <1>d, <2>1, <3>1, <3>2, <3>3, <3>4 DEF LoadsDefault
  <2> QED
    BY <1>c, <2>1, <2>2, <2>3, FieldDone
<1>6. CASE DefaultAbsent
  <2> SUFFICES ASSUME Tracked' PROVE GoalInv'
    BY <1>t
  <2>1. Tracked /\ pc \in {"field", "unlist", "set"} /\ NextField /\ UNCHANGED <<romVars, fileVars>>
    BY <1>6, <1>g, <1>w DEF DefaultAbsent
  <2>2. \A f : Asked(f)' = Asked(f)
    BY <1>6 DEF DefaultAbsent, Asked
  <2>3. Asked(cur) = Wanted(goal)[cur]
    BY <1>6, <1>d DEF DefaultAbsent, Asked
  <2> QED
    BY <1>c, <2>1, <2>2, <2>3, FieldDone
<1>7. CASE DeleteVar
  <2> SUFFICES ASSUME Tracked' PROVE GoalInv'
    BY <1>t
  <2>1. /\ Tracked /\ pc = "field" /\ pc' = "unlist" /\ k' = k /\ cur' = cur
        /\ UNCHANGED <<romVars, fileVars>> /\ Wanted(goal)' = Wanted(goal)
        /\ DmiVar' = [DmiVar EXCEPT ![cur] = None]
    BY <1>7, <1>g, <1>w DEF DeleteVar, cur, Wanted
  <2>2. PICK c0 \in Field : c0 = cur
    BY <1>c
  <2>3. Asked(c0)' = Wanted(goal)[c0]
    <3>1. Asked(c0)' = Factory[c0]
      BY <1>c, <2>1, <2>2 DEF Asked, TypeOK
    <3>2. Wanted(goal)[cur] = Factory[cur]
      BY <1>7, <1>d DEF DeleteVar
    <3> QED
      BY <2>2, <3>1, <3>2
  <2>4. \A f \in Field : f # c0 => Asked(f)' = Asked(f)
    BY <2>1, <2>2 DEF Asked, TypeOK
  <2>5. current.origin = "user"
    BY <1>d, <2>1
  <2>6. ASSUME NEW f \in Field
        PROVE  /\ Asked(f)' = previous[f] \/ Asked(f)' = Wanted(goal)[f]
               /\ f \in StringField => previous[f] # LoadDefault
    BY <2>1, <2>3, <2>4, <2>5 DEF GoalInv
  <2>7. ASSUME NEW i \in 1..Len(Fields), i < k PROVE Asked(Fields[i])' = Wanted(goal)[Fields[i]]
    <3>1. Fields[i] \in Field /\ Asked(Fields[i]) = Wanted(goal)[Fields[i]]
      BY <2>1, <2>7 DEF GoalInv, Field
    <3> QED
      BY <2>3, <2>4, <3>1
  <2>8. Asked(cur)' = Wanted(goal)[cur]
    BY <2>1, <2>2, <2>3 DEF Asked
  <2> QED
    BY <2>1, <2>5, <2>6, <2>7, <2>8 DEF GoalInv
<1>8. CASE Unlist
  <2> SUFFICES ASSUME Tracked' PROVE GoalInv'
    BY <1>t
  <2>1. Tracked /\ pc \in {"field", "unlist", "set"} /\ NextField /\ UNCHANGED <<romVars, fileVars>>
    BY <1>8, <1>g, <1>w DEF Unlist
  <2>2. \A f : Asked(f)' = Asked(f)
    BY <1>8 DEF Unlist, Asked
  <2>3. Asked(cur) = Wanted(goal)[cur]
    BY <1>8, <2>1 DEF Unlist, GoalInv
  <2> QED
    BY <1>c, <2>1, <2>2, <2>3, FieldDone
<1>9. CASE AddRecord
  <2>1. \A f : Asked(f)' = Asked(f)
    BY <1>9 DEF AddRecord, Asked
  <2>2. /\ Wanted(goal)' = Wanted(goal) /\ Tracked' = Tracked /\ pc = "field" /\ pc' = "set"
        /\ k' = k /\ UNCHANGED romVars
    BY <1>9, <1>w DEF AddRecord, Wanted
  <2>3. current.origin = "user"
    BY <1>d, <2>2
  <2> QED
    BY <2>1, <2>2, <2>3 DEF GoalInv
<1>10. CASE AddRecordFails
  BY <1>10, <1>t, <1>g DEF AddRecordFails
<1>11. CASE HasRecord
  <2>1. \A f : Asked(f)' = Asked(f)
    BY <1>11 DEF HasRecord, Asked
  <2>2. /\ Wanted(goal)' = Wanted(goal) /\ Tracked' = Tracked /\ pc = "field" /\ pc' = "set"
        /\ k' = k /\ UNCHANGED romVars
    BY <1>11, <1>w DEF HasRecord, Wanted
  <2>3. current.origin = "user"
    BY <1>d, <2>2
  <2> QED
    BY <2>1, <2>2, <2>3 DEF GoalInv
<1>12. CASE SetVar
  <2> SUFFICES ASSUME Tracked' PROVE GoalInv'
    BY <1>t
  <2>1. /\ Tracked /\ pc \in {"field", "unlist", "set"} /\ NextField /\ UNCHANGED <<romVars, fileVars>>
        /\ DmiVar' = [DmiVar EXCEPT ![cur] = new]
    BY <1>12, <1>g, <1>w DEF SetVar
  <2>2. PICK c0 \in Field : c0 = cur
    BY <1>c
  <2>3. Asked(c0)' = Wanted(goal)[c0]
    <3>1. Asked(c0)' = new
      BY <1>c, <2>1, <2>2 DEF Asked, TypeOK
    <3>2. Wanted(goal)[cur] = new
      BY <1>12, <1>d DEF SetVar, VarInv
    <3> QED
      BY <2>2, <3>1, <3>2
  <2>4. \A f \in Field : f # c0 => Asked(f)' = Asked(f)
    BY <2>1, <2>2 DEF Asked, TypeOK
  <2> QED
    BY <2>1, <2>2, <2>3, <2>4, FieldDone
<1>13. CASE ClearSource
  <2>1. /\ Tracked' = Tracked /\ pc = "clear" /\ pc' = "off" /\ Wanted(goal)' = Wanted(goal)
        /\ \A f : Asked(f)' = Asked(f)
    BY <1>13, <1>w DEF ClearSource, Wanted, Asked
  <2>2. Tracked => \A f \in Field : Asked(f)' = Wanted(goal)[f]
    BY <2>1 DEF GoalInv
  <2>3. previous' = previous \/ previous' = NoPrevious
    BY <1>13, WriteRomValues DEF ClearSource
  <2>4. current.origin = "user"
    BY <2>1 DEF FileInv
  <2>5. Tracked => \A f \in Field : f \in StringField => previous'[f] # LoadDefault
    BY <2>3, <2>4, SmbiosAssumption DEF GoalInv, NoPrevious, Value
  <2> QED
    BY <2>1, <2>2, <2>5 DEF GoalInv
<1>14. CASE CombinePrevious
  <2>1. /\ Tracked' = Tracked /\ pc' \notin {"field", "unlist", "set", "clear"}
        /\ Wanted(goal)' = Wanted(goal) /\ \A f : Asked(f)' = Asked(f)
    BY <1>14, <1>w DEF CombinePrevious, Wanted, Asked
  <2>2. current.origin # "user" /\ current'.origin # "user"
    BY <1>14, WriteRomValues DEF CombinePrevious, NoCurrent, FileInv
  <2> QED
    BY <2>1, <2>2 DEF GoalInv
<1>15. CASE CombineCurrent
  <2>1. /\ Tracked' = Tracked /\ pc' \notin {"field", "unlist", "set", "clear"}
        /\ Wanted(goal)' = Wanted(goal) /\ \A f : Asked(f)' = Asked(f)
    BY <1>15, <1>w DEF CombineCurrent, Wanted, Asked
  <2>2. current.origin # "user" /\ current'.origin # "user"
    BY <1>15, WriteRomValues DEF CombineCurrent, NoCurrent, FileInv
  <2> QED
    BY <2>1, <2>2 DEF GoalInv
<1>16. CASE CombineReturns
  BY <1>16, GoalKept DEF CombineReturns
<1>17. CASE Shutdown
  BY <1>17, GoalKept DEF Shutdown
<1>18. CASE PowerLoss
  BY <1>18, GoalKept DEF PowerLoss
<1>19. ASSUME NEW d \in [Field -> Value], Download(d) PROVE GoalInv'
  BY <1>19, ArriveGoal DEF Download
<1>20. ASSUME NEW d \in [Field -> Value], NEW o \in {"user", "damaged"},
             DownloadDataFromRAM([origin |-> o, data |-> d]) PROVE GoalInv'
  <2>1. CASE pc = "os"
    BY <1>20, <2>1, ArriveGoal DEF DownloadDataFromRAM
  <2> QED
    BY <1>20, <2>1 DEF DownloadDataFromRAM
<1>21. CASE UNCHANGED vars
  <2>1. (\A f : Asked(f)' = Asked(f)) /\ Wanted(goal)' = Wanted(goal) /\ cur' = cur /\ Tracked' = Tracked
    BY <1>21 DEF Asked, Wanted, cur, Tracked
  <2>2. Asked(cur)' = Asked(cur)
    BY <1>21 DEF Asked, cur
  <2> QED
    BY <1>21, <2>1, <2>2 DEF GoalInv
<1>22. CASE UnlistHangs
  BY <1>22, GoalKept DEF UnlistHangs
<1>23. CASE Spin
  BY <1>21, <1>23 DEF Spin
<1> QED
  BY <1>1, <1>2, <1>3, <1>4, <1>5, <1>6, <1>7, <1>8, <1>9, <1>10, <1>11, <1>12, <1>13, <1>14, <1>15, <1>16, <1>17, <1>18, <1>19, <1>20, <1>21, <1>22, <1>23 DEF Next, Bios, Environment

-----------------------------------------------------------------------------
(* Theorems.                                                               *)

\* The variables of InBandUpdateSmbios have their types in every state: the
\* loop over the fields stays inside the file, and DmiArray never has more
\* records than its 8-bit count can count, whatever Unlist and AddRecord find.
THEOREM TypeCorrect == Spec => []TypeOK
<1>1. Init => TypeOK
  BY SmbiosAssumption, SmbiosBoundsAssumption DEF Init, TypeOK, Origin, Step, Value
<1>2. TypeOK /\ [Next]_vars => TypeOK'
  BY TypeStep
<1> QED
  BY <1>1, <1>2, PTL DEF Spec

\* The invariants hold together, as long as the power losses do not fill the list.
THEOREM Invariance == RecordsSuffice => (Spec => []IInv)
<1> SUFFICES ASSUME RecordsSuffice PROVE Spec => []IInv
  OBVIOUS
<1>1. Init => IInv
  <2> SUFFICES ASSUME Init PROVE IInv
    OBVIOUS
  <2>1. TypeOK
    BY SmbiosAssumption, SmbiosBoundsAssumption DEF Init, TypeOK, Origin, Step, Value
  <2>2. SetFields = {} /\ Len(DmiArray) = 0 /\ crashes = 0 /\ ~Pending
    BY DEF Init, SetFields, Pending
  <2>3. ListInv
    BY <2>2, FS_EmptySet DEF Init, ListInv
  <2>4. VarInv /\ FileInv /\ GoalInv
    BY SmbiosAssumption DEF Init, VarInv, FileInv, GoalInv, Tracked, Value
  <2> QED
    BY <2>1, <2>3, <2>4 DEF IInv
<1>2. IInv /\ [Next]_vars => IInv'
  BY TypeStep, ListStep, VarStep, FileStep, GoalStep DEF IInv
<1> QED
  BY <1>1, <1>2, PTL DEF Spec

\* A DmiVar that is set has its record in DmiArray: two NVRAM writes per field,
\* a power loss between them and a second application of the file leave no
\* setting without effect, unless an NVRAM write fails or there are so many
\* power losses that the records they leave behind fill the list.
THEOREM SetIsListed == RecordsSuffice => (Spec => []ListedWhenSet)
<1> SUFFICES ASSUME RecordsSuffice PROVE Spec => []ListedWhenSet
  OBVIOUS
<1>1. IInv => ListedWhenSet
  BY DEF IInv, ListInv, SetFields, ListedWhenSet
<1> QED
  BY <1>1, Invariance, PTL

\* The table at CombineSmbios is the one the last file asked for, across resets,
\* power losses and failed ROM writes, if PREVIOUS_SMBIOS was the table of the
\* system when the file arrived and no NVRAM write failed.
THEOREM FilesTakeEffect == RecordsSuffice => (Spec => []FileTakesEffect)
<1> SUFFICES ASSUME RecordsSuffice PROVE Spec => []FileTakesEffect
  OBVIOUS
<1>1. IInv => FileTakesEffect
  <2> SUFFICES ASSUME IInv, Applied, stale = 0 PROVE table = Wanted(goal)
    BY DEF FileTakesEffect
  <2>1. Tracked /\ current.origin # "user" /\ table = Effective
    BY DEF Applied, Tracked, IInv, FileInv
  <2>2. ASSUME NEW f \in Field PROVE Effective[f] = Wanted(goal)[f]
    BY <2>1, EffectiveIsAsked DEF IInv, GoalInv, Tracked
  <2> QED
    BY <2>1, <2>2 DEF Effective, Wanted
<1> QED
  BY <1>1, Invariance, PTL

-----------------------------------------------------------------------------
(* The loop of resets.                                                     *)

\* What can still happen before a file is settled: files, power losses and failing ROM
\* writes within their bounds, the phases up to the reset, and the fields.
PhasesLeft ==
  CASE pc = "os" -> 6 [] pc = "off" -> 5 [] pc = "download" -> 4 [] pc = "update" -> 3
    [] pc \in {"field", "unlist", "set"} -> 2 [] pc \in {"clear", "hung"} -> 1 [] OTHER -> 0
FieldsLeft == 2 * (Len(Fields) - k) + (IF pc = "field" THEN 1 ELSE 0)

Left == <<MaxFiles - files, MaxCrash - crashes, MaxFault - romFaults, PhasesLeft, FieldsLeft>>

\* The system resets itself after an update, and only a byte in the ROM keeps the next
\* POST from applying the file again. While a file stays in the region every step
\* leaves less to do: of the numbers that are left, all of them naturals, the first that
\* changes is smaller. So the loop of resets goes round once, and once more for each
\* new file, power loss or failing ROM write.
LessLeft ==
  [][current.origin = "user" /\ current'.origin = "user" =>
       \E n \in 1..5 : /\ Left'[n] < Left[n] /\ \A m \in 1..5 : Left'[m] \in Nat
                       /\ \A m \in 1..(n - 1) : Left'[m] = Left[m]]_vars

\* The first number that changes is smaller.
Less ==
  \/ files' = files + 1
  \/ files' = files /\ crashes' = crashes + 1
  \/ files' = files /\ crashes' = crashes /\ romFaults' = romFaults + 1
  \/ UNCHANGED <<files, crashes, romFaults>> /\ PhasesLeft' < PhasesLeft
  \/ UNCHANGED <<files, crashes, romFaults>> /\ PhasesLeft' = PhasesLeft /\ FieldsLeft' < FieldsLeft

\* What is left to do is counted by naturals.
LEMMA LeftType ==
  ASSUME TypeOK
  PROVE  /\ MaxFiles - files \in Nat /\ MaxCrash - crashes \in Nat /\ MaxFault - romFaults \in Nat
         /\ PhasesLeft \in Nat /\ FieldsLeft \in Nat
<1>1. MaxFiles - files \in Nat /\ MaxCrash - crashes \in Nat /\ MaxFault - romFaults \in Nat
  BY SmbiosBoundsAssumption DEF TypeOK
<1>2. PhasesLeft \in Nat
  BY DEF PhasesLeft
<1>3. FieldsLeft \in Nat
  <2>1. Len(Fields) - k \in Nat
    BY LenProperties, SmbiosAssumption DEF TypeOK
  <2> QED
    BY <2>1 DEF FieldsLeft
<1> QED
  BY <1>1, <1>2, <1>3

\* The loop over the fields goes on or ends.
LEMMA FieldLess ==
  ASSUME TypeOK, pc \in {"field", "unlist", "set"}, UNCHANGED <<files, crashes, romFaults>>,
         NextField \/ (pc = "field" /\ pc' \in {"unlist", "set"} /\ k' = k)
  PROVE  Less
<1>1. Len(Fields) \in Nat /\ k \in 1..Len(Fields)
  BY LenProperties, SmbiosAssumption DEF TypeOK
<1>2. CASE NextField /\ ~(k < Len(Fields))
  <2>1. pc' = "clear"
    BY <1>2 DEF NextField
  <2>2. PhasesLeft' < PhasesLeft
    BY <2>1 DEF PhasesLeft
  <2> QED
    BY <2>2 DEF Less
<1>3. CASE NextField /\ k < Len(Fields)
  <2>1. pc' = "field" /\ k' = k + 1
    BY <1>3 DEF NextField
  <2>2. PhasesLeft' = PhasesLeft
    BY <2>1 DEF PhasesLeft
  <2>3. /\ FieldsLeft = 2 * (Len(Fields) - k) + (IF pc = "field" THEN 1 ELSE 0)
        /\ FieldsLeft' = 2 * (Len(Fields) - (k + 1)) + 1
    BY <2>1 DEF FieldsLeft
  <2>4. FieldsLeft' < FieldsLeft
    BY <1>1, <2>3
  <2> QED
    BY <2>2, <2>4 DEF Less
<1>4. CASE pc = "field" /\ pc' \in {"unlist", "set"} /\ k' = k
  <2>1. PhasesLeft' = PhasesLeft
    BY <1>4 DEF PhasesLeft
  <2>2. FieldsLeft = 2 * (Len(Fields) - k) + 1 /\ FieldsLeft' = 2 * (Len(Fields) - k) + 0
    BY <1>4 DEF FieldsLeft
  <2>3. FieldsLeft' < FieldsLeft
    BY <1>1, <2>2
  <2> QED
    BY <2>1, <2>3 DEF Less
<1> QED
  BY <1>2, <1>3, <1>4

\* Every step that finds and leaves a file in the region leaves less to do.
LEMMA EveryLess ==
  ASSUME TypeOK, FileInv, Next, current.origin = "user", current'.origin = "user",
         vars' # vars
  PROVE  Less
<1> USE DEF fileVars, faultVars
<1>1. CASE SkipSame \/ DefaultAbsent \/ AddRecordFails \/ Unlist \/ SetVar
  BY <1>1, FieldLess DEF SkipSame, DefaultAbsent, AddRecordFails, Unlist, SetVar
<1>2. CASE DeleteVar \/ AddRecord \/ HasRecord
  BY <1>2, FieldLess DEF DeleteVar, AddRecord, HasRecord
<1>3. CASE Boot \/ NoDownload \/ StartUpdate \/ UnlistHangs \/ Shutdown
  <2>1. UNCHANGED <<files, crashes, romFaults>> /\ PhasesLeft' < PhasesLeft
    BY <1>3 DEF Boot, NoDownload, StartUpdate, UnlistHangs, Shutdown, PhasesLeft
  <2> QED
    BY <2>1 DEF Less
<1>4. CASE ClearSource
  <2>1. UNCHANGED <<files, crashes>>
    BY <1>4 DEF ClearSource
  <2>2. romFaults' = romFaults + 1
    <3>1. [current EXCEPT !.origin = "bios"].origin = "bios"
      BY DEF TypeOK
    <3> QED
      BY <1>4, <3>1 DEF ClearSource, WriteRom, RomFault
  <2> QED
    BY <2>1, <2>2 DEF Less
<1>5. CASE NoUpdate \/ CombinePrevious \/ CombineCurrent \/ CombineReturns
  BY <1>5 DEF NoUpdate, CombinePrevious, CombineCurrent, CombineReturns, FileInv
<1>6. CASE PowerLoss
  BY <1>6 DEF PowerLoss, Less
<1>7. ASSUME NEW d \in [Field -> Value], Download(d) PROVE Less
  BY <1>7 DEF Download, Arrive, Less
<1>8. ASSUME NEW d \in [Field -> Value], NEW o \in {"user", "damaged"},
             DownloadDataFromRAM([origin |-> o, data |-> d]) PROVE Less
  BY <1>8 DEF DownloadDataFromRAM, Arrive, Less
<1>9. CASE Spin
  BY <1>9 DEF Spin
<1> QED
  BY <1>1, <1>2, <1>3, <1>4, <1>5, <1>6, <1>7, <1>8, <1>9 DEF Next, Bios, Environment

\* While a file stays in the region every step leaves less to do, for any number of
\* fields, files, power losses and failing writes: the loop of resets cannot go round
\* without one of them. And the POST gets on: it never hangs in the search for a record
\* in the full list, as long as no NVRAM write has failed and the power losses cannot
\* fill the list; without that proviso the code hangs.
THEOREM ResetsEnd ==
  Spec => LessLeft /\ (RecordsSuffice => [](nvFaults = 0 => pc # "hung"))
<1> DEFINE Lower == \E n \in 1..5 : /\ Left'[n] < Left[n] /\ \A m \in 1..5 : Left'[m] \in Nat
                                    /\ \A m \in 1..(n - 1) : Left'[m] = Left[m]
           Stays   == current.origin = "user" /\ current'.origin = "user"
           Numbers == /\ MaxFiles - files \in Nat /\ MaxCrash - crashes \in Nat
                      /\ MaxFault - romFaults \in Nat
                      /\ PhasesLeft \in Nat /\ FieldsLeft \in Nat
<1>1. Spec => []FileInv
  <2>1. Init => FileInv
    BY DEF Init, FileInv, Effective, Listed
  <2> QED
    BY <2>1, FileStep, TypeCorrect, PTL DEF Spec
<1>2. TypeOK => Numbers
  BY LeftType
<1>3. TypeOK' => Numbers'
  BY <1>2, PTL
<1>4. TypeOK /\ TypeOK' /\ FileInv /\ [Next]_vars => [Stays => Lower]_vars
  <2> SUFFICES ASSUME TypeOK, TypeOK', FileInv, Next, Stays, vars' # vars PROVE Lower
    OBVIOUS
  <2>1. Less
    BY EveryLess
  <2>2. /\ Left[1] = MaxFiles - files /\ Left[2] = MaxCrash - crashes
        /\ Left[3] = MaxFault - romFaults /\ Left[4] = PhasesLeft /\ Left[5] = FieldsLeft
    BY DEF Left
  <2>3. /\ Left'[1] = MaxFiles - files' /\ Left'[2] = MaxCrash - crashes'
        /\ Left'[3] = MaxFault - romFaults' /\ Left'[4] = PhasesLeft' /\ Left'[5] = FieldsLeft'
    BY DEF Left
  <2>4. \A m \in 1..5 : Left'[m] \in Nat
    BY <1>3, <2>3
  <2>5. /\ MaxFiles \in Nat /\ MaxCrash \in Nat /\ MaxFault \in Nat
        /\ files \in Nat /\ crashes \in Nat /\ romFaults \in Nat
    BY SmbiosBoundsAssumption DEF TypeOK
  <2>6. \E n \in 1..5 : Left'[n] < Left[n] /\ \A m \in 1..(n - 1) : Left'[m] = Left[m]
    BY <2>1, <2>2, <2>3, <2>5 DEF Less
  <2> QED
    BY <2>4, <2>6
<1>5. RecordsSuffice => (Spec => [](nvFaults = 0 => pc # "hung"))
  <2>1. IInv => (nvFaults = 0 => pc # "hung")
    BY DEF IInv, ListInv
  <2> QED
    BY <2>1, Invariance, PTL
<1> QED
  BY <1>1, <1>4, <1>5, TypeCorrect, PTL DEF Spec, LessLeft
=============================================================================
