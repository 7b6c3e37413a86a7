-------------------------- MODULE InBandDataProofs --------------------------
(***************************************************************************)
(* Proofs about InBandData for any sizes of the areas of pBuffer, of the   *)
(* tool's buffer and of the files, and for any number of POSTs: type       *)
(* correctness, what the uploads find, and what a tool of the OS gets.     *)
(***************************************************************************)
EXTENDS InBandData, TLAPS

\* There are thirteen steps.
LEMMA StepCount == Len(Steps) = 13 /\ Os = 14
BY DEF Steps, Os

\* The place of each step in the order of SmcInBandReadyToBoot and the uploads.
LEMMA StepAt ==
  /\ At("combine", "cfg") <=> pc = 1
  /\ At("cells", "cfg")   <=> pc = 2
  /\ At("smi", "cfg")     <=> pc = 3
  /\ At("smbios", "rom")  <=> pc = 4
  /\ At("combine", "hii") <=> pc = 5
  /\ At("combine", "full") <=> pc = 6
  /\ At("cells", "hii")   <=> pc = 7
  /\ At("smi", "hii")     <=> pc = 8
  /\ At("cells", "full")  <=> pc = 9
  /\ At("smi", "full")    <=> pc = 10
  /\ At("upload", "cfg")  <=> pc = 11
  /\ At("upload", "hii")  <=> pc = 12
  /\ At("upload", "full") <=> pc = 13
<1>1. \A op, k : At(op, k) <=> pc \in 1..13 /\ Steps[pc] = <<op, k>>
  BY StepCount DEF At
<1>2. /\ Steps[1] = <<"combine", "cfg">> /\ Steps[2] = <<"cells", "cfg">>
      /\ Steps[3] = <<"smi", "cfg">> /\ Steps[4] = <<"smbios", "rom">>
      /\ Steps[5] = <<"combine", "hii">> /\ Steps[6] = <<"combine", "full">>
      /\ Steps[7] = <<"cells", "hii">> /\ Steps[8] = <<"smi", "hii">>
      /\ Steps[9] = <<"cells", "full">> /\ Steps[10] = <<"smi", "full">>
      /\ Steps[11] = <<"upload", "cfg">> /\ Steps[12] = <<"upload", "hii">>
      /\ Steps[13] = <<"upload", "full">>
  BY DEF Steps
<1>3. pc \in 1..13 => \/ pc = 1 \/ pc = 2 \/ pc = 3 \/ pc = 4 \/ pc = 5 \/ pc = 6 \/ pc = 7
                      \/ pc = 8 \/ pc = 9 \/ pc = 10 \/ pc = 11 \/ pc = 12 \/ pc = 13
  OBVIOUS
<1> QED
  BY <1>1, <1>2, <1>3

-----------------------------------------------------------------------------
(* The inductive invariant.                                                *)

\* There is a POST once the system was switched on.
PostInv == pc # 0 => post # 0

\* What each block of pBuffer holds at each step: a later file lies over an earlier
\* one, and what no file has reached is as InitSmcInBand left it.
BufferInv ==
  pc # 0 => \A p \in Pos :
    pBuffer[p] = IF pc > 6 /\ p \in Blocks("full", size.full) THEN <<"full", post>>
                 ELSE IF pc > 5 /\ p \in Blocks("hii", size.hii) THEN <<"hii", post>>
                 ELSE IF pc > 1 /\ p \in Blocks("cfg", size.cfg) THEN <<"cfg", post>>
                 ELSE IF p < Total THEN Zero ELSE Junk

\* The cells hold the address of pBuffer whenever an SMI or an upload reads them,
\* and an SMI is triggered only with SmmControl2.
CellsInv ==
  /\ smm = 1 /\ (pc = 3 \/ pc = 8 \/ pc > 9) => cells = "pBuffer"
  /\ pc = 3 \/ pc = 8 \/ pc = 10 => smm = 1

\* The configuration in the SMRAM, once it was copied: HII data that is contained
\* does not reach it.
SmramCfg ==
  smm = 1 /\ pc > 3 /\ HiiContained =>
    /\ \A p \in Blocks("cfg", size.cfg) : smram[p] = <<"cfg", post>>
    /\ size.cfg = 0 => smram[Offset("cfg")] = Zero

\* The HII data in the SMRAM: the part in its own area.
SmramHii ==
  smm = 1 /\ pc > 8 =>
    /\ \A p \in Blocks("hii", size.hii) : p < HiiSize => smram[p] = <<"hii", post>>
    /\ size.hii = 0 => smram[0] = Zero

\* The SMBIOS table in the SMRAM, which is copied last.
SmramFull ==
  smm = 1 /\ pc > 10 =>
    /\ \A p \in Blocks("full", size.full) : smram[p] = <<"full", post>>
    /\ size.full = 0 /\ size.hii <= HiiSize => smram[HiiSize] = Zero

\* The other files leave file k its room in pBuffer.
Room(k) ==
  /\ k = "cfg" => size.hii <= HiiSize + FullSize
  /\ k = "hii" => size.hii <= HiiSize \/ size.full = 0

\* The upload of file k is over.
Uploaded(k) ==
  \/ k = "cfg" /\ pc > 11
  \/ k = "hii" /\ pc > 12
  \/ k = "full" /\ pc > 13

FoundInv ==
  smm = 1 => \A k \in Kind :
    Room(k) /\ (found[k] # All(Zero) \/ Uploaded(k)) => found[k] = File(k)

IInv ==
  /\ TypeOK /\ PostInv /\ BufferInv /\ CellsInv
  /\ SmramCfg /\ SmramHii /\ SmramFull /\ FoundInv /\ RepliesIntact

-----------------------------------------------------------------------------
(* Facts about memory.                                                     *)

\* The blocks of files of this POST, zeros and junk are contents.
LEMMA Contents ==
  /\ Zero \in Content /\ Junk \in Content
  /\ \A k \in Kind, n \in 1..MaxPost : <<k, n>> \in Content
BY DEF Content

\* They differ from each other.
LEMMA Distinct ==
  /\ Zero # Junk
  /\ \A k \in Kind : \A n : <<k, n>> # Zero /\ <<k, n>> # Junk
  /\ \A n : <<"hii", n>> # <<"full", n>> /\ <<"hii", n>> # <<"cfg", n>> /\ <<"full", n>> # <<"cfg", n>>
BY DEF Kind, Zero, Junk

\* The areas lie one behind the other.
LEMMA Areas ==
  /\ Offset("hii") = 0 /\ Offset("full") = HiiSize /\ Offset("cfg") = HiiSize + FullSize
  /\ \A k \in Kind : Offset(k) \in Pos /\ Offset(k) < Total
  /\ Pos \subseteq Nat
<1>1. Offset("hii") = 0 /\ Offset("full") = HiiSize /\ Offset("cfg") = HiiSize + FullSize
  BY DEF Offset
<1>2. \A k \in Kind : k = "hii" \/ k = "full" \/ k = "cfg"
  BY DEF Kind
<1> QED
  BY <1>1, <1>2, InBandDataAssumption, InBandDataBoundsAssumption DEF Pos, Total

\* The blocks of a file, without the operator's case distinction.
LEMMA BlocksOf ==
  ASSUME NEW n \in Nat, NEW p
  PROVE  /\ p \in Blocks("hii", n) <=> p \in Pos /\ p < n
         /\ p \in Blocks("full", n) <=> p \in Pos /\ HiiSize <= p /\ p < HiiSize + n
         /\ p \in Blocks("cfg", n) <=>
              p \in Pos /\ HiiSize + FullSize <= p /\ p < HiiSize + FullSize + n
<1>1. \A k : p \in Blocks(k, n) <=> p \in Pos /\ Offset(k) <= p /\ p < Offset(k) + n
  BY DEF Blocks
<1>2. p \in Pos => p \in Nat
  BY Areas
<1> QED
  BY <1>1, <1>2, Areas, InBandDataAssumption

\* A file begins with its header; a file of no blocks has no header.
LEMMA HeaderOf ==
  ASSUME NEW k \in Kind
  PROVE  /\ \A n \in Nat : n # 0 => Offset(k) \in Blocks(k, n)
         /\ \A p : p \notin Blocks(k, 0)
<1>1. Offset(k) \in Pos /\ Offset(k) \in Nat
  BY Areas
<1>2. \A p \in Pos : p \in Nat
  BY Areas
<1> QED
  BY <1>1, <1>2 DEF Blocks

\* What the header of a file of this POST, and a blank header, say of its length.
LEMMA LengthsOf ==
  ASSUME NEW mem, NEW k \in Kind
  PROVE  /\ mem[Offset(k)] = <<k, post>> => Lengths(mem, k) = {size[k]}
         /\ mem[Offset(k)] = Zero => Lengths(mem, k) = {1}
<1>1. ASSUME mem[Offset(k)] = <<k, post>> PROVE Lengths(mem, k) = {size[k]}
  <2>1. mem[Offset(k)] # Zero
    BY <1>1, Distinct
  <2> QED
    BY <1>1, <2>1 DEF Lengths
<1>2. ASSUME mem[Offset(k)] = Zero PROVE Lengths(mem, k) = {1}
  <2>1. mem[Offset(k)] # <<k, post>>
    BY <1>2, Distinct
  <2> QED
    BY <1>2, <2>1 DEF Lengths
<1> QED
  BY <1>1, <1>2

-----------------------------------------------------------------------------
(* Every step keeps the types.                                             *)

\* The kinds of files are three.
LEMMA Kinds == \A k \in Kind : k = "hii" \/ k = "full" \/ k = "cfg"
BY DEF Kind

\* The size of a file is a number.
LEMMA SizeType ==
  ASSUME size \in Sizes
  PROVE  /\ \A k \in Kind : size[k] \in 0..MaxSize \/ size[k] \in 0..FullSize
         /\ \A k \in Kind : size[k] \in Nat
         /\ size.hii \in Nat /\ size.full \in 0..FullSize /\ size.cfg \in Nat
BY Kinds, InBandDataAssumption, InBandDataBoundsAssumption DEF Sizes

\* The length that the header of a file shows is a positive number, or that of
\* the file.
LEMMA LengthType ==
  ASSUME NEW mem, NEW k \in Kind, size \in Sizes, NEW n \in Lengths(mem, k)
  PROVE  n \in Nat
<1>1. CASE mem[Offset(k)] = <<k, post>>
  BY <1>1, SizeType DEF Lengths
<1>2. CASE mem[Offset(k)] # <<k, post>> /\ mem[Offset(k)] = Zero
  BY <1>2 DEF Lengths
<1>3. CASE mem[Offset(k)] # <<k, post>> /\ mem[Offset(k)] # Zero
  BY <1>3, InBandDataBoundsAssumption DEF Lengths
<1> QED
  BY <1>1, <1>2, <1>3

\* Every step keeps the types: addresses stay in range, and every block holds a
\* file of some POST, zeros or junk.
LEMMA TypeStep ==
  ASSUME TypeOK, PostInv, [Next]_vars
  PROVE  TypeOK' /\ PostInv'
<1> USE StepCount, InBandDataAssumption, InBandDataBoundsAssumption DEF TypeOK, PostInv
<1>0. \A op, k : At(op, k) => pc \in 1..13
  BY DEF At
<1>1. ASSUME NEW s \in Sizes, NEW ctl \in {0, 1}, InitSmcInBand(s, ctl)
      PROVE  TypeOK' /\ PostInv'
  <2>1. pBuffer' \in Memory /\ smram' \in Memory /\ All(Zero) \in Memory
    BY <1>1, Contents DEF InitSmcInBand, Memory, All
  <2>2. found' \in [Kind -> Memory] /\ reply' \in Reply
    BY <1>1, <2>1 DEF InitSmcInBand, NoReply, Reply
  <2> QED
    BY <1>1, <2>1, <2>2 DEF InitSmcInBand, Off
<1>2. ASSUME NEW k \in Kind, Combine(k)
      PROVE  TypeOK' /\ PostInv'
  <2>1. <<k, post>> \in Content
    BY <1>0, <1>2, Contents DEF Combine
  <2>2. pBuffer' \in Memory
    BY <1>2, <2>1 DEF Combine, Memory
  <2> QED
    BY <1>0, <1>2, <2>2 DEF Combine
<1>3. ASSUME CombineSmbios
      PROVE  TypeOK' /\ PostInv'
  BY <1>0, <1>3 DEF CombineSmbios
<1>4. ASSUME NEW k \in Kind, SaveAddress(k)
      PROVE  TypeOK' /\ PostInv'
  BY <1>0, <1>4 DEF SaveAddress
<1>5. ASSUME NEW k \in Kind, NoSmm(k)
      PROVE  TypeOK' /\ PostInv'
  <2>1. pc = 2 \/ pc = 7 \/ pc = 9
    BY <1>5, StepAt, Kinds DEF NoSmm
  <2> QED
    BY <1>5, <2>1 DEF NoSmm
<1>6. ASSUME NEW k \in Kind, SmcInBandSwSmiE8Handler(k)
      PROVE  TypeOK' /\ PostInv'
  <2>1. PICK n : smram' = Copied(k, n)
    BY <1>6 DEF SmcInBandSwSmiE8Handler
  <2>2. smram' \in Memory
    BY <2>1, Contents DEF Copied, Memory
  <2> QED
    BY <1>0, <1>6, <2>2 DEF SmcInBandSwSmiE8Handler
<1>7. ASSUME NEW k \in Kind, UploadToBMC(k)
      PROVE  TypeOK' /\ PostInv'
  <2>1. Extract(pBuffer, k, size[k]) \in Memory /\ All(Junk) \in Memory
    BY Contents DEF Extract, Memory, All
  <2>2. found' \in [Kind -> Memory]
    BY <1>7, <2>1 DEF UploadToBMC
  <2> QED
    BY <1>0, <1>7, <2>2 DEF UploadToBMC
<1>8. ASSUME NEW k \in Kind, UploadDataToRAM(k)
      PROVE  TypeOK' /\ PostInv'
  <2>1. PICK n \in Lengths(smram, k) :
          reply' = [kind |-> k, status |-> ReturnStatus(n), total |-> n,
                    data |-> Extract(smram, k, n)]
    BY <1>8 DEF UploadDataToRAM
  <2>2. n \in Nat
    BY LengthType
  <2>3. Extract(smram, k, n) \in Memory
    BY Contents DEF Extract, Memory
  <2>4. reply' \in Reply
    BY <2>1, <2>2, <2>3 DEF Reply, ReturnStatus
  <2> QED
    BY <1>8, <2>4 DEF UploadDataToRAM
<1>9. ASSUME NEW n \in 0..MaxSize, UploadOtherToRAM(n)
      PROVE  TypeOK' /\ PostInv'
  <2>1. All(Junk) \in Memory
    BY Contents DEF Memory, All
  <2>2. reply' \in Reply
    BY <1>9, <2>1 DEF UploadOtherToRAM, Reply, ReturnStatus
  <2> QED
    BY <1>9, <2>2 DEF UploadOtherToRAM
<1>10. CASE UNCHANGED vars
  BY <1>10 DEF vars
<1> QED
  BY <1>1, <1>2, <1>3, <1>4, <1>5, <1>6, <1>7, <1>8, <1>9, <1>10 DEF Next, ReadyToBoot

-----------------------------------------------------------------------------
(* Every step keeps the rest of the invariant.                             *)

\* A step that leaves pBuffer, the files and the POST alone and moves on does not
\* step over one of the three that fill pBuffer.
LEMMA BufferKept ==
  ASSUME BufferInv, UNCHANGED <<pBuffer, size, post>>, pc \in Nat, pc' \in Nat,
         pc # 0, pc' # 0, pc > 1 <=> pc' > 1, pc > 5 <=> pc' > 5, pc > 6 <=> pc' > 6
  PROVE  BufferInv'
BY DEF BufferInv

\* pBuffer holds the files that were combined so far.
LEMMA BufferStep ==
  ASSUME TypeOK, BufferInv, [Next]_vars
  PROVE  BufferInv'
<1> USE StepCount, StepAt, Kinds, InBandDataAssumption, InBandDataBoundsAssumption
<1>0. pc \in 0..14 /\ size \in Sizes
  BY DEF TypeOK
<1>1. ASSUME NEW s \in Sizes, NEW ctl \in {0, 1}, InitSmcInBand(s, ctl)
      PROVE  BufferInv'
  BY <1>1 DEF InitSmcInBand, BufferInv
<1>2. ASSUME NEW k \in Kind, Combine(k)
      PROVE  BufferInv'
  <2>1. CASE k = "cfg"
    BY <1>2, <2>1 DEF Combine, BufferInv
  <2>2. CASE k = "hii"
    BY <1>2, <2>2 DEF Combine, BufferInv
  <2>3. CASE k = "full"
    BY <1>2, <2>3 DEF Combine, BufferInv
  <2> QED
    BY <2>1, <2>2, <2>3
<1>3. ASSUME CombineSmbios
      PROVE  BufferInv'
  BY <1>0, <1>3, BufferKept DEF CombineSmbios
<1>4. ASSUME NEW k \in Kind, SaveAddress(k)
      PROVE  BufferInv'
  BY <1>0, <1>4, BufferKept DEF SaveAddress
<1>5. ASSUME NEW k \in Kind, NoSmm(k)
      PROVE  BufferInv'
  BY <1>0, <1>5, BufferKept DEF NoSmm
<1>6. ASSUME NEW k \in Kind, SmcInBandSwSmiE8Handler(k)
      PROVE  BufferInv'
  BY <1>0, <1>6, BufferKept DEF SmcInBandSwSmiE8Handler
<1>7. ASSUME NEW k \in Kind, UploadToBMC(k)
      PROVE  BufferInv'
  BY <1>0, <1>7, BufferKept DEF UploadToBMC
<1>8. ASSUME NEW k \in Kind, UploadDataToRAM(k)
      PROVE  BufferInv'
  BY <1>0, <1>8, BufferKept DEF UploadDataToRAM
<1>9. ASSUME NEW n \in 0..MaxSize, UploadOtherToRAM(n)
      PROVE  BufferInv'
  BY <1>0, <1>9, BufferKept DEF UploadOtherToRAM
<1>10. CASE UNCHANGED vars
  BY <1>10 DEF vars, BufferInv
<1> QED
  BY <1>1, <1>2, <1>3, <1>4, <1>5, <1>6, <1>7, <1>8, <1>9, <1>10 DEF Next, ReadyToBoot

\* The cells are set again after the ROM writes of CombineSmbios and before each
\* reader.
LEMMA CellsStep ==
  ASSUME TypeOK, CellsInv, [Next]_vars
  PROVE  CellsInv'
<1> USE StepCount, StepAt, Kinds DEF CellsInv
<1>0. pc \in 0..14 /\ smm \in {0, 1}
  BY DEF TypeOK
<1>1. ASSUME NEW s \in Sizes, NEW ctl \in {0, 1}, InitSmcInBand(s, ctl)
      PROVE  CellsInv'
  BY <1>1 DEF InitSmcInBand
<1>2. ASSUME NEW k \in Kind, Combine(k)
      PROVE  CellsInv'
  BY <1>0, <1>2 DEF Combine
<1>3. ASSUME CombineSmbios
      PROVE  CellsInv'
  BY <1>0, <1>3 DEF CombineSmbios
<1>4. ASSUME NEW k \in Kind, SaveAddress(k)
      PROVE  CellsInv'
  BY <1>0, <1>4 DEF SaveAddress
<1>5. ASSUME NEW k \in Kind, NoSmm(k)
      PROVE  CellsInv'
  BY <1>0, <1>5 DEF NoSmm
<1>6. ASSUME NEW k \in Kind, SmcInBandSwSmiE8Handler(k)
      PROVE  CellsInv'
  BY <1>0, <1>6 DEF SmcInBandSwSmiE8Handler
<1>7. ASSUME NEW k \in Kind, UploadToBMC(k)
      PROVE  CellsInv'
  BY <1>0, <1>7 DEF UploadToBMC
<1>8. ASSUME NEW k \in Kind, UploadDataToRAM(k)
      PROVE  CellsInv'
  BY <1>0, <1>8 DEF UploadDataToRAM
<1>9. ASSUME NEW n \in 0..MaxSize, UploadOtherToRAM(n)
      PROVE  CellsInv'
  BY <1>0, <1>9 DEF UploadOtherToRAM
<1>10. CASE UNCHANGED vars
  BY <1>10 DEF vars
<1> QED
  BY <1>1, <1>2, <1>3, <1>4, <1>5, <1>6, <1>7, <1>8, <1>9, <1>10 DEF Next, ReadyToBoot

SmramInv == SmramCfg /\ SmramHii /\ SmramFull

\* A step that leaves the SMRAM alone is not one behind which it holds more.
LEMMA SmramKept ==
  ASSUME SmramInv, UNCHANGED <<smram, size, post, smm>>,
         smm = 1 => (pc > 3 <=> pc' > 3) /\ (pc > 8 <=> pc' > 8) /\ (pc > 10 <=> pc' > 10)
  PROVE  SmramInv'
BY DEF SmramInv, SmramCfg, SmramHii, SmramFull, HiiContained

\* The SMI for the configuration copies it, or one block of zeros.
LEMMA SmramCfgCopied ==
  ASSUME TypeOK, BufferInv, CellsInv, SmcInBandSwSmiE8Handler("cfg")
  PROVE  SmramInv'
<1> USE StepAt, Areas, BlocksOf, InBandDataAssumption, InBandDataBoundsAssumption
<1>1. pc = 3 /\ pc' = 4 /\ cells = "pBuffer" /\ UNCHANGED <<size, post, smm>>
  BY DEF SmcInBandSwSmiE8Handler, CellsInv
<1>2. size.hii \in Nat /\ size.full \in Nat /\ size.cfg \in Nat /\ size["cfg"] = size.cfg
  BY SizeType DEF TypeOK, Sizes
<1>3. PICK n \in Lengths(pBuffer, "cfg") : smram' = Copied("cfg", n)
  BY <1>1 DEF SmcInBandSwSmiE8Handler
<1>4. "cfg" \in Kind
  BY DEF Kind
<1>5. \A p \in Pos : pBuffer[p] = IF p \in Blocks("cfg", size.cfg) THEN <<"cfg", post>>
                                   ELSE IF p < Total THEN Zero ELSE Junk
  BY <1>1 DEF BufferInv
<1>6. CASE size.cfg # 0
  <2>1. Offset("cfg") \in Blocks("cfg", size.cfg)
    BY <1>2, <1>4, <1>6, HeaderOf
  <2>2. pBuffer[Offset("cfg")] = <<"cfg", post>>
    BY <1>4, <1>5, <2>1
  <2>3. n = size.cfg
    BY <1>2, <1>3, <1>4, <2>2, LengthsOf
  <2>4. \A p \in Blocks("cfg", size.cfg) : smram'[p] = <<"cfg", post>>
    BY <1>1, <1>2, <1>3, <1>5, <2>3 DEF Copied
  <2> QED
    BY <1>1, <1>6, <2>4 DEF SmramInv, SmramCfg, SmramHii, SmramFull
<1>7. CASE size.cfg = 0
  <2>1. pBuffer[Offset("cfg")] = Zero
    BY <1>4, <1>5, <1>7, HeaderOf
  <2>2. n = 1
    BY <1>3, <1>4, <2>1, LengthsOf
  <2>3. smram'[Offset("cfg")] = Zero
    BY <1>1, <1>3, <1>4, <2>1, <2>2, HeaderOf DEF Copied
  <2>4. \A p : p \notin Blocks("cfg", size.cfg)
    BY <1>4, <1>7, HeaderOf
  <2> QED
    BY <1>1, <2>3, <2>4 DEF SmramInv, SmramCfg, SmramHii, SmramFull
<1> QED
  BY <1>6, <1>7

\* The SMI for the HII data copies it, or one block of zeros. The part that it
\* copies of the other areas does not reach the configuration if it is contained.
LEMMA SmramHiiCopied ==
  ASSUME TypeOK, BufferInv, CellsInv, SmramInv, SmcInBandSwSmiE8Handler("hii")
  PROVE  SmramInv'
<1> USE InBandDataAssumption, InBandDataBoundsAssumption
<1>1. pc = 8 /\ pc' = 9 /\ cells = "pBuffer" /\ smm = 1 /\ UNCHANGED <<size, post, smm>>
  BY StepAt DEF SmcInBandSwSmiE8Handler, CellsInv
<1>2. /\ size.hii \in Nat /\ size.full \in 0..FullSize /\ size.cfg \in Nat
      /\ size["hii"] = size.hii
  BY SizeType DEF TypeOK, Sizes
<1>3. PICK n \in Lengths(pBuffer, "hii") : smram' = Copied("hii", n)
  BY <1>1 DEF SmcInBandSwSmiE8Handler
<1>4. "hii" \in Kind /\ "cfg" \in Kind
  BY DEF Kind
<1>5. \A p \in Pos : p < HiiSize =>
        pBuffer[p] = IF p \in Blocks("hii", size.hii) THEN <<"hii", post>> ELSE Zero
  BY <1>1, <1>2, Areas, BlocksOf DEF BufferInv, Total
<1>6. n = IF size.hii = 0 THEN 1 ELSE size.hii
  <2>1. pBuffer[0] = IF size.hii = 0 THEN Zero ELSE <<"hii", post>>
    BY <1>2, <1>4, <1>5, Areas, HeaderOf
  <2> QED
    BY <1>2, <1>3, <1>4, <2>1, Areas, LengthsOf
<1>7. SmramHii'
  <2>1. \A p \in Blocks("hii", size.hii) : p < HiiSize => smram'[p] = <<"hii", post>>
    <3> SUFFICES ASSUME NEW p \in Blocks("hii", size.hii), p < HiiSize
                 PROVE  smram'[p] = <<"hii", post>>
      OBVIOUS
    <3>1. p \in Pos
      BY DEF Blocks
    <3>2. size.hii # 0
      BY <1>4, HeaderOf
    <3> QED
      BY <1>1, <1>3, <1>5, <1>6, <3>1, <3>2 DEF Copied
  <2>2. size.hii = 0 => smram'[0] = Zero
    BY <1>1, <1>3, <1>4, <1>5, <1>6, Areas, HeaderOf DEF Copied
  <2> QED
    BY <1>1, <2>1, <2>2 DEF SmramHii
<1>8. SmramCfg'
  <2>1. ASSUME HiiContained, NEW p \in Pos, HiiSize + FullSize <= p
        PROVE  smram'[p] = smram[p]
    <3>1. p \notin Blocks("hii", n)
      BY <1>2, <1>6, <2>1, BlocksOf, Areas DEF HiiContained
    <3> QED
      BY <1>3, <3>1 DEF Copied
  <2>2. HiiContained' <=> HiiContained
    BY <1>1 DEF HiiContained
  <2>3. \A p \in Blocks("cfg", size.cfg) : p \in Pos /\ HiiSize + FullSize <= p
    BY <1>2, BlocksOf
  <2>4. Offset("cfg") \in Pos /\ HiiSize + FullSize <= Offset("cfg")
    BY <1>4, Areas
  <2> QED
    BY <1>1, <2>1, <2>2, <2>3, <2>4 DEF SmramCfg, SmramInv
<1> QED
  BY <1>1, <1>7, <1>8 DEF SmramInv, SmramFull

\* The SMI for the SMBIOS table copies it. Without a table it takes the length from
\* where the HII data may lie.
LEMMA SmramFullCopied ==
  ASSUME TypeOK, BufferInv, CellsInv, SmramInv, SmcInBandSwSmiE8Handler("full")
  PROVE  SmramInv'
<1> USE InBandDataAssumption, InBandDataBoundsAssumption
<1>1. pc = 10 /\ pc' = 11 /\ cells = "pBuffer" /\ smm = 1 /\ UNCHANGED <<size, post, smm>>
  BY StepAt DEF SmcInBandSwSmiE8Handler, CellsInv
<1>2. /\ size.hii \in Nat /\ size.full \in 0..FullSize /\ size.cfg \in Nat
      /\ size["full"] = size.full
  BY SizeType DEF TypeOK, Sizes
<1>3. PICK n \in Lengths(pBuffer, "full") : smram' = Copied("full", n)
  BY <1>1 DEF SmcInBandSwSmiE8Handler
<1>4. "full" \in Kind /\ "cfg" \in Kind
  BY DEF Kind
<1>5. n \in Nat
  BY <1>3, <1>4, LengthType DEF TypeOK
<1>6. size.full # 0 => n = size.full
  <2>1. size.full # 0 => pBuffer[HiiSize] = <<"full", post>>
    BY <1>1, <1>2, <1>4, Areas, HeaderOf DEF BufferInv
  <2> QED
    BY <1>2, <1>3, <1>4, <2>1, Areas, LengthsOf
<1>7. size.full = 0 /\ size.hii <= HiiSize => n = 1 /\ pBuffer[HiiSize] = Zero
  <2>1. ASSUME size.full = 0, size.hii <= HiiSize PROVE pBuffer[HiiSize] = Zero
    <3>1. /\ HiiSize \in Pos /\ HiiSize < Total
          /\ HiiSize \notin Blocks("full", size.full) /\ HiiSize \notin Blocks("hii", size.hii)
          /\ HiiSize \notin Blocks("cfg", size.cfg)
      BY <1>2, <1>4, <2>1, Areas, BlocksOf
    <3> QED
      BY <1>1, <3>1 DEF BufferInv
  <2> QED
    BY <1>3, <1>4, <2>1, Areas, LengthsOf
<1>8. SmramFull'
  <2>1. \A p \in Blocks("full", size.full) : pBuffer[p] = <<"full", post>>
    BY <1>1 DEF BufferInv, Blocks
  <2>2. \A p \in Blocks("full", size.full) : smram'[p] = <<"full", post>>
    <3>1. CASE size.full = 0
      BY <1>4, <3>1, HeaderOf
    <3>2. CASE size.full # 0
      BY <1>1, <1>3, <1>6, <2>1, <3>2 DEF Copied, Blocks
    <3> QED
      BY <3>1, <3>2
  <2>3. size.full = 0 /\ size.hii <= HiiSize => smram'[HiiSize] = Zero
    BY <1>1, <1>3, <1>4, <1>7, Areas, HeaderOf DEF Copied
  <2> QED
    BY <1>1, <2>2, <2>3 DEF SmramFull
<1>9. SmramHii'
  <2>1. \A p \in Pos : p < HiiSize => smram'[p] = smram[p]
    BY <1>3, <1>5, BlocksOf, Areas DEF Copied
  <2>2. \A p \in Blocks("hii", size.hii) : p \in Pos
    BY DEF Blocks
  <2>3. 0 \in Pos /\ 0 < HiiSize
    BY DEF Pos, Total
  <2> QED
    BY <1>1, <2>1, <2>2, <2>3 DEF SmramHii, SmramInv
<1>10. SmramCfg'
  <2>1. ASSUME HiiContained, NEW p \in Pos, HiiSize + FullSize <= p
        PROVE  smram'[p] = smram[p]
    <3>1. n <= FullSize
      BY <1>2, <1>6, <1>7, <2>1 DEF HiiContained
    <3>2. p \notin Blocks("full", n)
      BY <1>5, <2>1, <3>1, BlocksOf, Areas
    <3> QED
      BY <1>3, <3>2 DEF Copied
  <2>2. HiiContained' <=> HiiContained
    BY <1>1 DEF HiiContained
  <2>3. \A p \in Blocks("cfg", size.cfg) : p \in Pos /\ HiiSize + FullSize <= p
    BY <1>2, BlocksOf
  <2>4. Offset("cfg") \in Pos /\ HiiSize + FullSize <= Offset("cfg")
    BY <1>4, Areas
  <2> QED
    BY <1>1, <2>1, <2>2, <2>3, <2>4 DEF SmramCfg, SmramInv
<1> QED
  BY <1>8, <1>9, <1>10 DEF SmramInv

\* The SMRAM holds the files that were copied so far.
LEMMA SmramStep ==
  ASSUME TypeOK, BufferInv, CellsInv, SmramInv, [Next]_vars
  PROVE  SmramInv'
<1> USE StepCount, StepAt, Kinds
<1>0. pc \in 0..14
  BY DEF TypeOK
<1>1. ASSUME NEW s \in Sizes, NEW ctl \in {0, 1}, InitSmcInBand(s, ctl)
      PROVE  SmramInv'
  BY <1>1 DEF InitSmcInBand, SmramInv, SmramCfg, SmramHii, SmramFull
<1>2. ASSUME NEW k \in Kind, Combine(k)
      PROVE  SmramInv'
  BY <1>0, <1>2, SmramKept DEF Combine
<1>3. ASSUME CombineSmbios
      PROVE  SmramInv'
  BY <1>0, <1>3, SmramKept DEF CombineSmbios
<1>4. ASSUME NEW k \in Kind, SaveAddress(k)
      PROVE  SmramInv'
  BY <1>0, <1>4, SmramKept DEF SaveAddress
<1>5. ASSUME NEW k \in Kind, NoSmm(k)
      PROVE  SmramInv'
  BY <1>0, <1>5, SmramKept DEF NoSmm
<1>6. ASSUME NEW k \in Kind, SmcInBandSwSmiE8Handler(k)
      PROVE  SmramInv'
  BY <1>6, SmramCfgCopied, SmramHiiCopied, SmramFullCopied
<1>7. ASSUME NEW k \in Kind, UploadToBMC(k)
      PROVE  SmramInv'
  BY <1>0, <1>7, SmramKept DEF UploadToBMC
<1>8. ASSUME NEW k \in Kind, UploadDataToRAM(k)
      PROVE  SmramInv'
  BY <1>0, <1>8, SmramKept DEF UploadDataToRAM
<1>9. ASSUME NEW n \in 0..MaxSize, UploadOtherToRAM(n)
      PROVE  SmramInv'
  BY <1>0, <1>9, SmramKept DEF UploadOtherToRAM
<1>10. CASE UNCHANGED vars
  BY <1>10, SmramKept DEF vars
<1> QED
  BY <1>1, <1>2, <1>3, <1>4, <1>5, <1>6, <1>7, <1>8, <1>9, <1>10 DEF Next, ReadyToBoot

\* When all files are combined, a file that has its room is complete in pBuffer, and
\* its header is there only if there is a file.
LEMMA Complete ==
  ASSUME TypeOK, BufferInv, pc > 6, NEW k \in Kind, Room(k)
  PROVE  /\ \A p \in Blocks(k, size[k]) : pBuffer[p] = <<k, post>>
         /\ size[k] = 0 => pBuffer[Offset(k)] # <<k, post>>
<1> USE InBandDataAssumption, InBandDataBoundsAssumption
<1>1. /\ pc \in 7..14 /\ size.hii \in Nat /\ size.full \in 0..FullSize /\ size.cfg \in Nat
      /\ size["hii"] = size.hii /\ size["full"] = size.full /\ size["cfg"] = size.cfg
  BY SizeType, StepCount DEF TypeOK, Sizes
<1>2. \A p \in Blocks(k, size[k]) : pBuffer[p] = <<k, post>>
  <2> SUFFICES ASSUME NEW p \in Blocks(k, size[k]) PROVE pBuffer[p] = <<k, post>>
    OBVIOUS
  <2>0. p \in Pos /\ p \in Nat
    BY Areas DEF Blocks
  <2>1. CASE k = "hii"
    <3>1. p \notin Blocks("full", size.full)
      BY <1>1, <2>0, <2>1, BlocksOf DEF Room
    <3> QED
      BY <1>1, <2>0, <2>1, <3>1 DEF BufferInv
  <2>2. CASE k = "full"
    BY <1>1, <2>0, <2>2 DEF BufferInv
  <2>3. CASE k = "cfg"
    <3>1. p \notin Blocks("full", size.full) /\ p \notin Blocks("hii", size.hii)
      BY <1>1, <2>0, <2>3, BlocksOf DEF Room
    <3> QED
      BY <1>1, <2>0, <2>3, <3>1 DEF BufferInv
  <2> QED
    BY <2>1, <2>2, <2>3, Kinds
<1>3. ASSUME size[k] = 0 PROVE pBuffer[Offset(k)] # <<k, post>>
  <2>1. Offset(k) \in Pos /\ Offset(k) \notin Blocks(k, size[k])
    BY <1>3, Areas, HeaderOf
  <2>2. pBuffer[Offset(k)] \in {<<j, post>> : j \in Kind \ {k}} \cup {Zero, Junk}
    <3>1. CASE k = "hii"
      BY <1>1, <2>1, <3>1 DEF BufferInv, Kind
    <3>2. CASE k = "full"
      BY <1>1, <2>1, <3>2 DEF BufferInv, Kind
    <3>3. CASE k = "cfg"
      BY <1>1, <2>1, <3>3 DEF BufferInv, Kind
    <3> QED
      BY <3>1, <3>2, <3>3, Kinds
  <2> QED
    BY <2>2, Distinct
<1> QED
  BY <1>2, <1>3

\* A file that is complete in a memory is what is extracted from it.
LEMMA Extracted ==
  ASSUME NEW mem, NEW k \in Kind, \A p \in Blocks(k, size[k]) : mem[p] = <<k, post>>
  PROVE  Extract(mem, k, size[k]) = File(k)
BY DEF Extract, File

\* A file of no blocks is all zeros.
LEMMA NoFile ==
  ASSUME NEW k \in Kind, size[k] = 0
  PROVE  File(k) = All(Zero)
BY HeaderOf DEF File, All

\* A step that is no upload neither finds a file nor ends an upload.
LEMMA FoundKept ==
  ASSUME FoundInv, UNCHANGED <<found, size, post, smm>>, pc \in Nat, pc' \in Nat,
         (pc > 11 <=> pc' > 11), (pc > 12 <=> pc' > 12), (pc > 13 <=> pc' > 13)
  PROVE  FoundInv'
BY DEF FoundInv, Room, Uploaded, File

\* An upload finds the complete file, or leaves zeros when there is none.
LEMMA FoundUpload ==
  ASSUME TypeOK, BufferInv, CellsInv, FoundInv, NEW k \in Kind, UploadToBMC(k)
  PROVE  FoundInv'
<1>1. /\ UNCHANGED <<size, post, smm>> /\ pc > 6 /\ pc' = pc + 1 /\ pc \in 11..13
      /\ smm = 1 => cells = "pBuffer"
      /\ k = "cfg" => pc = 11
      /\ k = "hii" => pc = 12
      /\ k = "full" => pc = 13
  BY StepAt, Kinds DEF UploadToBMC, CellsInv
<1>2. \A j \in Kind : (Room(j)' <=> Room(j)) /\ File(j)' = File(j)
  BY <1>1 DEF Room, File
<1>3. ASSUME smm = 1, NEW j \in Kind, j # k, Room(j), found'[j] # All(Zero) \/ Uploaded(j)'
      PROVE  found'[j] = File(j)
  <2>1. found'[j] = found[j]
    BY <1>3 DEF UploadToBMC, TypeOK
  <2>2. Uploaded(j)' <=> Uploaded(j)
    <3>1. CASE j = "hii"
      BY <1>1, <1>3, <3>1, Kinds DEF Uploaded
    <3>2. CASE j = "full"
      BY <1>1, <1>3, <3>2, Kinds DEF Uploaded
    <3>3. CASE j = "cfg"
      BY <1>1, <1>3, <3>3, Kinds DEF Uploaded
    <3> QED
      BY <3>1, <3>2, <3>3, Kinds
  <2> QED
    BY <1>3, <2>1, <2>2 DEF FoundInv
<1>4. ASSUME smm = 1, Room(k)
      PROVE  found'[k] = File(k)
  <2>1. CASE pBuffer[Offset(k)] = <<k, post>>
    <3>1. found' = [found EXCEPT ![k] = Extract(pBuffer, k, size[k])]
      BY <1>1, <1>4, <2>1 DEF UploadToBMC
    <3>2. Extract(pBuffer, k, size[k]) = File(k)
      BY <1>1, <1>4, Complete, Extracted
    <3> QED
      BY <3>1, <3>2 DEF TypeOK
  <2>2. CASE pBuffer[Offset(k)] # <<k, post>>
    <3>1. found' = found
      BY <1>1, <1>4, <2>2 DEF UploadToBMC
    <3>2. size[k] = 0
      BY <1>1, <1>4, <2>2, Complete, HeaderOf, SizeType DEF TypeOK
    <3>3. found[k] # All(Zero) => found[k] = File(k)
      BY <1>4 DEF FoundInv
    <3> QED
      BY <3>1, <3>2, <3>3, NoFile
  <2> QED
    BY <2>1, <2>2
<1> QED
  BY <1>1, <1>2, <1>3, <1>4 DEF FoundInv

\* What the uploads have found is complete.
LEMMA FoundStep ==
  ASSUME TypeOK, BufferInv, CellsInv, FoundInv, [Next]_vars
  PROVE  FoundInv'
<1> USE StepCount, StepAt, Kinds
<1>0. pc \in 0..14
  BY DEF TypeOK
<1>1. ASSUME NEW s \in Sizes, NEW ctl \in {0, 1}, InitSmcInBand(s, ctl)
      PROVE  FoundInv'
  <2>1. pc' = 1 /\ \A k \in Kind : found'[k] = All(Zero)
    BY <1>1 DEF InitSmcInBand
  <2>2. \A k \in Kind : ~Uploaded(k)'
    BY <2>1 DEF Uploaded
  <2> QED
    BY <2>1, <2>2 DEF FoundInv, All
<1>2. ASSUME NEW k \in Kind, Combine(k)
      PROVE  FoundInv'
  BY <1>0, <1>2, FoundKept DEF Combine
<1>3. ASSUME CombineSmbios
      PROVE  FoundInv'
  BY <1>0, <1>3, FoundKept DEF CombineSmbios
<1>4. ASSUME NEW k \in Kind, SaveAddress(k)
      PROVE  FoundInv'
  BY <1>0, <1>4, FoundKept DEF SaveAddress
<1>5. ASSUME NEW k \in Kind, NoSmm(k)
      PROVE  FoundInv'
  BY <1>0, <1>5, FoundKept DEF NoSmm
<1>6. ASSUME NEW k \in Kind, SmcInBandSwSmiE8Handler(k)
      PROVE  FoundInv'
  BY <1>0, <1>6, FoundKept DEF SmcInBandSwSmiE8Handler
<1>7. ASSUME NEW k \in Kind, UploadToBMC(k)
      PROVE  FoundInv'
  BY <1>7, FoundUpload
<1>8. ASSUME NEW k \in Kind, UploadDataToRAM(k)
      PROVE  FoundInv'
  BY <1>0, <1>8, FoundKept DEF UploadDataToRAM
<1>9. ASSUME NEW n \in 0..MaxSize, UploadOtherToRAM(n)
      PROVE  FoundInv'
  BY <1>0, <1>9, FoundKept DEF UploadOtherToRAM
<1>10. CASE UNCHANGED vars
  BY <1>0, <1>10, FoundKept DEF vars
<1> QED
  BY <1>1, <1>2, <1>3, <1>4, <1>5, <1>6, <1>7, <1>8, <1>9, <1>10 DEF Next, ReadyToBoot

\* Nothing but an answer to a tool and a new POST changes what was answered.
LEMMA RepliesKept ==
  ASSUME RepliesIntact, UNCHANGED <<reply, size, post>>
  PROVE  RepliesIntact'
BY DEF RepliesIntact, HiiContained, File

\* A tool that is told of a success has got the file: it is not larger than the
\* tool's buffer, hence not larger than the area of the HII data.
LEMMA RepliesUpload ==
  ASSUME TypeOK, SmramInv, NEW k \in Kind, UploadDataToRAM(k)
  PROVE  RepliesIntact'
<1> USE InBandDataAssumption, InBandDataBoundsAssumption
<1>1. pc = 14 /\ smm = 1 /\ UNCHANGED <<size, post>>
  BY StepCount DEF UploadDataToRAM
<1>2. /\ size.hii \in Nat /\ size.full \in 0..FullSize /\ size.cfg \in Nat
      /\ size["hii"] = size.hii /\ size["full"] = size.full /\ size["cfg"] = size.cfg
  BY SizeType DEF TypeOK, Sizes
<1>3. PICK n \in Lengths(smram, k) :
        reply' = [kind |-> k, status |-> ReturnStatus(n), total |-> n,
                  data |-> Extract(smram, k, n)]
  BY DEF UploadDataToRAM
<1>4. n \in Nat
  BY <1>3, LengthType DEF TypeOK
<1>5. SUFFICES ASSUME n <= CommSize,
                      HiiContained \/ k = "hii" \/ (k = "full" /\ size.full > 0)
               PROVE  Extract(smram, k, n) = File(k)
  <2>1. reply'.kind = k /\ reply'.data = Extract(smram, k, n)
    BY <1>3
  <2>2. reply'.status = 0 => n <= CommSize
    BY <1>3, <1>4 DEF ReturnStatus
  <2>3. HiiContained' <=> HiiContained
    BY <1>1 DEF HiiContained
  <2>4. \A j \in Kind : File(j)' = File(j)
    BY <1>1 DEF File
  <2> QED
    BY <1>1, <2>1, <2>2, <2>3, <2>4 DEF RepliesIntact
<1>6. ASSUME size[k] # 0, \A p \in Blocks(k, size[k]) : p < Offset(k) + CommSize => smram[p] = <<k, post>>
      PROVE  Extract(smram, k, n) = File(k)
  <2>1. Offset(k) \in Blocks(k, size[k]) /\ Offset(k) \in Nat
    BY <1>6, HeaderOf, SizeType, Areas DEF TypeOK
  <2>2. smram[Offset(k)] = <<k, post>>
    BY <1>6, <2>1
  <2>3. n = size[k]
    BY <1>3, <2>2, LengthsOf
  <2>4. \A p \in Blocks(k, size[k]) : p < Offset(k) + CommSize
    BY <1>4, <1>5, <2>1, <2>3, Areas DEF Blocks
  <2> QED
    BY <1>6, <2>3, <2>4, Extracted
<1>7. ASSUME size[k] = 0, smram[Offset(k)] = Zero
      PROVE  Extract(smram, k, n) = File(k)
  <2>1. n = 1
    BY <1>3, <1>7, LengthsOf
  <2>2. \A p \in Blocks(k, 1) : p = Offset(k)
    <3>1. Offset(k) \in Nat /\ \A p \in Pos : p \in Nat
      BY Areas
    <3> QED
      BY <3>1 DEF Blocks
  <2>3. Extract(smram, k, n) = All(Zero)
    BY <1>7, <2>1, <2>2 DEF Extract, All
  <2> QED
    BY <1>7, <2>3, NoFile
<1>8. CASE k = "hii"
  <2>1. \A p \in Blocks("hii", size.hii) : p < HiiSize => smram[p] = <<"hii", post>>
    BY <1>1 DEF SmramInv, SmramHii
  <2>2. size.hii = 0 => smram[0] = Zero
    BY <1>1 DEF SmramInv, SmramHii
  <2>3. \A p \in Blocks("hii", size.hii) : p < CommSize => p < HiiSize
    BY Areas DEF Blocks
  <2> QED
    BY <1>2, <1>6, <1>7, <1>8, <2>1, <2>2, <2>3, Areas
<1>9. CASE k = "full"
  <2>1. \A p \in Blocks("full", size.full) : smram[p] = <<"full", post>>
    BY <1>1 DEF SmramInv, SmramFull
  <2>2. size.full = 0 => smram[HiiSize] = Zero
    BY <1>1, <1>2, <1>5, <1>9 DEF SmramInv, SmramFull, HiiContained
  <2> QED
    BY <1>2, <1>6, <1>7, <1>9, <2>1, <2>2, Areas
<1>10. CASE k = "cfg"
  <2>1. \A p \in Blocks("cfg", size.cfg) : smram[p] = <<"cfg", post>>
    BY <1>1, <1>5, <1>10 DEF SmramInv, SmramCfg
  <2>2. size.cfg = 0 => smram[Offset("cfg")] = Zero
    BY <1>1, <1>5, <1>10 DEF SmramInv, SmramCfg
  <2> QED
    BY <1>2, <1>6, <1>7, <1>10, <2>1, <2>2
<1> QED
  BY <1>8, <1>9, <1>10, Kinds

\* No step makes an answer wrong.
LEMMA RepliesStep ==
  ASSUME TypeOK, SmramInv, RepliesIntact, [Next]_vars
  PROVE  RepliesIntact'
<1>1. ASSUME NEW s \in Sizes, NEW ctl \in {0, 1}, InitSmcInBand(s, ctl)
      PROVE  RepliesIntact'
  BY <1>1, Kinds DEF InitSmcInBand, RepliesIntact, NoReply
<1>2. ASSUME NEW k \in Kind, Combine(k)
      PROVE  RepliesIntact'
  BY <1>2, RepliesKept DEF Combine
<1>3. ASSUME CombineSmbios
      PROVE  RepliesIntact'
  BY <1>3, RepliesKept DEF CombineSmbios
<1>4. ASSUME NEW k \in Kind, SaveAddress(k)
      PROVE  RepliesIntact'
  BY <1>4, RepliesKept DEF SaveAddress
<1>5. ASSUME NEW k \in Kind, NoSmm(k)
      PROVE  RepliesIntact'
  BY <1>5, RepliesKept DEF NoSmm
<1>6. ASSUME NEW k \in Kind, SmcInBandSwSmiE8Handler(k)
      PROVE  RepliesIntact'
  BY <1>6, RepliesKept DEF SmcInBandSwSmiE8Handler
<1>7. ASSUME NEW k \in Kind, UploadToBMC(k)
      PROVE  RepliesIntact'
  BY <1>7, RepliesKept DEF UploadToBMC
<1>8. ASSUME NEW k \in Kind, UploadDataToRAM(k)
      PROVE  RepliesIntact'
  BY <1>8, RepliesUpload
<1>9. ASSUME NEW n \in 0..MaxSize, UploadOtherToRAM(n)
      PROVE  RepliesIntact'
  <2>1. reply'.kind = "other"
    BY <1>9 DEF UploadOtherToRAM
  <2>2. "other" \notin Kind
    BY DEF Kind
  <2> QED
    BY <2>1, <2>2 DEF RepliesIntact
<1>10. CASE UNCHANGED vars
  BY <1>10, RepliesKept DEF vars
<1> QED
  BY <1>1, <1>2, <1>3, <1>4, <1>5, <1>6, <1>7, <1>8, <1>9, <1>10 DEF Next, ReadyToBoot

-----------------------------------------------------------------------------
(* The theorems.                                                           *)

\* The invariant holds before the first POST.
LEMMA InitIInv == Init => IInv
<1> SUFFICES ASSUME Init PROVE IInv
  OBVIOUS
<1> USE InBandDataAssumption, InBandDataBoundsAssumption
<1>1. TypeOK
  <2>1. All(Zero) \in Memory /\ All(Junk) \in Memory
    BY Contents DEF All, Memory
  <2>2. NoReply \in Reply
    BY <2>1 DEF NoReply, Reply
  <2> QED
    BY <2>1, <2>2, StepCount DEF Init, TypeOK, Sizes, Off
<1>2. PostInv /\ BufferInv /\ CellsInv /\ SmramCfg /\ SmramHii /\ SmramFull
  BY DEF Init, Off, PostInv, BufferInv, CellsInv, SmramCfg, SmramHii, SmramFull
<1>3. FoundInv
  BY DEF Init, Off, FoundInv, Uploaded
<1>4. RepliesIntact
  BY DEF Init, RepliesIntact, NoReply, Kind
<1> QED
  BY <1>1, <1>2, <1>3, <1>4 DEF IInv

\* The inductive invariant: where the files of the POST lie in pBuffer and in the
\* SMRAM at each step of SmcInBandReadyToBoot.
THEOREM Invariance == Spec => []IInv
<1>1. ASSUME IInv, [Next]_vars PROVE IInv'
  BY <1>1, TypeStep, BufferStep, CellsStep, SmramStep, FoundStep, RepliesStep DEF IInv, SmramInv
<1> QED
  BY <1>1, InitIInv, PTL DEF Spec

\* Type correctness: the SMI handlers return only the three status codes that the
\* tools know.
THEOREM TypeCorrect == Spec => []TypeOK
<1>1. IInv => TypeOK
  BY DEF IInv
<1> QED
  BY <1>1, Invariance, PTL

\* A tool of the OS to which UploadDataToRAM reports success has the complete file
\* of this POST, for all sizes of areas, files and the tool's buffer.
THEOREM AnswersAreComplete == Spec => []RepliesIntact
<1>1. IInv => RepliesIntact
  BY DEF IInv
<1> QED
  BY <1>1, Invariance, PTL

\* The uploads to the BMC find the complete files of this POST through the cells of
\* the CMOS, for all sizes.
THEOREM UploadsAreComplete == Spec => []UploadsIntact
<1>1. ASSUME IInv PROVE UploadsIntact
  <2>1. pc = Os => \A k \in Kind : Uploaded(k)
    BY StepCount, Kinds DEF Uploaded
  <2> QED
    BY <1>1, <2>1 DEF IInv, FoundInv, Room, UploadsIntact
<1> QED
  BY <1>1, Invariance, PTL
=============================================================================
