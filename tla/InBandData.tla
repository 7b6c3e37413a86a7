----------------------------- MODULE InBandData -----------------------------
(***************************************************************************)
(* SmcInBandReadyToBoot and the software SMIs: the BIOS configuration, the *)
(* HII data and the full SMBIOS table are combined one behind the other in *)
(* one buffer, pBuffer. SMI 0xE8 copies each file to the same place of the *)
(* SMRAM, from where SMI 0xE6 gives it to tools of the OS; the upload to   *)
(* the BMC reads pBuffer. Both find pBuffer through four cells of the CMOS *)
(* that every ROM write uses too. Nothing but a debug message compares a   *)
(* file with its area of the buffer. Memory is counted in blocks; a file   *)
(* begins with the block of its header.                                    *)
(***************************************************************************)
EXTENDS Naturals, Sequences

CONSTANTS
  HiiSize, FullSize, CfgSize,   \* the areas of pBuffer and the SMRAM
  CommSize,       \* SMM_COMMUNICATION_BUFFER_SIZE
  MaxSize,        \* bound: the largest HII or configuration file
  MaxPost         \* bound: POSTs

Kind == {"hii", "full", "cfg"}

\* The map of the buffer and the SMRAM.
Offset(k) == CASE k = "hii"  -> 0
               [] k = "full" -> HiiSize
               [] k = "cfg"  -> HiiSize + FullSize

Total == HiiSize + FullSize + CfgSize

\* The blocks that a file may reach, those behind the buffer included.
Pos == 0 .. (Total + MaxSize)

\* The first n blocks of file k.
Blocks(k, n) == {p \in Pos : Offset(k) <= p /\ p < Offset(k) + n}

ASSUME InBandDataAssumption ==
  /\ HiiSize \in Nat \ {0} /\ FullSize \in Nat \ {0} /\ CfgSize \in Nat \ {0}
  /\ CommSize \in Nat \ {0} /\ CommSize <= HiiSize

ASSUME InBandDataBoundsAssumption == MaxSize \in Nat \ {0} /\ MaxPost \in Nat

VARIABLES
  pc,             \* the next step of SmcInBandReadyToBoot and the uploads
  post,           \* history: the number of this POST
  size,           \* the files of this POST: their blocks, 0 for no file
  smm,            \* 1 when SmmControl2 is found in this POST
  cells,          \* CMOS: the address of pBuffer, of a header on the stack, or old
  pBuffer, smram, \* what each block holds
  reply,          \* the last answer of SMI 0xE6 to a tool
  found           \* what the upload of each file has found, zeros if it was skipped

vars == <<pc, post, size, smm, cells, pBuffer, smram, reply, found>>

\* SmcInBandReadyToBoot, then UploadOobDataToBmc.
Steps ==
  << <<"combine", "cfg">>, <<"cells", "cfg">>, <<"smi", "cfg">>, <<"smbios", "rom">>,
     <<"combine", "hii">>, <<"combine", "full">>, <<"cells", "hii">>, <<"smi", "hii">>,
     <<"cells", "full">>, <<"smi", "full">>, <<"upload", "cfg">>, <<"upload", "hii">>,
     <<"upload", "full">> >>

Off == 0
Os  == Len(Steps) + 1

At(op, k) == pc \in 1..Len(Steps) /\ Steps[pc] = <<op, k>>

\* The block of a file of a POST; zeros; what was never written.
Zero == <<"zero", 0>>
Junk == <<"junk", 0>>

Content == (Kind \X (1..MaxPost)) \cup {Zero, Junk}

Memory == [Pos -> Content]

\* The length of the SMBIOS table is a UINT16: it fits its area.
Sizes == [hii : 0..MaxSize, full : 0..FullSize, cfg : 0..MaxSize]

Reply == [kind : Kind \cup {"other"}, status : {0, 1, 3}, total : Nat, data : Memory]

TypeOK ==
  /\ pc \in 0..Os
  /\ post \in 0..MaxPost
  /\ size \in Sizes
  /\ smm \in {0, 1}
  /\ cells \in {"pBuffer", "stack", "old"}
  /\ pBuffer \in Memory /\ smram \in Memory
  /\ reply \in Reply
  /\ found \in [Kind -> Memory]

All(c) == [p \in Pos |-> c]

NoReply == [kind |-> "other", status |-> 3, total |-> 0, data |-> All(Zero)]

Init ==
  /\ pc = Off /\ post = 0
  /\ size = [hii |-> 0, full |-> 0, cfg |-> 0]
  /\ smm = 1 /\ cells = "old"
  /\ pBuffer = All(Junk) /\ smram = All(Junk)
  /\ reply = NoReply /\ found = [k \in Kind |-> All(Zero)]

\* InitSmcInBand clears pBuffer; InitSmcInBandSmm allocates the SMRAM and does not
\* clear it. The files of the POST come from the variables, forms and tables.
InitSmcInBand(s, ctl) ==
  /\ pc \in {Off, Os} /\ post < MaxPost
  /\ post' = post + 1
  /\ size' = s /\ smm' = ctl
  /\ cells' = "old"
  /\ pBuffer' = [p \in Pos |-> IF p < Total THEN Zero ELSE Junk]
  /\ smram' = All(Junk)
  /\ reply' = NoReply /\ found' = [k \in Kind |-> All(Zero)]
  /\ pc' = 1

-----------------------------------------------------------------------------
(* SmcInBandReadyToBoot.                                                   *)

\* CombineBiosCfg, CombineHiiData and CombineFullSmBios put a file, if there is
\* one, into pBuffer.
Combine(k) ==
  /\ At("combine", k)
  /\ pBuffer' = [p \in Pos |-> IF p \in Blocks(k, size[k]) THEN <<k, post>> ELSE pBuffer[p]]
  /\ pc' = pc + 1
  /\ UNCHANGED <<post, size, smm, cells, smram, reply, found>>

\* CombineSmbios writes two regions of the ROM, or none. A write through SMI 0xE9
\* leaves the address of a header on the stack in the cells.
CombineSmbios ==
  /\ At("smbios", "rom")
  /\ \/ UNCHANGED cells
     \/ smm = 1 /\ cells' = "stack"
  /\ pc' = pc + 1
  /\ UNCHANGED <<post, size, smm, pBuffer, smram, reply, found>>

\* Mutant of SaveAddress: the address is saved only before the first SMI.
SaveAddressOnce(k) ==
  /\ At("cells", k) /\ smm = 1
  /\ cells' = IF k = "cfg" THEN "pBuffer" ELSE cells
  /\ pc' = pc + 1
  /\ UNCHANGED <<post, size, smm, pBuffer, smram, reply, found>>

SaveAddress(k) ==
  /\ At("cells", k) /\ smm = 1
  /\ cells' = "pBuffer"
  /\ pc' = pc + 1
  /\ UNCHANGED <<post, size, smm, pBuffer, smram, reply, found>>

\* No SmmControl2: neither the cells are set nor the SMI is triggered.
NoSmm(k) ==
  /\ At("cells", k) /\ smm = 0
  /\ pc' = pc + 2
  /\ UNCHANGED <<post, size, smm, cells, pBuffer, smram, reply, found>>

\* The lengths that the header of file k in mem may show, the header included.
Lengths(mem, k) ==
  CASE mem[Offset(k)] = <<k, post>> -> {size[k]}
    [] mem[Offset(k)] = Zero        -> {1}
    [] OTHER                        -> 1..(MaxSize + 1)

\* Mutant of Copied: the header is not counted.
CopiedNoHeader(k, n) ==
  [p \in Pos |-> IF p \in Blocks(k, n - 1)
                 THEN IF cells = "pBuffer" THEN pBuffer[p] ELSE Junk
                 ELSE smram[p]]

\* The SMRAM after n blocks of file k were copied from where the cells point to.
Copied(k, n) ==
  [p \in Pos |-> IF p \in Blocks(k, n)
                 THEN IF cells = "pBuffer" THEN pBuffer[p] ELSE Junk
                 ELSE smram[p]]

SmcInBandSwSmiE8Handler(k) ==
  /\ At("smi", k)
  /\ \E n \in IF cells = "pBuffer" THEN Lengths(pBuffer, k) ELSE 1..(MaxSize + 1) :
       smram' = Copied(k, n)
  /\ pc' = pc + 1
  /\ UNCHANGED <<post, size, smm, cells, pBuffer, reply, found>>

-----------------------------------------------------------------------------
(* The readers: the uploads to the BMC, and SMI 0xE6 from the OS.          *)

\* The blocks of file k in mem, when it has n blocks.
Extract(mem, k, n) == [p \in Pos |-> IF p \in Blocks(k, n) THEN mem[p] ELSE Zero]

\* UploadBiosCfgToBMC, UploadHiiToBMC and UploadFullSmBiosToBMC. A buffer without
\* the signature is skipped. What is at another address is open.
UploadToBMC(k) ==
  /\ At("upload", k)
  /\ \/ /\ cells = "pBuffer" /\ pBuffer[Offset(k)] = <<k, post>>
        /\ found' = [found EXCEPT ![k] = Extract(pBuffer, k, size[k])]
     \/ /\ cells = "pBuffer" => pBuffer[Offset(k)] # <<k, post>>
        /\ UNCHANGED found
     \/ /\ cells # "pBuffer"
        /\ found' = [found EXCEPT ![k] = All(Junk)]
  /\ pc' = pc + 1
  /\ UNCHANGED <<post, size, smm, cells, pBuffer, smram, reply>>

\* Mutant of ReturnStatus: a status that the tools do not know.
ReturnStatusUnknown(n) == IF n > CommSize THEN 1 ELSE IF n = 0 THEN 2 ELSE 0

ReturnStatus(n) == IF n > CommSize THEN 1 ELSE IF n = 0 THEN 3 ELSE 0

\* SMI 0xE6, sub-command 3, for a file in the SMRAM. The file is copied, then its
\* length is compared with the tool's buffer.
UploadDataToRAM(k) ==
  /\ pc = Os /\ smm = 1
  /\ \E n \in Lengths(smram, k) :
       reply' = [kind |-> k, status |-> ReturnStatus(n), total |-> n,
                 data |-> Extract(smram, k, n)]
  /\ UNCHANGED <<pc, post, size, smm, cells, pBuffer, smram, found>>

\* SMBIOS data from the ROM, the feature flags, or a type without data.
UploadOtherToRAM(n) ==
  /\ pc = Os /\ smm = 1
  /\ reply' = [kind |-> "other", status |-> ReturnStatus(n), total |-> n, data |-> All(Junk)]
  /\ UNCHANGED <<pc, post, size, smm, cells, pBuffer, smram, found>>

ReadyToBoot ==
  \/ CombineSmbios
  \/ \E k \in Kind : \/ Combine(k) \/ SaveAddress(k) \/ NoSmm(k)
                     \/ SmcInBandSwSmiE8Handler(k) \/ UploadToBMC(k)

Next ==
  \/ ReadyToBoot
  \/ \E s \in Sizes, ctl \in {0, 1} : InitSmcInBand(s, ctl)
  \/ \E k \in Kind : UploadDataToRAM(k)
  \/ \E n \in 0..MaxSize : UploadOtherToRAM(n)

Spec == Init /\ [][Next]_vars

-----------------------------------------------------------------------------
(* Properties.                                                             *)

\* File k of this POST, complete.
File(k) == [p \in Pos |-> IF p \in Blocks(k, size[k]) THEN <<k, post>> ELSE Zero]

\* The HII data does not run into the configuration: neither itself, nor through
\* the length that it leaves in place of the header of an absent SMBIOS table.
HiiContained == size.hii <= HiiSize + (IF size.full > 0 THEN FullSize ELSE 0)

\* A tool to which UploadDataToRAM reports success has got the complete file of
\* this POST, and blank data if the POST has none. It holds of HII data and of an
\* SMBIOS table whatever the sizes are, since a file that is larger than its area
\* is larger than the tool's buffer, and the SMIs copy in the right order.
RepliesIntact ==
  \A k \in Kind :
    reply.kind = k /\ reply.status = 0
      /\ (HiiContained \/ k = "hii" \/ (k = "full" /\ size.full > 0)) =>
      reply.data = File(k)

\* What UploadOobDataToBmc finds through the cells is the complete file of this
\* POST, though every ROM write before it has changed the cells; and when the
\* uploads are over it has found each file. Each file has room that the others do
\* not take: HII data must fit its area if there is an SMBIOS table, and may not
\* reach the configuration.
UploadsIntact ==
  smm = 1 =>
    \A k \in Kind :
      /\ k = "cfg" => size.hii <= HiiSize + FullSize
      /\ k = "hii" => size.hii <= HiiSize \/ size.full = 0
      => /\ found[k] # All(Zero) \/ pc = Os => found[k] = File(k)
=============================================================================
