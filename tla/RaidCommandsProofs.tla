-------------------------- MODULE RaidCommandsProofs --------------------------
(***************************************************************************)
(* Proofs about the RAID commands of a card: the types, that only drives   *)
(* that a delete command names are deleted, that a virtual drive is built  *)
(* exactly as its command says, what all commands together do when no row  *)
(* fails, and that no loop goes on for ever.                               *)
(*                                                                         *)
(* IInv says where the loops over commands, groups, drives and rows are    *)
(* (FlowInv), that the parsed commands stay those of the text with the     *)
(* drives of their numbers (ParsedInv), and that the drive in the delete   *)
(* form is a named one (DeleteInv). BInv adds, for each row of each table, *)
(* what was entered into the forms so far. FillInv adds that a warning is  *)
(* confirmed before it is answered, that the form lists what the card has, *)
(* and which drives were chosen. MeaningInv says which commands have had   *)
(* their effect: the recursion Effect is unfolded once for each of them.   *)
(* The last part shows that every step leaves less to do.                  *)
(***************************************************************************)
EXTENDS RaidCommands, SequenceTheorems, FiniteSetTheorems, WellFoundedInduction, TLAPS

\* The menus and the virtual drives.
Menu ==
  [sel : SUBSET Drive, spans : Seq(SUBSET Drive), level : Level, size : Size \cup {None},
   vd : Drive \cup {None}, warn : {"no", "save", "delete", "make", "unconfig"}, confirm : {0, 1}]

Virtual ==
  [cmd : Nat, spans : Seq(SUBSET Drive), level : Level, size : Size \cup {None}]

\* The variables of the driver are typed, and those of the card.
DriverInv ==
  /\ text \in Programs
  /\ pc \in {"parse", "collect", "examine", "next", "row", "choose", "done"}
  /\ cmds \in Seq(Command)
  /\ k \in 1..(Len(cmds) + 1)
  /\ table \in DOMAIN Tables
  /\ row \in 1..(Len(Tables[table]) + 1)
  /\ grp \in Nat \ {0} /\ hdd \in Nat \ {0}
  /\ chosen \in {0, 1} /\ alive \in {0, 1}
  /\ list \subseteq Drive
  /\ faults \in 0..MaxFault

CardInv ==
  /\ menu \in Menu
  /\ good \subseteq Drive /\ jbod \subseteq Drive /\ vds \subseteq OfType("RDG")
  /\ built \subseteq Virtual
  /\ \A b \in built : b.cmd \in 1..Len(cmds)

\* A command is carried out.
Handling == pc \in {"row", "choose"}

\* The tables of a command.
TablesOf(c) ==
  CASE c.specie = "B" -> IF Spanned(c) THEN {"first", "second", "third", "forth", "fifth", "clearB"}
                         ELSE {"single", "clearB"}
    [] c.specie = "D" -> {"delete", "raidRef", "clearD"}
    [] c.specie = "O" -> {c.jbod}

\* An enabled command has passed the examination.
Passed(c) == c.enable = 1 /\ ToExamine(c) => Examined(c)

\* A command that is disabled before its turn has not.
Rejected(c) == c.enable = 0 /\ ToExamine(c) => ~Examined(c)

\* Where the loops over the commands, the groups, the drives and the rows are.
FlowInv ==
  /\ pc = "parse" => cmds = <<>>
  /\ pc \in {"parse", "collect", "examine"} => k = 1 /\ built = {}
  /\ pc \in {"next", "row", "choose", "done"} =>
       \A n \in 1..Len(cmds) : Passed(cmds[n])
  /\ Handling => /\ k <= Len(cmds) /\ ToExamine(cmd) /\ Examined(cmd)
                 /\ table \in TablesOf(cmd)
                 /\ table \in {"first", "second", "third", "forth"} => grp <= Len(cmd.groups)
  /\ pc = "choose" => row <= Len(Tables[table]) /\ op = "choose"
  /\ pc = "row" /\ table = "raidRef" => hdd <= Len(cmd.groups[1])

\* Command c is that of text t, up to the names of its drives.
CommandOf(c, t) ==
  /\ c.specie = t.specie /\ c.level = t.level /\ c.size = t.size /\ c.jbod = t.jbod
  /\ Len(c.groups) = Len(ParsedGroups(t))
  /\ \A g \in 1..Len(c.groups) :
       /\ Len(c.groups[g]) = Len(ParsedGroups(t)[g])
       /\ \A h \in 1..Len(c.groups[g]) : c.groups[g][h].num = ParsedGroups(t)[g][h]

\* The drives of command c were looked up by their numbers.
LookedUp(c) ==
  \A g \in 1..Len(c.groups) : \A h \in 1..Len(c.groups[g]) :
    c.groups[g][h] = Collected(c, c.groups[g][h].num)

\* The commands are those of the text, with the drives of their numbers.
ParsedInv ==
  pc # "parse" =>
    /\ Len(cmds) = Len(Parsed)
    /\ \A n \in 1..Len(cmds) : /\ CommandOf(cmds[n], Parsed[n])
                               /\ pc # "collect" => LookedUp(cmds[n])

\* The drives that the delete commands of the text name.
NamedByDelete ==
  UNION {Named(ParsedGroups(Parsed[n])[1]) :
           n \in {m \in DOMAIN Parsed : Parsed[m].specie = "D" /\ ParsedGroups(Parsed[m]) # <<>>}}

\* The drive in the delete form, and every drive that is gone, is a named one.
DeleteInv ==
  /\ menu.vd \in NamedByDelete \cup {None}
  /\ OfType("RDG") \ vds \subseteq NamedByDelete

-----------------------------------------------------------------------------
(* The text and its commands.                                              *)

\* A non-empty set of numbers has its minimum.
LEMMA MinIn ==
  ASSUME NEW I \in SUBSET Nat, I # {}
  PROVE  Min(I) \in I /\ \A y \in I : Min(I) <= y
<1>1. PICK x \in I : \A y \in I : ~(<<y, x>> \in OpToRel(<, Nat))
  BY NatLessThanWellFounded, WFMin
<1>2. ASSUME NEW y \in I PROVE x <= y
  <2>1. <<y, x>> \notin {ss \in Nat \X Nat : ss[1] < ss[2]}
    BY <1>1, Zenon DEF OpToRel
  <2> QED
    BY <2>1
<1> QED
  BY <1>2 DEF Min

\* A function on 1..n is a sequence of its values.
LEMMA IsSequence ==
  ASSUME NEW S, NEW n \in Nat, NEW f \in [1..n -> S]
  PROVE  f \in Seq(S) /\ Len(f) = n
OBVIOUS

\* The texts with a command.
Commanding == {t \in Text : t.specie # "X"}

\* The texts that are parsed are texts with a command.
LEMMA WrittenType ==
  ASSUME text \in Seq(Text)
  PROVE  Written \in Seq(Commanding)
<1> DEFINE L == Len(text)
           S == Commanding
           Next1(r, j) == IF text[j].specie = "X" THEN r ELSE Append(r, text[j])
           Rec(f, m) == \A j \in 0..m : f[j] = IF j = 0 THEN <<>> ELSE Next1(f[j - 1], j)
           B == {m \in 0..L : ~\E f \in [0..m -> Seq(S)] : Rec(f, m)}
<1>1. L \in Nat /\ \A j \in 1..L : text[j] \in Text
  <2> HIDE DEF Text
  <2> QED OBVIOUS
<1>2. \A j \in 1..L : \A r \in Seq(S) : Next1(r, j) \in Seq(S)
  <2>1. \A j \in 1..L : text[j].specie # "X" => text[j] \in S
    BY <1>1 DEF Commanding
  <2> HIDE DEF S
  <2> QED
    BY <2>1
<1> HIDE DEF Next1, S
<1>3. B = {}
  <2> SUFFICES ASSUME B # {} PROVE FALSE
    OBVIOUS
  <2>1. B \in SUBSET Nat
    BY <1>1
  <2>2. PICK m \in B : \A y \in B : m <= y
    BY <2>1, MinIn
  <2>3. CASE m = 0
    <3>1. [j \in 0..0 |-> <<>>] \in [0..0 -> Seq(S)] /\ Rec([j \in 0..0 |-> <<>>], 0)
      OBVIOUS
    <3> QED
      BY <2>2, <2>3, <3>1
  <2>4. CASE m # 0
    <3>1. m \in 1..L /\ m - 1 \in 0..L /\ m - 1 \notin B
      <4>1. m \in 0..L
        BY <2>2
      <4> HIDE DEF B
      <4> QED
        BY <1>1, <2>2, <2>4, <4>1
    <3>2. PICK f \in [0..(m - 1) -> Seq(S)] : Rec(f, m - 1)
      BY <3>1
    <3> DEFINE e == Next1(f[m - 1], m)
               g == [j \in 0..m |-> IF j = m THEN e ELSE f[j]]
    <3>3. e \in Seq(S)
      <4>1. f[m - 1] \in Seq(S)
        BY <3>1, <3>2
      <4> QED
        BY <1>2, <3>1, <4>1
    <3>4. \A j \in 0..(m - 1) : j \in 0..m /\ j # m /\ f[j] \in Seq(S)
      <4>1. \A j \in 0..(m - 1) : j \in 0..m /\ j # m
        BY <3>1
      <4>2. \A j \in 0..(m - 1) : f[j] \in Seq(S)
        BY <3>2
      <4> QED
        BY <4>1, <4>2
    <3>5. \A j \in 0..m : j = m \/ j \in 0..(m - 1)
      BY <3>1
    <3> HIDE DEF e
    <3>6. g \in [0..m -> Seq(S)]
      BY <3>3, <3>4, <3>5
    <3>7. ASSUME NEW j \in 0..m PROVE g[j] = IF j = 0 THEN <<>> ELSE Next1(g[j - 1], j)
      <4>1. CASE j = m
        <5>1. m - 1 \in 0..m /\ m - 1 # m /\ m # 0 /\ m \in 0..m
          BY <3>1
        <5>2. g[m] = e /\ g[m - 1] = f[m - 1]
          BY <5>1
        <5> QED
          BY <4>1, <5>1, <5>2 DEF e
      <4>2. CASE j \in 0..(m - 1)
        <5>1. j # 0 => j - 1 \in 0..m /\ j - 1 # m
          BY <3>1, <4>2
        <5>2. f[j] = IF j = 0 THEN <<>> ELSE Next1(f[j - 1], j)
          BY <3>2, <4>2
        <5>3. g[j] = f[j] /\ (j # 0 => g[j - 1] = f[j - 1])
          BY <3>4, <4>2, <5>1
        <5> QED
          BY <5>2, <5>3
      <4> QED
        BY <3>5, <4>1, <4>2
    <3>8. Rec(g, m)
      BY <3>7
    <3> QED
      BY <2>2, <3>6, <3>8
  <2> QED
    BY <2>3, <2>4
<1>4. PICK f \in [0..L -> Seq(S)] : Rec(f, L)
  <2>1. L \in 0..L
    BY <1>1
  <2>2. L \notin B
    <3> HIDE DEF B
    <3> QED
      BY <1>3
  <2> QED
    BY <2>1, <2>2
<1>5. f = [j \in 0..L |-> IF j = 0 THEN <<>> ELSE Next1(f[j - 1], j)]
  BY <1>4
<1> DEFINE h == CHOOSE h : h = [j \in 0..L |-> IF j = 0 THEN <<>> ELSE Next1(h[j - 1], j)]
<1>6. h = [j \in 0..L |-> IF j = 0 THEN <<>> ELSE Next1(h[j - 1], j)]
  BY <1>5
<1>7. Written = h[L]
  BY DEF Written, Next1
<1> HIDE DEF h
<1>8. {j \in 0..L : h[j] # f[j]} = {}
  <2> DEFINE D == {j \in 0..L : h[j] # f[j]}
  <2> SUFFICES ASSUME D # {} PROVE FALSE
    OBVIOUS
  <2>1. D \in SUBSET Nat
    BY <1>1
  <2>2. PICK m \in D : \A y \in D : m <= y
    BY <2>1, MinIn
  <2>3. m \in 0..L /\ h[m] # f[m]
    BY <2>2
  <2>4. /\ h[m] = IF m = 0 THEN <<>> ELSE Next1(h[m - 1], m)
        /\ f[m] = IF m = 0 THEN <<>> ELSE Next1(f[m - 1], m)
    BY <1>5, <1>6, <2>3
  <2>5. m # 0 /\ h[m - 1] # f[m - 1]
    BY <2>3, <2>4
  <2>6. m - 1 \in D
    BY <1>1, <2>3, <2>5
  <2> HIDE DEF D
  <2> QED
    BY <2>2, <2>3, <2>6
<1>9. h[L] = f[L] /\ f[L] \in Seq(S)
  BY <1>1, <1>4, <1>8
<1> QED
  BY <1>7, <1>9 DEF S

\* A text with a command leaves sections.
LEMMA AnalysedType ==
  ASSUME NEW t \in Commanding
  PROVE  Analysed(t) \in Sections
<1> DEFINE G == [g \in 1..Len(t.groups) |-> ParseCmdGroupSub(t.groups[g])]
           R == Seq(Nat \cup {Bad})
<1>1. t.specie \in {"B", "D", "O"} /\ t.groups \in Seq(R)
  BY DEF Commanding, Text
<1>2. ASSUME NEW g \in R PROVE ParseCmdGroupSub(g) \in Seq(Nat)
  <2>1. CASE \A h \in 1..Len(g) : g[h] \in 0..254
    <3> DEFINE N == Nat \cup {Bad}
    <3>0. g \in Seq(N)
      OBVIOUS
    <3> HIDE DEF N
    <3>1. g \in [1..Len(g) -> N] /\ Len(g) \in Nat
      BY <3>0
    <3>2. \A h \in 1..Len(g) : g[h] \in Nat
      <4>1. \A x \in 0..254 : x \in Nat
        OBVIOUS
      <4> QED
        BY <2>1, <4>1, Zenon
    <3>3. g \in [1..Len(g) -> Nat]
      BY <3>1, <3>2
    <3>4. g \in Seq(Nat)
      BY <3>1, <3>3, IsSequence
    <3> QED
      BY <2>1, <3>4 DEF ParseCmdGroupSub
  <2>2. CASE ~\A h \in 1..Len(g) : g[h] \in 0..254
    BY <2>2 DEF ParseCmdGroupSub
  <2> QED
    BY <2>1, <2>2
<1>3. G \in Seq(Seq(Nat))
  <2> DEFINE S == Seq(Nat)
  <2> HIDE DEF R
  <2>1. Len(t.groups) \in Nat /\ \A g \in 1..Len(t.groups) : t.groups[g] \in R
    BY <1>1
  <2>2. G \in [1..Len(t.groups) -> S]
    BY <1>2, <2>1
  <2> HIDE DEF G, S
  <2>3. G \in Seq(S)
    BY <2>1, <2>2, IsSequence
  <2> QED
    BY <2>3 DEF S
<1>4. /\ ParseCmdRaidType(t.level) \in Nat \cup {None}
      /\ ParseCmdRaidSize(t.size) \in Size \cup {None}
      /\ ParseCmdRaidJbod(t.jbod) \in {"make", "unconfig", None}
  BY DEF ParseCmdRaidType, ParseCmdRaidSize, ParseCmdRaidJbod
<1>5. Analysed(t) = [specie |-> t.specie, groups |-> G, level |-> ParseCmdRaidType(t.level),
                     size |-> ParseCmdRaidSize(t.size), jbod |-> ParseCmdRaidJbod(t.jbod)]
  BY DEF Analysed
<1> HIDE DEF G
<1> QED
  BY <1>1, <1>3, <1>4, <1>5 DEF Sections

\* What is parsed are the sections of the texts with a command.
LEMMA ParsedType ==
  ASSUME text \in Seq(Text)
  PROVE  /\ Parsed \in Seq(Sections) /\ Len(Parsed) = Len(Written)
         /\ \A n \in 1..Len(Parsed) : Written[n] \in Commanding /\ Parsed[n] = Analysed(Written[n])
<1>1. Len(Written) \in Nat /\ \A n \in 1..Len(Written) : Written[n] \in Commanding
  <2> HIDE DEF Commanding
  <2> QED
    BY WrittenType
<1>2. Parsed \in [1..Len(Written) -> Sections]
  BY <1>1, AnalysedType DEF Parsed
<1>3. Parsed \in Seq(Sections) /\ Len(Parsed) = Len(Written)
  <2> HIDE DEF Sections
  <2> QED
    BY <1>1, <1>2, IsSequence
<1> QED
  BY <1>1, <1>3 DEF Parsed

\* Sequences of the same length with the same elements are the same.
LEMMA SameElements ==
  ASSUME NEW S, NEW T, NEW s \in Seq(S), NEW q \in Seq(T), Len(q) = Len(s),
         \A n \in 1..Len(s) : q[n] = s[n]
  PROVE  q = s
OBVIOUS

\* The groups of a text up to the first that is empty.
LEMMA GroupsOf ==
  ASSUME NEW t \in Sections
  PROVE  /\ ParsedGroups(t) \in Seq(Seq(Nat)) /\ Len(ParsedGroups(t)) \in Nat
         /\ \A g \in 1..Len(ParsedGroups(t)) :
              /\ ParsedGroups(t)[g] \in Seq(Nat) /\ ParsedGroups(t)[g] # <<>>
              /\ ParsedGroups(t)[g] = t.groups[g]
         /\ (\A g \in 1..Len(t.groups) : t.groups[g] # <<>>) => ParsedGroups(t) = t.groups
<1> DEFINE s == t.groups
           a == Append(s, <<>>)
           I == {m \in 1..Len(a) : a[m] = <<>>}
           j == Min(I)
<1>1. s \in Seq(Seq(Nat))
  BY DEF Sections
<1> HIDE DEF s
<1>2. Len(s) \in Nat /\ Len(a) = Len(s) + 1 /\ a[Len(s) + 1] = <<>>
      /\ \A m \in 1..Len(s) : a[m] = s[m] /\ s[m] \in Seq(Nat)
  BY <1>1
<1> HIDE DEF a
<1>3. Len(s) + 1 \in I /\ I \in SUBSET Nat
  BY <1>2
<1>4. j \in I /\ \A m \in I : j <= m
  <2> HIDE DEF I
  <2> QED
    BY <1>3, MinIn
<1>5. j \in 1..(Len(s) + 1)
  BY <1>2, <1>4
<1>6. SelectInSeq(a, LAMBDA g : g = <<>>) = j
  BY <1>3 DEF SelectInSeq
<1> HIDE DEF j
<1>7. ParsedGroups(t) = SubSeq(s, 1, j - 1)
  BY <1>6 DEF ParsedGroups, s, a
<1>8. j - 1 \in 0..Len(s)
  BY <1>2, <1>5
<1>9. /\ SubSeq(s, 1, j - 1) \in Seq(Seq(Nat)) /\ Len(SubSeq(s, 1, j - 1)) = j - 1
      /\ \A m \in 1..(j - 1) : SubSeq(s, 1, j - 1)[m] = s[m]
  <2> DEFINE n == j - 1
  <2>1. n \in 0..Len(s)
    BY <1>8
  <2> HIDE DEF n
  <2>2. /\ SubSeq(s, 1, n) \in Seq(Seq(Nat)) /\ Len(SubSeq(s, 1, n)) = n
        /\ \A m \in 1..n : SubSeq(s, 1, n)[m] = s[m]
    BY <1>1, <1>2, <2>1, SubSeqProperties
  <2> QED
    BY <2>2 DEF n
<1>10. ASSUME NEW m \in 1..(j - 1) PROVE s[m] \in Seq(Nat) /\ s[m] # <<>>
  <2>1. m \in 1..Len(s) /\ ~(j <= m) /\ m \in 1..Len(a)
    BY <1>2, <1>5
  <2>2. m \notin I
    BY <1>4, <2>1
  <2> QED
    BY <1>2, <2>1, <2>2
<1>11. ASSUME \A g \in 1..Len(s) : s[g] # <<>> PROVE SubSeq(s, 1, j - 1) = s
  <2>1. j \notin 1..Len(s)
    BY <1>2, <1>4, <1>11
  <2>2. j - 1 = Len(s)
    BY <1>2, <1>5, <2>1
  <2> DEFINE q == SubSeq(s, 1, j - 1)
  <2>3. q \in Seq(Seq(Nat)) /\ Len(q) = Len(s) /\ \A m \in 1..Len(s) : q[m] = s[m]
    BY <1>9, <2>2
  <2> HIDE DEF q
  <2>4. q = s
    BY <1>1, <2>3, SameElements
  <2> QED
    BY <2>4 DEF q
<1> QED
  BY <1>7, <1>8, <1>9, <1>10, <1>11 DEF s

-----------------------------------------------------------------------------
(* The commands.                                                           *)

\* What is parsed and what a delete names depend on the text alone.
LEMMA TextSame ==
  ASSUME text' = text
  PROVE  Parsed' = Parsed /\ NamedByDelete' = NamedByDelete
<1>1. Parsed' = Parsed
  BY DEF Parsed, Written
<1> QED
  BY <1>1 DEF NamedByDelete

\* A command that differs only in its enable is the same to all that is asked of it.
LEMMA Alike ==
  ASSUME NEW c, NEW e, c.specie = e.specie, c.groups = e.groups, c.level = e.level,
         c.size = e.size, c.jbod = e.jbod
  PROVE  /\ ToExamine(c) <=> ToExamine(e)
         /\ Examined(c) <=> Examined(e)
         /\ TablesOf(c) = TablesOf(e)
         /\ \A t : CommandOf(c, t) <=> CommandOf(e, t)
         /\ LookedUp(c) <=> LookedUp(e)
<1>1. ToExamine(c) <=> ToExamine(e)
  BY DEF ToExamine
<1>2. LevelOf(c) = LevelOf(e)
  BY DEF LevelOf
<1>3. Spanned(c) <=> Spanned(e)
  BY <1>2 DEF Spanned
<1>4. UsedGroups(c) = UsedGroups(e)
  BY <1>3 DEF UsedGroups
<1>5. Examined(c) <=> Examined(e)
  BY <1>4 DEF Examined, ExamineForCmdGroup
<1>6. TablesOf(c) = TablesOf(e)
  BY <1>3 DEF TablesOf
<1>7. \A t : CommandOf(c, t) <=> CommandOf(e, t)
  BY DEF CommandOf
<1>8. GetHddTypeByCmd(c) = GetHddTypeByCmd(e)
  BY DEF GetHddTypeByCmd
<1>9. \A n : Collected(c, n) = Collected(e, n)
  BY <1>8 DEF Collected
<1>10. LookedUp(c) <=> LookedUp(e)
  BY <1>9 DEF LookedUp
<1> QED
  BY <1>1, <1>5, <1>6, <1>7, <1>10

\* The drive of a number, for a command.
LEMMA CollectedType ==
  ASSUME NEW c \in Command, NEW n \in Nat
  PROVE  /\ Collected(c, n) \in Hdd /\ Collected(c, n).num = n
         /\ Collected(c, n).name # None => n \in 1..Len(Items) /\ Collected(c, n).name = Items[n].name
<1>1. Items \in Seq([name : Drive, type : Type]) /\ None \notin Drive
  BY RaidCommandsAssumption
<1>2. CASE n \in 1..Len(Items)
  <2>1. Items[n] \in [name : Drive, type : Type]
    <3> DEFINE R == [name : Drive, type : Type]
    <3>1. Items \in Seq(R)
      BY <1>1
    <3> HIDE DEF R
    <3>2. Items[n] \in R
      BY <1>2, <3>1
    <3> QED
      BY <3>2 DEF R
  <2>2. Collected(c, n) =
          [num |-> n, name |-> Items[n].name,
           type |-> IF Items[n].type = GetHddTypeByCmd(c) THEN Items[n].type ELSE None]
    BY <1>2 DEF Collected
  <2> QED
    BY <1>2, <2>1, <2>2 DEF Hdd
<1>3. CASE n \notin 1..Len(Items)
  BY <1>3 DEF Collected, Unnamed, Hdd
<1> QED
  BY <1>2, <1>3

\* A command and what it is made of.
LEMMA CommandParts ==
  ASSUME NEW c \in Command
  PROVE  /\ Len(c.groups) \in Nat /\ c.groups \in Seq(Seq(Hdd))
         /\ \A g \in 1..Len(c.groups) :
              /\ c.groups[g] \in Seq(Hdd) /\ Len(c.groups[g]) \in Nat
              /\ \A h \in 1..Len(c.groups[g]) : c.groups[g][h] \in Hdd /\ c.groups[g][h].num \in Nat
<1>1. c.groups \in Seq(Seq(Hdd))
  BY DEF Command
<1>2. \A x \in Hdd : x.num \in Nat
  BY DEF Hdd
<1> HIDE DEF Hdd
<1> QED
  BY <1>1, <1>2

\* One of the commands.
LEMMA CommandAt ==
  ASSUME NEW s \in Seq(Command), NEW n \in 1..Len(s)
  PROVE  s[n] \in Command /\ Len(s) \in Nat
<1> HIDE DEF Command
<1> QED
  OBVIOUS

\* The command of a text.
CommandFrom(t) ==
  [specie |-> t.specie,
   groups |-> [g \in 1..Len(ParsedGroups(t)) |->
     [h \in 1..Len(t.groups[g]) |-> Unnamed(t.groups[g][h])]],
   level |-> t.level, size |-> t.size, jbod |-> t.jbod, enable |-> 1]

\* It is a command, and that of the text.
LEMMA CommandFromIs ==
  ASSUME NEW t \in Sections
  PROVE  CommandFrom(t) \in Command /\ CommandOf(CommandFrom(t), t)
<1> DEFINE p == ParsedGroups(t)
           G == [g \in 1..Len(p) |-> [h \in 1..Len(t.groups[g]) |-> Unnamed(t.groups[g][h])]]
<1>1. t \in Sections /\ t.specie \in {"B", "D", "O"} /\ t.level \in Nat \cup {None}
      /\ t.size \in Size \cup {None} /\ t.jbod \in {"make", "unconfig", None}
  BY DEF Sections
<1>2. Len(p) \in Nat /\ \A g \in 1..Len(p) : p[g] \in Seq(Nat) /\ p[g] = t.groups[g]
  <2> HIDE DEF Sections
  <2> QED
    BY <1>1, GroupsOf
<1>3. \A n \in Nat : Unnamed(n) \in Hdd /\ Unnamed(n).num = n
  BY DEF Unnamed, Hdd
<1> HIDE DEF p
<1>4. ASSUME NEW g \in 1..Len(p)
      PROVE  /\ G[g] \in Seq(Hdd) /\ Len(G[g]) = Len(p[g])
             /\ \A h \in 1..Len(p[g]) : G[g][h].num = p[g][h]
  <2> DEFINE q == p[g]
             e == [h \in 1..Len(q) |-> Unnamed(q[h])]
  <2>1. G[g] = e
    BY <1>2
  <2>2. q \in Seq(Nat)
    BY <1>2
  <2> HIDE DEF q, G
  <2>3. Len(q) \in Nat /\ \A h \in 1..Len(q) : q[h] \in Nat
    BY <2>2
  <2>4. e \in [1..Len(q) -> Hdd]
    <3> HIDE DEF Hdd
    <3> QED
      BY <1>3, <2>3
  <2>5. \A h \in 1..Len(q) : e[h].num = q[h]
    BY <1>3, <2>3
  <2> HIDE DEF e, Hdd
  <2>6. e \in Seq(Hdd) /\ Len(e) = Len(q)
    BY <2>3, <2>4, IsSequence
  <2> QED
    BY <2>1, <2>5, <2>6 DEF q
<1>5. G \in Seq(Seq(Hdd)) /\ Len(G) = Len(p)
  <2> DEFINE S == Seq(Hdd)
  <2>1. G \in [1..Len(p) -> S]
    BY <1>4
  <2> HIDE DEF G, S
  <2>2. G \in Seq(S) /\ Len(G) = Len(p)
    BY <1>2, <2>1, IsSequence
  <2> QED
    BY <2>2 DEF S
<1>6. CommandFrom(t) = [specie |-> t.specie, groups |-> G, level |-> t.level,
                        size |-> t.size, jbod |-> t.jbod, enable |-> 1]
  BY DEF CommandFrom, p
<1> HIDE DEF G
<1>7. CommandFrom(t) \in Command
  BY <1>1, <1>5, <1>6 DEF Command
<1>8. CommandFrom(t).groups = G
  BY <1>6
<1>9. CommandOf(CommandFrom(t), t)
  BY <1>4, <1>5, <1>6, <1>8 DEF CommandOf, p
<1> QED
  BY <1>7, <1>9

\* The commands are those of the text.
LEMMA ParseStep ==
  ASSUME text \in Programs, ParseRaidCfgCmdString
  PROVE  cmds' \in Seq(Command) /\ ParsedInv'
<1>1. text \in Seq(Text)
  BY RaidCommandsAssumption
<1>2. Parsed \in Seq(Sections)
  BY <1>1, ParsedType
<1>3. Parsed' = Parsed
  BY TextSame DEF ParseRaidCfgCmdString
<1>4. Len(Parsed) \in Nat /\ \A n \in 1..Len(Parsed) : Parsed[n] \in Sections
  <2> HIDE DEF Sections
  <2> QED
    BY <1>2
<1>5. cmds' = [n \in 1..Len(Parsed) |-> CommandFrom(Parsed[n])]
  BY DEF ParseRaidCfgCmdString, CommandFrom
<1>6. cmds' \in [1..Len(Parsed) -> Command]
  BY <1>4, <1>5, CommandFromIs
<1>7. cmds' \in Seq(Command) /\ Len(cmds') = Len(Parsed)
  <2> HIDE DEF Command
  <2> QED
    BY <1>4, <1>6, IsSequence
<1>8. \A n \in 1..Len(Parsed) : CommandOf(cmds'[n], Parsed[n])
  BY <1>4, <1>5, CommandFromIs
<1> QED
  BY <1>3, <1>7, <1>8 DEF ParsedInv, ParseRaidCfgCmdString

\* Command c with the names of its drives.
WithNames(c) ==
  [c EXCEPT !.groups =
     [g \in 1..Len(@) |-> [h \in 1..Len(@[g]) |-> Collected(c, @[g][h].num)]]]

\* It is the same command, with its drives looked up.
LEMMA WithNamesIs ==
  ASSUME NEW c \in Command
  PROVE  /\ WithNames(c) \in Command /\ LookedUp(WithNames(c))
         /\ \A t : CommandOf(c, t) => CommandOf(WithNames(c), t)
<1> DEFINE s == c.groups
           G == [g \in 1..Len(s) |-> [h \in 1..Len(s[g]) |-> Collected(c, s[g][h].num)]]
           e == WithNames(c)
<1>1. /\ Len(s) \in Nat
      /\ \A g \in 1..Len(s) :
           Len(s[g]) \in Nat /\ \A h \in 1..Len(s[g]) : s[g][h].num \in Nat
  <2> HIDE DEF Command
  <2> QED
    BY CommandParts
<1>2. /\ e.groups = G /\ e.specie = c.specie /\ e.level = c.level /\ e.size = c.size
      /\ e.jbod = c.jbod
  BY DEF WithNames, Command
<1>3. \A n \in Nat : Collected(c, n) \in Hdd /\ Collected(c, n).num = n
  BY CollectedType
<1>4. \A n : Collected(e, n) = Collected(c, n)
  <2>1. GetHddTypeByCmd(e) = GetHddTypeByCmd(c)
    BY <1>2 DEF GetHddTypeByCmd
  <2> QED
    BY <2>1 DEF Collected
<1>5. ASSUME NEW g \in 1..Len(s)
      PROVE  /\ G[g] \in Seq(Hdd) /\ Len(G[g]) = Len(s[g])
             /\ \A h \in 1..Len(s[g]) : /\ G[g][h] = Collected(c, s[g][h].num)
                                        /\ G[g][h].num = s[g][h].num
  <2> DEFINE q == s[g]
             f == [h \in 1..Len(q) |-> Collected(c, q[h].num)]
  <2>1. G[g] = f
    OBVIOUS
  <2>2. Len(q) \in Nat /\ \A h \in 1..Len(q) : q[h].num \in Nat
    BY <1>1
  <2> HIDE DEF q, G
  <2>3. f \in [1..Len(q) -> Hdd]
    <3> HIDE DEF Hdd
    <3> QED
      BY <1>3, <2>2
  <2>4. \A h \in 1..Len(q) : f[h] = Collected(c, q[h].num) /\ f[h].num = q[h].num
    BY <1>3, <2>2
  <2> HIDE DEF f, Hdd
  <2>5. f \in Seq(Hdd) /\ Len(f) = Len(q)
    BY <2>2, <2>3, IsSequence
  <2> QED
    BY <2>1, <2>4, <2>5 DEF q
<1>6. G \in Seq(Seq(Hdd)) /\ Len(G) = Len(s)
  <2> DEFINE S == Seq(Hdd)
  <2>1. G \in [1..Len(s) -> S]
    BY <1>5
  <2> HIDE DEF G, S
  <2>2. G \in Seq(S) /\ Len(G) = Len(s)
    BY <1>1, <2>1, IsSequence
  <2> QED
    BY <2>2 DEF S
<1>7. WithNames(c) = [c EXCEPT !.groups = G]
  BY DEF WithNames
<1> HIDE DEF G
<1>8. WithNames(c) \in Command
  BY <1>6, <1>7 DEF Command
<1> HIDE DEF e
<1>9. LookedUp(e)
  BY <1>2, <1>4, <1>5, <1>6 DEF LookedUp
<1>10. ASSUME NEW t, CommandOf(c, t) PROVE CommandOf(e, t)
  <2> DEFINE p == ParsedGroups(t)
  <2>1. /\ c.specie = t.specie /\ c.level = t.level /\ c.size = t.size /\ c.jbod = t.jbod
        /\ Len(s) = Len(p)
        /\ \A g \in 1..Len(s) : /\ Len(s[g]) = Len(p[g])
                                /\ \A h \in 1..Len(s[g]) : s[g][h].num = p[g][h]
    BY <1>10 DEF CommandOf
  <2> HIDE DEF p, s
  <2>2. \A g \in 1..Len(s) : /\ Len(G[g]) = Len(p[g])
                             /\ \A h \in 1..Len(G[g]) : G[g][h].num = p[g][h]
    BY <1>5, <2>1
  <2> QED
    BY <1>2, <1>6, <2>1, <2>2 DEF CommandOf, p
<1> QED
  BY <1>8, <1>9, <1>10 DEF e

\* The names are looked up.
LEMMA CollectStep ==
  ASSUME cmds \in Seq(Command), ParsedInv, CollectCfgCmdData
  PROVE  cmds' \in Seq(Command) /\ Len(cmds') = Len(cmds) /\ ParsedInv'
<1>1. Parsed' = Parsed
  BY TextSame DEF CollectCfgCmdData
<1>2. Len(cmds) \in Nat /\ \A n \in 1..Len(cmds) : cmds[n] \in Command
  <2> HIDE DEF Command
  <2> QED
    OBVIOUS
<1>3. cmds' = [n \in 1..Len(cmds) |-> WithNames(cmds[n])]
  BY DEF CollectCfgCmdData, WithNames
<1>4. cmds' \in [1..Len(cmds) -> Command]
  BY <1>2, <1>3, WithNamesIs
<1>5. cmds' \in Seq(Command) /\ Len(cmds') = Len(cmds)
  <2> HIDE DEF Command
  <2> QED
    BY <1>2, <1>4, IsSequence
<1>6. pc = "collect" /\ pc' = "examine"
  BY DEF CollectCfgCmdData
<1>7. Len(cmds) = Len(Parsed) /\ \A n \in 1..Len(cmds) : CommandOf(cmds[n], Parsed[n])
  BY <1>6 DEF ParsedInv
<1>8. \A n \in 1..Len(cmds) : CommandOf(cmds'[n], Parsed[n]) /\ LookedUp(cmds'[n])
  BY <1>2, <1>3, <1>7, WithNamesIs
<1> QED
  BY <1>1, <1>5, <1>6, <1>7, <1>8 DEF ParsedInv

\* Commands of the same length, each with at most another enable.
SameBut(s, r) ==
  /\ Len(s) = Len(r)
  /\ \A n \in 1..Len(r) : /\ s[n].specie = r[n].specie /\ s[n].groups = r[n].groups
                          /\ s[n].level = r[n].level /\ s[n].size = r[n].size
                          /\ s[n].jbod = r[n].jbod

\* They are still those of the text.
LEMMA SameParsed ==
  ASSUME ParsedInv, text' = text, SameBut(cmds', cmds),
         pc \notin {"parse", "collect"}, pc' \notin {"parse", "collect"}
  PROVE  ParsedInv'
<1>1. Parsed' = Parsed
  BY TextSame
<1>2. ASSUME NEW n \in 1..Len(cmds)
      PROVE  CommandOf(cmds'[n], Parsed[n]) /\ LookedUp(cmds'[n])
  <2>1. CommandOf(cmds[n], Parsed[n]) /\ LookedUp(cmds[n])
    BY DEF ParsedInv
  <2>2. /\ cmds'[n].specie = cmds[n].specie /\ cmds'[n].groups = cmds[n].groups
        /\ cmds'[n].level = cmds[n].level /\ cmds'[n].size = cmds[n].size
        /\ cmds'[n].jbod = cmds[n].jbod
    BY DEF SameBut
  <2> QED
    BY <2>1, <2>2, Alike
<1> QED
  BY <1>1, <1>2 DEF ParsedInv, SameBut

\* The commands are examined.
LEMMA ExamineStep ==
  ASSUME cmds \in Seq(Command), ExamineBasicForCmdRequire
  PROVE  /\ cmds' \in Seq(Command) /\ SameBut(cmds', cmds)
         /\ \A n \in 1..Len(cmds') : Passed(cmds'[n]) /\ Rejected(cmds'[n])
<1>1. Len(cmds) \in Nat /\ \A n \in 1..Len(cmds) : cmds[n] \in Command
  <2> HIDE DEF Command
  <2> QED
    OBVIOUS
<1> DEFINE F(n) == [cmds[n] EXCEPT !.enable = IF Enabled(n) THEN 1 ELSE 0]
<1>2. cmds' = [n \in 1..Len(cmds) |-> F(n)]
  BY DEF ExamineBasicForCmdRequire
<1>3. ASSUME NEW n \in 1..Len(cmds)
      PROVE  /\ F(n) \in Command
             /\ F(n).specie = cmds[n].specie /\ F(n).groups = cmds[n].groups
             /\ F(n).level = cmds[n].level /\ F(n).size = cmds[n].size
             /\ F(n).jbod = cmds[n].jbod
             /\ (F(n).enable = 1 => Enabled(n)) /\ (F(n).enable = 0 => ~Enabled(n))
  <2> DEFINE c == cmds[n]
             v == IF Enabled(n) THEN 1 ELSE 0
  <2>1. c \in Command /\ v \in {0, 1} /\ (v = 1 => Enabled(n)) /\ (v = 0 => ~Enabled(n))
    BY <1>1
  <2>2. F(n) = [c EXCEPT !.enable = v]
    OBVIOUS
  <2> HIDE DEF c, v, F
  <2>3. /\ F(n) \in Command /\ F(n).specie = c.specie /\ F(n).groups = c.groups
        /\ F(n).level = c.level /\ F(n).size = c.size /\ F(n).jbod = c.jbod
        /\ F(n).enable = v
    BY <2>1, <2>2 DEF Command
  <2> QED
    BY <2>1, <2>3 DEF c
<1> HIDE DEF F
<1>4. cmds' \in [1..Len(cmds) -> Command]
  BY <1>2, <1>3
<1>5. cmds' \in Seq(Command) /\ Len(cmds') = Len(cmds)
  <2> HIDE DEF Command
  <2> QED
    BY <1>1, <1>4, IsSequence
<1>6. \A n \in 1..Len(cmds) : cmds'[n] = F(n)
  BY <1>2
<1>7. SameBut(cmds', cmds)
  BY <1>3, <1>5, <1>6 DEF SameBut
<1>8. ASSUME NEW n \in 1..Len(cmds) PROVE Passed(cmds'[n]) /\ Rejected(cmds'[n])
  <2> SUFFICES ASSUME ToExamine(F(n))
               PROVE  /\ F(n).enable = 1 => Examined(F(n))
                      /\ F(n).enable = 0 => ~Examined(F(n))
    BY <1>6 DEF Passed, Rejected
  <2>1. ToExamine(cmds[n]) /\ (Examined(F(n)) <=> Examined(cmds[n]))
    BY <1>3, Alike
  <2> DEFINE I == {0} \cup {m \in 1..n : ToExamine(cmds[m])}
  <2>2. n \in I /\ \A m \in I : m <= n
    BY <1>1, <2>1
  <2>3. Max(I) = n
    <3>1. I \subseteq Nat
      BY <1>1
    <3> HIDE DEF I
    <3>2. \A x \in I : (\A y \in I : x >= y) => x = n
      BY <2>2, <3>1
    <3>3. \A y \in I : n >= y
      BY <2>2, <3>1
    <3> QED
      BY <2>2, <3>2, <3>3 DEF Max
  <2>4. n # 0
    BY <1>1
  <2>5. Enabled(n) <=> Examined(cmds[n])
    BY <2>3, <2>4 DEF Enabled
  <2> QED
    BY <1>3, <2>1, <2>5
<1> QED
  BY <1>5, <1>7, <1>8

-----------------------------------------------------------------------------
(* The tables.                                                             *)

\* The row at hand: row r of table t, with operation o and argument a.
At(t, r, o, a) == table = t /\ row = r /\ op = o /\ arg = a

\* The tables and their lengths.
LEMMA TableNames ==
  /\ DOMAIN Tables = {"single", "first", "second", "third", "forth", "fifth", "clearB",
                      "delete", "raidRef", "clearD", "make", "unconfig"}
  /\ Len(Tables["single"]) = 10 /\ Len(Tables["first"]) = 2 /\ Len(Tables["second"]) = 1
  /\ Len(Tables["third"]) = 1 /\ Len(Tables["forth"]) = 3 /\ Len(Tables["fifth"]) = 5
  /\ Len(Tables["clearB"]) = 1 /\ Len(Tables["delete"]) = 2 /\ Len(Tables["raidRef"]) = 5
  /\ Len(Tables["clearD"]) = 1 /\ Len(Tables["make"]) = 5 /\ Len(Tables["unconfig"]) = 5
BY DEF Tables

\* No table is empty.
LEMMA TableLen ==
  ASSUME NEW t \in DOMAIN Tables
  PROVE  Len(Tables[t]) \in Nat /\ Len(Tables[t]) >= 1
<1> DEFINE n == Len(Tables[t])
<1>1. n \in {1, 2, 3, 5, 10}
  BY TableNames
<1> HIDE DEF n
<1>2. n \in Nat /\ n >= 1
  BY <1>1
<1> QED
  BY <1>2 DEF n

\* The rows of the tables.
LEMMA Rows ==
  ASSUME table \in DOMAIN Tables, row \in 1..Len(Tables[table])
  PROVE  \/ At("single", 1, "enter", "create") \/ At("single", 2, "set", "level")
         \/ At("single", 3, "enter", "select") \/ At("single", 4, "choose", "hdd")
         \/ At("single", 5, "enter", "apply") \/ At("single", 6, "set", "unit")
         \/ At("single", 7, "set", "size") \/ At("single", 8, "enter", "save")
         \/ At("single", 9, "confirm", "warning") \/ At("single", 10, "press", "yes")
         \/ At("first", 1, "enter", "create") \/ At("first", 2, "set", "level")
         \/ At("second", 1, "press", "span") \/ At("third", 1, "enter", "select")
         \/ At("forth", 1, "choose", "hdd") \/ At("forth", 2, "enter", "apply")
         \/ At("forth", 3, "test", "success")
         \/ At("fifth", 1, "set", "unit") \/ At("fifth", 2, "set", "size")
         \/ At("fifth", 3, "enter", "save") \/ At("fifth", 4, "confirm", "warning")
         \/ At("fifth", 5, "press", "yes")
         \/ At("clearB", 1, "enter", "create")
         \/ At("delete", 1, "enter", "drives") \/ At("delete", 2, "choose", "hdd")
         \/ At("raidRef", 1, "enter", "drive") \/ At("raidRef", 2, "set", "delete")
         \/ At("raidRef", 3, "enter", "go") \/ At("raidRef", 4, "confirm", "warning")
         \/ At("raidRef", 5, "press", "yes")
         \/ At("clearD", 1, "enter", "drives")
         \/ At("make", 1, "enter", "make") \/ At("make", 2, "choose", "hdd")
         \/ At("make", 3, "enter", "ok") \/ At("make", 4, "confirm", "warning")
         \/ At("make", 5, "press", "yes")
         \/ At("unconfig", 1, "enter", "unconfig") \/ At("unconfig", 2, "choose", "hdd")
         \/ At("unconfig", 3, "enter", "ok") \/ At("unconfig", 4, "confirm", "warning")
         \/ At("unconfig", 5, "press", "yes")
<1>1. CASE table = "single"
  <2>1. row \in 1..10
    BY <1>1, TableNames
  <2>2. /\ Tables["single"][1] = <<"enter", "create">> /\ Tables["single"][2] = <<"set", "level">>
        /\ Tables["single"][3] = <<"enter", "select">> /\ Tables["single"][4] = <<"choose", "hdd">>
        /\ Tables["single"][5] = <<"enter", "apply">> /\ Tables["single"][6] = <<"set", "unit">>
        /\ Tables["single"][7] = <<"set", "size">> /\ Tables["single"][8] = <<"enter", "save">>
        /\ Tables["single"][9] = <<"confirm", "warning">> /\ Tables["single"][10] = <<"press", "yes">>
    BY DEF Tables, Enter, Set, Press, Choose, Confirm
  <2> QED
    BY <1>1, <2>1, <2>2 DEF At, op, arg
<1>2. CASE table \in {"first", "second", "third"}
  <2>1. table = "first" => row \in 1..2
    BY TableNames
  <2>2. table \in {"second", "third"} => row = 1
    <3> DEFINE n == Len(Tables[table])
    <3>1. table \in {"second", "third"} => n = 1
      BY TableNames
    <3>2. row \in 1..n
      OBVIOUS
    <3> HIDE DEF n
    <3> QED
      BY <3>1, <3>2
  <2>3. /\ Tables["first"][1] = <<"enter", "create">> /\ Tables["first"][2] = <<"set", "level">>
        /\ Tables["second"][1] = <<"press", "span">> /\ Tables["third"][1] = <<"enter", "select">>
    BY DEF Tables, Enter, Set, Press
  <2> QED
    BY <1>2, <2>1, <2>2, <2>3 DEF At, op, arg
<1>3. CASE table = "forth"
  <2>1. row \in 1..3
    BY <1>3, TableNames
  <2>2. /\ Tables["forth"][1] = <<"choose", "hdd">> /\ Tables["forth"][2] = <<"enter", "apply">>
        /\ Tables["forth"][3] = <<"test", "success">>
    BY DEF Tables, Enter, Choose
  <2> QED
    BY <1>3, <2>1, <2>2 DEF At, op, arg
<1>4. CASE table = "fifth"
  <2>1. row \in 1..5
    BY <1>4, TableNames
  <2>2. /\ Tables["fifth"][1] = <<"set", "unit">> /\ Tables["fifth"][2] = <<"set", "size">>
        /\ Tables["fifth"][3] = <<"enter", "save">> /\ Tables["fifth"][4] = <<"confirm", "warning">>
        /\ Tables["fifth"][5] = <<"press", "yes">>
    BY DEF Tables, Enter, Set, Press, Confirm
  <2> QED
    BY <1>4, <2>1, <2>2 DEF At, op, arg
<1>5. CASE table \in {"clearB", "clearD", "delete"}
  <2>1. table = "delete" => row \in 1..2
    BY TableNames
  <2>2. table \in {"clearB", "clearD"} => row = 1
    <3> DEFINE n == Len(Tables[table])
    <3>1. table \in {"clearB", "clearD"} => n = 1
      BY TableNames
    <3>2. row \in 1..n
      OBVIOUS
    <3> HIDE DEF n
    <3> QED
      BY <3>1, <3>2
  <2>3. /\ Tables["clearB"][1] = <<"enter", "create">> /\ Tables["clearD"][1] = <<"enter", "drives">>
        /\ Tables["delete"][1] = <<"enter", "drives">> /\ Tables["delete"][2] = <<"choose", "hdd">>
    BY DEF Tables, Enter, Choose
  <2> QED
    BY <1>5, <2>1, <2>2, <2>3 DEF At, op, arg
<1>6. CASE table = "raidRef"
  <2>1. row \in 1..5
    BY <1>6, TableNames
  <2>2. /\ Tables["raidRef"][1] = <<"enter", "drive">> /\ Tables["raidRef"][2] = <<"set", "delete">>
        /\ Tables["raidRef"][3] = <<"enter", "go">> /\ Tables["raidRef"][4] = <<"confirm", "warning">>
        /\ Tables["raidRef"][5] = <<"press", "yes">>
    BY DEF Tables, Enter, Set, Press, Confirm
  <2> QED
    BY <1>6, <2>1, <2>2 DEF At, op, arg
<1>7. CASE table = "make"
  <2>1. row \in 1..5
    BY <1>7, TableNames
  <2>2. /\ Tables["make"][1] = <<"enter", "make">> /\ Tables["make"][2] = <<"choose", "hdd">>
        /\ Tables["make"][3] = <<"enter", "ok">> /\ Tables["make"][4] = <<"confirm", "warning">>
        /\ Tables["make"][5] = <<"press", "yes">>
    BY DEF Tables, Enter, Press, Choose, Confirm
  <2> QED
    BY <1>7, <2>1, <2>2 DEF At, op, arg
<1>8. CASE table = "unconfig"
  <2>1. row \in 1..5
    BY <1>8, TableNames
  <2>2. /\ Tables["unconfig"][1] = <<"enter", "unconfig">> /\ Tables["unconfig"][2] = <<"choose", "hdd">>
        /\ Tables["unconfig"][3] = <<"enter", "ok">> /\ Tables["unconfig"][4] = <<"confirm", "warning">>
        /\ Tables["unconfig"][5] = <<"press", "yes">>
    BY DEF Tables, Enter, Press, Choose, Confirm
  <2> QED
    BY <1>8, <2>1, <2>2 DEF At, op, arg
<1> QED
  BY <1>1, <1>2, <1>3, <1>4, <1>5, <1>6, <1>7, <1>8, TableNames

\* The tables that hold the rows that need more than the menu.
LEMMA RowTables ==
  ASSUME table \in DOMAIN Tables, row \in 1..Len(Tables[table])
  PROVE  /\ arg = "ok" => table \in {"make", "unconfig"}
         /\ op = "choose" => table \in {"single", "forth", "delete", "make", "unconfig"}
         /\ op = "choose" => (table = "single" /\ row = 4) \/ (table = "forth" /\ row = 1)
                               \/ row = 2
         /\ arg = "drive" => table = "raidRef" /\ row = 1
         /\ arg = "yes" => op = "press" /\ row = Len(Tables[table])
BY Rows, TableNames DEF At

-----------------------------------------------------------------------------
(* The card.                                                               *)

\* The forms at the start, and after one is left.
LEMMA NoMenuType == NoMenu \in Menu
<1>1. 0 \in Level
  BY RaidCommandsAssumption
<1>2. <<>> \in Seq(SUBSET Drive)
  OBVIOUS
<1> QED
  BY <1>1, <1>2 DEF NoMenu, Menu

\* The drives of a type.
LEMMA OfTypeDrives == \A t : OfType(t) \subseteq Drive
BY DEF OfType, Drive

\* The drive that the row of a drive to delete enters.
Entered == cmd.groups[1][hdd].name

\* The menu after a row that was not refused, by the row.
LEMMA TouchedIs ==
  ASSUME table \in DOMAIN Tables, row \in 1..Len(Tables[table]), menu \in Menu,
         cmd \in Command, vds \subseteq Drive, ~Refused, arg # "yes"
  PROVE  /\ Touched \in Menu
         /\ Touched.vd = menu.vd \/ Touched.vd = None
              \/ (table = "raidRef" /\ row = 1 /\ Touched.vd = Entered /\ Entered \in vds)
<1> DEFINE e == Touched
<1>1. /\ menu.sel \subseteq Drive /\ menu.spans \in Seq(SUBSET Drive)
      /\ menu.level \in Level /\ menu.size \in Size \cup {None}
  BY DEF Menu
<1>2. cmd.size \in Size \cup {None}
  BY DEF Command
<1>3. Append(menu.spans, menu.sel) \in Seq(SUBSET Drive)
  BY <1>1
<1>4. CASE op = "confirm"
  BY <1>4 DEF Touched, Menu
<1>5. CASE op = "set" /\ arg = "level"
  <2>1. cmd.level \in Level \cup {None}
    BY <1>5 DEF Refused
  <2> QED
    BY <1>5, <2>1 DEF Touched, Menu
<1>6. CASE op = "set" /\ arg = "size"
  BY <1>2, <1>6 DEF Touched, Menu
<1>7. CASE op = "enter" /\ arg \in {"create", "drives", "make", "unconfig"}
  <2>1. Touched = NoMenu
    BY <1>7 DEF Touched
  <2>2. NoMenu.vd = None
    BY DEF NoMenu
  <2> QED
    BY <2>1, <2>2, NoMenuType
<1>8. CASE op = "enter" /\ arg = "select"
  BY <1>8 DEF Touched, Menu
<1>9. CASE op = "enter" /\ arg = "apply"
  <2>1. Touched = [menu EXCEPT !.spans = Append(menu.spans, menu.sel), !.sel = {}]
    BY <1>9 DEF Touched
  <2> QED
    BY <1>3, <2>1 DEF Menu
<1>10. CASE op = "enter" /\ arg = "drive"
  <2>1. table = "raidRef" /\ row = 1
    BY <1>10, RowTables
  <2>2. Entered \in vds
    BY <1>10 DEF Refused, Entered
  <2>3. Touched = [menu EXCEPT !.vd = Entered, !.confirm = 0]
    BY <1>10 DEF Touched, Entered
  <2> QED
    BY <2>1, <2>2, <2>3 DEF Menu
<1>11. CASE op = "enter" /\ arg = "save"
  BY <1>11 DEF Touched, Menu
<1>12. CASE op = "enter" /\ arg = "go"
  BY <1>12 DEF Touched, Menu
<1>13. CASE op = "enter" /\ arg = "ok"
  <2>1. table \in {"make", "unconfig"}
    BY <1>13, RowTables
  <2> QED
    BY <1>13, <2>1 DEF Touched, Menu
<1>14. CASE Touched = menu
  BY <1>14
<1> QED
  BY <1>4, <1>5, <1>6, <1>7, <1>8, <1>9, <1>10, <1>11, <1>12, <1>13, <1>14 DEF Touched

\* What the card does keeps it well typed, and deletes at most the drive of the menu.
LEMMA DoneIs ==
  ASSUME CardInv, k \in 1..Len(cmds), Done(menu)
  PROVE  /\ good' \subseteq Drive /\ jbod' \subseteq Drive /\ vds' \subseteq OfType("RDG")
         /\ built' \subseteq Virtual /\ \A b \in built' : b.cmd \in 1..Len(cmds)
         /\ vds \ {menu.vd} \subseteq vds'
<1>1. menu \in Menu
  BY DEF CardInv
<1>2. CASE menu.warn = "save"
  <2> DEFINE v == [cmd |-> k, spans |-> menu.spans, level |-> menu.level, size |-> menu.size]
  <2>1. /\ built' = built \cup {v} /\ good' \subseteq good /\ jbod' = jbod /\ vds' = vds
    BY <1>2 DEF Done
  <2>2. k \in Nat
    OBVIOUS
  <2>3. v \in Virtual /\ v.cmd = k
    BY <1>1, <2>2 DEF Menu, Virtual
  <2> HIDE DEF v
  <2> QED
    BY <2>1, <2>3 DEF CardInv
<1>3. CASE menu.warn # "save"
  <2>1. built' = built
    BY <1>1, <1>3 DEF Done, card, Menu
  <2>2. menu.sel \subseteq Drive
    BY <1>1 DEF Menu
  <2>3. vds' = vds \/ vds' = vds \ {menu.vd}
    BY <1>1, <1>3 DEF Done, card, Menu
  <2>4. good' \subseteq good \cup menu.sel /\ jbod' \subseteq jbod \cup menu.sel
    BY <1>1, <1>3 DEF Done, card, Menu
  <2> QED
    BY <2>1, <2>2, <2>3, <2>4 DEF CardInv
<1> QED
  BY <1>2, <1>3

\* A command that is handled, and its parts.
LEMMA AtCommand ==
  ASSUME DriverInv, FlowInv, Handling
  PROVE  /\ k \in 1..Len(cmds) /\ Len(cmds) \in Nat /\ cmd \in Command
         /\ ToExamine(cmd) /\ Examined(cmd) /\ table \in TablesOf(cmd)
         /\ cmd.groups # <<>> /\ Len(cmd.groups) \in Nat /\ Len(cmd.groups) >= 1
<1>1. cmds \in Seq(Command) /\ k \in 1..(Len(cmds) + 1) /\ k <= Len(cmds)
  BY DEF DriverInv, FlowInv
<1>2. Len(cmds) \in Nat
  <2> HIDE DEF Command
  <2> QED
    BY <1>1
<1>3. k \in 1..Len(cmds)
  BY <1>1, <1>2
<1>4. cmd \in Command
  BY <1>1, <1>3, CommandAt DEF cmd
<1>5. ToExamine(cmd) /\ Examined(cmd) /\ table \in TablesOf(cmd)
  BY DEF FlowInv
<1>6. cmd.groups # <<>>
  BY <1>5 DEF Examined, ExamineForCmdGroup
<1>7. cmd.groups \in Seq(Seq(Hdd))
  BY <1>4, CommandParts
<1>8. Len(cmd.groups) \in Nat /\ Len(cmd.groups) >= 1
  <2> DEFINE s == cmd.groups
             S == Seq(Hdd)
  <2>1. s \in Seq(S) /\ s # <<>>
    BY <1>6, <1>7
  <2> HIDE DEF s, S
  <2>2. Len(s) \in Nat /\ Len(s) >= 1
    BY <2>1, EmptySeq
  <2> QED
    BY <2>2 DEF s
<1> QED
  BY <1>2, <1>3, <1>4, <1>5, <1>6, <1>8

\* A drive that a delete enters is named by it.
LEMMA EnteredIsNamed ==
  ASSUME DriverInv, FlowInv, ParsedInv, pc = "row", table = "raidRef", Entered # None
  PROVE  Entered \in NamedByDelete
<1>1. /\ k \in 1..Len(cmds) /\ cmd \in Command /\ table \in TablesOf(cmd)
      /\ Len(cmd.groups) \in Nat /\ Len(cmd.groups) >= 1
  BY AtCommand DEF Handling
<1>2. cmd.specie = "D"
  <2>1. cmd.specie \in {"B", "D", "O"} /\ cmd.jbod \in {"make", "unconfig", None}
    BY <1>1 DEF Command
  <2>2. cmd.specie = "B" => table \notin TablesOf(cmd)
    BY DEF TablesOf
  <2>3. cmd.specie = "O" => table = cmd.jbod
    BY <1>1 DEF TablesOf
  <2>4. cmd.specie = "O" => cmd.jbod # None
    BY <2>1, AtCommand DEF Handling, ToExamine
  <2> QED
    BY <2>1, <2>2, <2>3, <2>4, <1>1
<1> DEFINE t == Parsed[k]
           p == ParsedGroups(t)
           n == cmd.groups[1][hdd].num
<1>3. Len(cmds) = Len(Parsed) /\ CommandOf(cmd, t) /\ LookedUp(cmd)
  BY <1>1 DEF ParsedInv, cmd
<1>4. 1 \in 1..Len(cmd.groups) /\ hdd \in 1..Len(cmd.groups[1])
  <2>1. Len(cmd.groups[1]) \in Nat
    BY <1>1, CommandParts
  <2>2. hdd <= Len(cmd.groups[1]) /\ hdd \in Nat \ {0}
    BY DEF FlowInv, DriverInv
  <2> QED
    BY <1>1, <2>1, <2>2
<1>5. /\ t.specie = "D" /\ Len(p) = Len(cmd.groups) /\ Len(p[1]) = Len(cmd.groups[1])
      /\ n = p[1][hdd] /\ cmd.groups[1][hdd] = Collected(cmd, n)
  BY <1>2, <1>3, <1>4 DEF CommandOf, LookedUp
<1>6. n \in Nat
  BY <1>1, <1>4, CommandParts
<1>7. n \in 1..Len(Items) /\ Entered = Items[n].name
  BY <1>1, <1>5, <1>6, CollectedType DEF Entered
<1>8. Parsed \in Seq(Sections)
  BY ParsedType, RaidCommandsAssumption DEF DriverInv
<1>9. k \in DOMAIN Parsed /\ t \in Sections
  <2>1. Parsed \in Seq(Sections) /\ k \in 1..Len(Parsed)
    BY <1>1, <1>3, <1>8
  <2>2. k \in DOMAIN Parsed /\ t \in Sections
    <3> HIDE DEF Sections
    <3> QED
      BY <2>1
  <2> QED
    BY <2>2 DEF Sections
<1>10. p \in Seq(Seq(Nat)) /\ p # <<>> /\ p[1] \in Seq(Nat)
  <2>1. p \in Seq(Seq(Nat)) /\ \A g \in 1..Len(p) : p[g] \in Seq(Nat)
    <3> HIDE DEF Sections
    <3> QED
      BY <1>9, GroupsOf
  <2>2. Len(p) >= 1 /\ Len(p) \in Nat
    BY <1>1, <1>5
  <2> HIDE DEF p
  <2> QED
    BY <2>1, <2>2
<1>11. n \in Range(p[1])
  <2> HIDE DEF p
  <2>1. hdd \in DOMAIN p[1]
    BY <1>4, <1>5, <1>10
  <2> QED
    BY <1>5, <2>1 DEF Range
<1>12. Entered \in Named(p[1])
  BY <1>7, <1>11 DEF Named
<1> QED
  BY <1>5, <1>9, <1>10, <1>12 DEF NamedByDelete

-----------------------------------------------------------------------------
(* The loops.                                                              *)

\* The tables of a build.
BuildTables == {"single", "first", "second", "third", "forth", "fifth", "clearB"}

\* Which command a table is for.
LEMMA WhoseTable ==
  ASSUME DriverInv, FlowInv, Handling
  PROVE  /\ cmd.specie = "B" <=> table \in BuildTables
         /\ cmd.specie = "D" <=> table \in {"delete", "raidRef", "clearD"}
         /\ cmd.specie = "O" <=> table \in {"make", "unconfig"}
         /\ table = "single" => ~Spanned(cmd)
         /\ table \in {"first", "second", "third", "forth", "fifth"} => Spanned(cmd)
<1>1. cmd \in Command /\ ToExamine(cmd) /\ table \in TablesOf(cmd)
  BY AtCommand
<1>2. cmd.specie \in {"B", "D", "O"} /\ cmd.jbod \in {"make", "unconfig", None}
  BY <1>1 DEF Command
<1>3. CASE cmd.specie = "B"
  <2>1. table \in IF Spanned(cmd) THEN {"first", "second", "third", "forth", "fifth", "clearB"}
                  ELSE {"single", "clearB"}
    BY <1>1, <1>3 DEF TablesOf
  <2> QED
    BY <1>3, <2>1 DEF BuildTables
<1>4. CASE cmd.specie = "D"
  <2>1. table \in {"delete", "raidRef", "clearD"}
    BY <1>1, <1>4 DEF TablesOf
  <2> QED
    BY <1>4, <2>1 DEF BuildTables
<1>5. CASE cmd.specie = "O"
  <2>1. table = cmd.jbod /\ cmd.jbod # None
    BY <1>1, <1>5 DEF TablesOf, ToExamine
  <2> QED
    BY <1>2, <1>5, <2>1 DEF BuildTables
<1> QED
  BY <1>2, <1>3, <1>4, <1>5

\* The row that has failed disables its command, and the clearing table follows or the
\* next command.
LEMMA FailsIs ==
  ASSUME DriverInv, FlowInv, Handling, Fails
  PROVE  /\ cmds' \in Seq(Command) /\ SameBut(cmds', cmds)
         /\ \A n \in 1..Len(cmds) : Passed(cmds'[n])
         /\ \/ /\ table \in BuildTables \ {"clearB"}
               /\ pc' = "row" /\ k' = k /\ table' = "clearB" /\ row' = 1
            \/ /\ table \in {"delete", "raidRef"}
               /\ pc' = "row" /\ k' = k /\ table' = "clearD" /\ row' = 1
            \/ /\ table \in {"clearB", "clearD", "make", "unconfig"}
               /\ pc' = "next" /\ k' = k + 1 /\ table' = table /\ row' = row
<1>1. k \in 1..Len(cmds) /\ Len(cmds) \in Nat /\ cmd \in Command
  BY AtCommand
<1>2. cmds \in Seq(Command) /\ cmds' = [cmds EXCEPT ![k].enable = 0]
  BY DEF DriverInv, Fails
<1>3. \A n \in 1..Len(cmds) : cmds[n] \in Command
  BY <1>2, CommandAt
<1> DEFINE c0 == [cmd EXCEPT !.enable = 0]
<1>4. /\ c0 \in Command /\ c0.enable = 0 /\ c0.specie = cmd.specie /\ c0.groups = cmd.groups
      /\ c0.level = cmd.level /\ c0.size = cmd.size /\ c0.jbod = cmd.jbod
  <2> DEFINE c == cmd
  <2>1. c \in Command
    BY <1>1
  <2> HIDE DEF c
  <2>2. [c EXCEPT !.enable = 0] \in Command /\ [c EXCEPT !.enable = 0].enable = 0
        /\ [c EXCEPT !.enable = 0].specie = c.specie /\ [c EXCEPT !.enable = 0].groups = c.groups
        /\ [c EXCEPT !.enable = 0].level = c.level /\ [c EXCEPT !.enable = 0].size = c.size
        /\ [c EXCEPT !.enable = 0].jbod = c.jbod
    BY <2>1 DEF Command
  <2> QED
    BY <2>2 DEF c
<1>5. cmds' = [cmds EXCEPT ![k] = c0]
  BY <1>2 DEF cmd
<1> HIDE DEF c0
<1>6. cmds' \in Seq(Command) /\ Len(cmds') = Len(cmds)
      /\ \A n \in 1..Len(cmds) : cmds'[n] = IF n = k THEN c0 ELSE cmds[n]
  <2> HIDE DEF Command
  <2> QED
    BY <1>1, <1>2, <1>4, <1>5
<1>7. SameBut(cmds', cmds)
  BY <1>4, <1>6 DEF SameBut, cmd
<1>8. \A n \in 1..Len(cmds) : Passed(cmds[n])
  BY DEF FlowInv, Handling
<1>9. \A n \in 1..Len(cmds) : Passed(cmds'[n])
  BY <1>4, <1>6, <1>8 DEF Passed
<1>10. CASE table \in BuildTables \ {"clearB"}
  BY <1>6, <1>7, <1>9, <1>10 DEF Fails, Go, BuildTables
<1>11. CASE table \in {"delete", "raidRef"}
  BY <1>6, <1>7, <1>9, <1>11 DEF Fails, Go
<1>12. CASE table \in {"clearB", "clearD", "make", "unconfig"}
  BY <1>6, <1>7, <1>9, <1>12 DEF Fails, NextCmd
<1> QED
  BY <1>10, <1>11, <1>12, TableNames DEF DriverInv, BuildTables

\* The loops after a row that has failed.
LEMMA FailsStep ==
  ASSUME DriverInv, FlowInv, ParsedInv, Handling, Fails, text' = text,
         grp' = grp, hdd' = hdd, chosen' = chosen, list' = list,
         alive' \in {0, 1}, faults' \in 0..MaxFault
  PROVE  DriverInv' /\ FlowInv' /\ ParsedInv'
<1>1. /\ k \in 1..Len(cmds) /\ Len(cmds) \in Nat /\ cmd \in Command
      /\ ToExamine(cmd) /\ Examined(cmd)
  BY AtCommand
<1>2. /\ cmds' \in Seq(Command) /\ SameBut(cmds', cmds) /\ Len(cmds') = Len(cmds)
      /\ \A n \in 1..Len(cmds) : Passed(cmds'[n])
  BY FailsIs DEF SameBut
<1>3. pc' \in {"row", "next"} /\ k' \in {k, k + 1}
  BY FailsIs
<1>4. ParsedInv'
  BY <1>2, <1>3, SameParsed DEF Handling
<1>5. DriverInv'
  <2>1. k' \in 1..(Len(cmds') + 1)
    BY <1>1, <1>2, <1>3
  <2>2. table' \in DOMAIN Tables /\ row' \in 1..(Len(Tables[table']) + 1)
    <3>1. CASE table' = table /\ row' = row
      BY <3>1 DEF DriverInv
    <3>2. CASE table' \in {"clearB", "clearD"} /\ row' = 1
      <4>1. table' \in DOMAIN Tables
        BY <3>2, TableNames
      <4>2. Len(Tables[table']) \in Nat /\ Len(Tables[table']) >= 1
        BY <4>1, TableLen
      <4> DEFINE n == Len(Tables[table'])
      <4>3. n \in Nat
        BY <4>2
      <4> HIDE DEF n
      <4>4. 1 \in 1..(n + 1)
        BY <4>3
      <4> QED
        BY <3>2, <4>1, <4>4 DEF n
    <3> QED
      BY <3>1, <3>2, FailsIs
  <2> QED
    BY <1>2, <1>3, <2>1, <2>2 DEF DriverInv
<1>6. FlowInv'
  <2>1. CASE pc' = "next"
    BY <1>2, <2>1 DEF FlowInv, Handling
  <2>2. CASE pc' = "row"
    <3>1. k' = k /\ table' \in {"clearB", "clearD"}
      BY <2>2, FailsIs
    <3>2. cmd' = cmds'[k]
      BY <3>1 DEF cmd
    <3>3. /\ cmd'.specie = cmd.specie /\ cmd'.groups = cmd.groups /\ cmd'.level = cmd.level
          /\ cmd'.size = cmd.size /\ cmd'.jbod = cmd.jbod
      BY <1>1, <1>2, <3>2 DEF SameBut, cmd
    <3>4. ToExamine(cmd') /\ Examined(cmd') /\ TablesOf(cmd') = TablesOf(cmd)
      BY <1>1, <3>3, Alike
    <3>5. table' \in TablesOf(cmd)
      <4>1. CASE table' = "clearB"
        <5>1. cmd.specie = "B"
          BY <2>2, <4>1, FailsIs, WhoseTable
        <5> QED
          BY <4>1, <5>1 DEF TablesOf
      <4>2. CASE table' = "clearD"
        <5>1. cmd.specie = "D"
          BY <2>2, <4>2, FailsIs, WhoseTable
        <5> QED
          BY <4>2, <5>1 DEF TablesOf
      <4> QED
        BY <3>1, <4>1, <4>2
    <3> QED
      BY <1>1, <1>2, <2>2, <3>1, <3>4, <3>5 DEF FlowInv, Handling
  <2> QED
    BY <1>3, <2>1, <2>2
<1> QED
  BY <1>4, <1>5, <1>6

\* The drive at hand.
LEMMA DriveAt ==
  ASSUME DriverInv, FlowInv, Handling
  PROVE  /\ table = "forth" => grp \in 1..Len(cmd.groups)
         /\ group \in Seq(Hdd) /\ Len(group) \in Nat
         /\ \A h \in 1..Len(group) : group[h] \in Hdd
         /\ hdd <= Len(group) => hdd \in 1..Len(group) /\ d \in Hdd
<1>1. cmd \in Command /\ Len(cmd.groups) \in Nat /\ Len(cmd.groups) >= 1
  BY AtCommand
<1>2. table = "forth" => grp \in 1..Len(cmd.groups)
  BY <1>1 DEF FlowInv, DriverInv
<1> DEFINE g == IF table = "forth" THEN grp ELSE 1
<1>3. g \in 1..Len(cmd.groups)
  BY <1>1, <1>2
<1>4. group = cmd.groups[g]
  BY DEF group
<1> HIDE DEF g
<1>5. group \in Seq(Hdd) /\ Len(group) \in Nat /\ \A h \in 1..Len(group) : group[h] \in Hdd
  BY <1>1, <1>3, <1>4, CommandParts
<1>6. hdd \in Nat \ {0}
  BY DEF DriverInv
<1>7. hdd <= Len(group) => hdd \in 1..Len(group)
  BY <1>5, <1>6
<1> QED
  BY <1>2, <1>5, <1>7 DEF d

\* The text and the commands stay.
LEMMA SameCommands ==
  ASSUME FlowInv, ParsedInv, text' = text, cmds' = cmds,
         pc \in {"next", "row", "choose", "done"}, pc' \in {"next", "row", "choose", "done"}
  PROVE  ParsedInv' /\ \A n \in 1..Len(cmds') : Passed(cmds'[n])
<1>1. SameBut(cmds', cmds)
  BY DEF SameBut
<1>2. ParsedInv'
  BY <1>1, SameParsed
<1> QED
  BY <1>2 DEF FlowInv

\* A table is begun.
LEMMA FirstRow ==
  ASSUME NEW t \in DOMAIN Tables
  PROVE  1 \in 1..(Len(Tables[t]) + 1)
<1> DEFINE n == Len(Tables[t])
<1>1. n \in Nat
  BY TableLen
<1> HIDE DEF n
<1>2. 1 \in 1..(n + 1)
  BY <1>1
<1> QED
  BY <1>2 DEF n

\* The row at hand is in its table, and so is the next.
LEMMA NextRow ==
  ASSUME DriverInv, row <= Len(Tables[table])
  PROVE  row \in 1..Len(Tables[table]) /\ row + 1 \in 1..(Len(Tables[table]) + 1)
<1> DEFINE n == Len(Tables[table])
<1>1. n \in Nat /\ row \in 1..(n + 1) /\ row <= n
  BY TableLen DEF DriverInv
<1> HIDE DEF n
<1>2. row \in 1..n /\ row + 1 \in 1..(n + 1)
  BY <1>1
<1> QED
  BY <1>2 DEF n

\* The steps before the first row of a command.
LEMMA BeforeStep ==
  ASSUME DriverInv, FlowInv, ParsedInv, CardInv,
         \/ ParseRaidCfgCmdString \/ CollectCfgCmdData \/ ExamineBasicForCmdRequire
         \/ SkipCmd \/ StartCmd \/ AllHandled
  PROVE  DriverInv' /\ FlowInv' /\ ParsedInv' /\ CardInv'
<1>1. cmds \in Seq(Command) /\ text \in Programs
  BY DEF DriverInv
<1>2. Len(cmds) \in Nat
  <2> HIDE DEF Command
  <2> QED
    BY <1>1
<1>3. CASE ParseRaidCfgCmdString
  <2>1. cmds' \in Seq(Command) /\ ParsedInv'
    BY <1>1, <1>3, ParseStep
  <2>2. Len(cmds') \in Nat
    <3> HIDE DEF Command
    <3> QED
      BY <2>1
  <2>3. k = 1 /\ built = {}
    BY <1>3 DEF FlowInv, ParseRaidCfgCmdString
  <2>4. 1 \in 1..(Len(cmds') + 1)
    BY <2>2
  <2>5. DriverInv'
    BY <1>3, <2>1, <2>3, <2>4 DEF DriverInv, ParseRaidCfgCmdString, control
  <2>6. FlowInv'
    BY <1>3, <2>3 DEF FlowInv, ParseRaidCfgCmdString, Handling, card
  <2>7. CardInv'
    BY <1>3, <2>3 DEF CardInv, ParseRaidCfgCmdString, card
  <2> QED
    BY <2>1, <2>5, <2>6, <2>7
<1>4. CASE CollectCfgCmdData
  <2>1. cmds' \in Seq(Command) /\ Len(cmds') = Len(cmds) /\ ParsedInv'
    BY <1>1, <1>4, CollectStep
  <2>2. k = 1 /\ built = {}
    BY <1>4 DEF FlowInv, CollectCfgCmdData
  <2>3. 1 \in 1..(Len(cmds') + 1)
    BY <1>2, <2>1
  <2>4. DriverInv'
    BY <1>4, <2>1, <2>2, <2>3 DEF DriverInv, CollectCfgCmdData, control
  <2>5. FlowInv'
    BY <1>4, <2>2 DEF FlowInv, CollectCfgCmdData, Handling, card
  <2>6. CardInv'
    BY <1>4, <2>2 DEF CardInv, CollectCfgCmdData, card
  <2> QED
    BY <2>1, <2>4, <2>5, <2>6
<1>5. CASE ExamineBasicForCmdRequire
  <2>1. /\ cmds' \in Seq(Command) /\ SameBut(cmds', cmds) /\ Len(cmds') = Len(cmds)
        /\ \A n \in 1..Len(cmds') : Passed(cmds'[n])
    BY <1>1, <1>5, ExamineStep DEF SameBut
  <2>2. k = 1 /\ built = {}
    BY <1>5 DEF FlowInv, ExamineBasicForCmdRequire
  <2>3. 1 \in 1..(Len(cmds') + 1)
    BY <1>2, <2>1
  <2>4. DriverInv'
    BY <1>5, <2>1, <2>2, <2>3 DEF DriverInv, ExamineBasicForCmdRequire, control
  <2>5. FlowInv'
    BY <1>5, <2>1, <2>2 DEF FlowInv, ExamineBasicForCmdRequire, Handling, card
  <2>6. CardInv'
    BY <1>5, <2>2 DEF CardInv, ExamineBasicForCmdRequire, card
  <2>7. ParsedInv'
    BY <1>5, <2>1, SameParsed DEF ExamineBasicForCmdRequire
  <2> QED
    BY <2>4, <2>5, <2>6, <2>7
<1>6. CASE SkipCmd
  <2>1. ParsedInv' /\ \A n \in 1..Len(cmds') : Passed(cmds'[n])
    BY <1>6, SameCommands DEF SkipCmd
  <2>2. k' \in 1..(Len(cmds') + 1)
    BY <1>2, <1>6 DEF SkipCmd, DriverInv
  <2>3. DriverInv'
    BY <1>6, <2>2 DEF DriverInv, SkipCmd, control
  <2>4. FlowInv'
    BY <1>6, <2>1 DEF FlowInv, SkipCmd, Handling
  <2>5. CardInv'
    BY <1>6 DEF CardInv, SkipCmd, card
  <2> QED
    BY <2>1, <2>3, <2>4, <2>5
<1>7. CASE StartCmd
  <2>1. ParsedInv' /\ \A n \in 1..Len(cmds') : Passed(cmds'[n])
    BY <1>7, SameCommands DEF StartCmd
  <2>2. k \in 1..Len(cmds) /\ k <= Len(cmds)
    BY <1>2, <1>7 DEF StartCmd, DriverInv
  <2>3. cmd \in Command
    BY <1>1, <2>2, CommandAt DEF cmd
  <2>4. /\ cmd.specie \in {"B", "D", "O"} /\ cmd.jbod \in {"make", "unconfig", None}
        /\ cmd.enable = 1 /\ (cmd.specie = "O" => cmd.jbod # None)
    BY <1>7, <2>3 DEF StartCmd, Idle, Command
  <2>5. ToExamine(cmd)
    BY <2>4 DEF ToExamine
  <2>6. Examined(cmd)
    <3>1. Passed(cmds[k])
      BY <1>7, <2>2 DEF FlowInv, StartCmd
    <3> QED
      BY <2>4, <2>5, <3>1 DEF Passed, cmd
  <2>7. FirstTable(cmd) \in TablesOf(cmd) /\ FirstTable(cmd) \in DOMAIN Tables
    <3>1. FirstTable(cmd) \in TablesOf(cmd)
      BY <2>4 DEF FirstTable, TablesOf
    <3>2. FirstTable(cmd) \in {"first", "single", "delete", "make", "unconfig"}
      BY <2>4 DEF FirstTable
    <3> QED
      BY <3>1, <3>2, TableNames
  <2>8. Len(cmd.groups) \in Nat /\ Len(cmd.groups) >= 1
    <3> DEFINE s == cmd.groups
               S == Seq(Hdd)
    <3>1. s \in Seq(S) /\ s # <<>>
      BY <2>3, <2>6, CommandParts DEF Examined, ExamineForCmdGroup
    <3> HIDE DEF s, S
    <3>2. Len(s) \in Nat /\ Len(s) >= 1
      BY <3>1, EmptySeq
    <3> QED
      BY <3>2 DEF s
  <2>9. DriverInv'
    <3>1. 1 \in 1..(Len(Tables[FirstTable(cmd)]) + 1)
      BY <2>7, FirstRow
    <3> QED
      BY <1>7, <2>7, <3>1 DEF DriverInv, StartCmd
  <2>10. FlowInv'
    <3>1. /\ cmd' = cmd /\ pc' = "row" /\ k' = k /\ cmds' = cmds /\ grp' = 1
          /\ table' = FirstTable(cmd)
      BY <1>7 DEF StartCmd, cmd
    <3>2. table' # "raidRef"
      BY <2>4, <3>1 DEF FirstTable
    <3> QED
      BY <2>1, <2>2, <2>5, <2>6, <2>7, <2>8, <3>1, <3>2 DEF FlowInv, Handling
  <2>11. CardInv'
    BY <1>7 DEF CardInv, StartCmd, card
  <2> QED
    BY <2>1, <2>9, <2>10, <2>11
<1>8. CASE AllHandled
  <2>1. ParsedInv' /\ \A n \in 1..Len(cmds') : Passed(cmds'[n])
    BY <1>8, SameCommands DEF AllHandled
  <2>2. DriverInv'
    BY <1>8 DEF DriverInv, AllHandled, control
  <2>3. FlowInv'
    BY <1>8, <2>1 DEF FlowInv, AllHandled, Handling
  <2>4. CardInv'
    BY <1>8 DEF CardInv, AllHandled, card
  <2> QED
    BY <2>1, <2>2, <2>3, <2>4
<1> QED
  BY <1>3, <1>4, <1>5, <1>6, <1>7, <1>8

\* A row or a drive is passed within a table.
LEMMA PassedRow ==
  ASSUME DriverInv, FlowInv, ParsedInv, Handling, text' = text, cmds' = cmds, k' = k,
         table' = table, grp' = grp, row' = row + 1, row <= Len(Tables[table]), pc' = "row",
         hdd' = hdd, chosen' \in {0, 1}, alive' \in {0, 1}, list' \subseteq Drive,
         faults' = faults, pc = "row" \/ op = "choose"
  PROVE  DriverInv' /\ FlowInv' /\ ParsedInv'
<1>1. ParsedInv' /\ \A n \in 1..Len(cmds') : Passed(cmds'[n])
  BY SameCommands DEF Handling
<1>2. row \in 1..Len(Tables[table]) /\ row + 1 \in 1..(Len(Tables[table]) + 1)
  BY NextRow
<1>3. DriverInv'
  BY <1>2 DEF DriverInv
<1>4. cmd' = cmd
  BY DEF cmd
<1>5. table = "raidRef" => pc = "row"
  <2>1. op = "choose" => table # "raidRef"
    BY <1>2, RowTables DEF DriverInv
  <2> QED
    BY <2>1 DEF Handling
<1>6. FlowInv'
  BY <1>1, <1>4, <1>5 DEF FlowInv, Handling
<1> QED
  BY <1>1, <1>3, <1>6

\* The loops after the end of a table.
LEMMA EndOfTableStep ==
  ASSUME DriverInv, FlowInv, ParsedInv, EndOfTable
  PROVE  DriverInv' /\ FlowInv' /\ ParsedInv'
<1>1. pc = "row" /\ text' = text /\ cmds' = cmds /\ chosen' = chosen /\ list' = list /\ alive' = 0
      /\ faults' = faults /\ Succeeds
  BY DEF EndOfTable
<1>2. /\ k \in 1..Len(cmds) /\ Len(cmds) \in Nat /\ cmd \in Command
      /\ ToExamine(cmd) /\ Examined(cmd) /\ table \in TablesOf(cmd)
      /\ Len(cmd.groups) \in Nat /\ Len(cmd.groups) >= 1 /\ k <= Len(cmds)
  BY <1>1, AtCommand DEF Handling
<1>3. grp \in Nat \ {0} /\ hdd \in Nat \ {0} /\ table \in DOMAIN Tables
  BY DEF DriverInv
\* The next table of the same command.
<1>4. ASSUME pc' = "row", k' = k, table' \in TablesOf(cmd) \ {"raidRef"}, table' \in DOMAIN Tables,
             row' = 1, grp' \in Nat \ {0}, hdd' = hdd,
             table' \in {"first", "second", "third", "forth"} => grp' <= Len(cmd.groups)
      PROVE  DriverInv' /\ FlowInv' /\ ParsedInv'
  <2>1. ParsedInv' /\ \A n \in 1..Len(cmds') : Passed(cmds'[n])
    BY <1>1, <1>4, SameCommands
  <2>2. 1 \in 1..(Len(Tables[table']) + 1)
    BY <1>4, FirstRow
  <2>3. DriverInv'
    BY <1>1, <1>4, <2>2 DEF DriverInv
  <2>4. cmd' = cmd
    BY <1>1, <1>4 DEF cmd
  <2>5. FlowInv'
    BY <1>1, <1>2, <1>4, <2>1, <2>4 DEF FlowInv, Handling
  <2> QED
    BY <2>1, <2>3, <2>5
<1>5. CASE table = "first"
  <2>1. pc' = "row" /\ k' = k /\ table' = "second" /\ row' = 1 /\ grp' = grp /\ hdd' = hdd
    BY <1>1, <1>5 DEF Succeeds, Go
  <2>2. "second" \in TablesOf(cmd) /\ grp <= Len(cmd.groups)
    BY <1>1, <1>5, WhoseTable DEF TablesOf, FlowInv, Handling, BuildTables
  <2> QED
    BY <1>3, <1>4, <2>1, <2>2, TableNames
<1>6. CASE table = "second"
  <2>1. pc' = "row" /\ k' = k /\ table' = "third" /\ row' = 1 /\ grp' = grp /\ hdd' = hdd
    BY <1>1, <1>6 DEF Succeeds, Go
  <2>2. "third" \in TablesOf(cmd) /\ grp <= Len(cmd.groups)
    BY <1>1, <1>6, WhoseTable DEF TablesOf, FlowInv, Handling, BuildTables
  <2> QED
    BY <1>3, <1>4, <2>1, <2>2, TableNames
<1>7. CASE table = "third"
  <2>1. pc' = "row" /\ k' = k /\ table' = "forth" /\ row' = 1 /\ grp' = grp /\ hdd' = hdd
    BY <1>1, <1>7 DEF Succeeds, Go
  <2>2. "forth" \in TablesOf(cmd) /\ grp <= Len(cmd.groups)
    BY <1>1, <1>7, WhoseTable DEF TablesOf, FlowInv, Handling, BuildTables
  <2> QED
    BY <1>3, <1>4, <2>1, <2>2, TableNames
<1>8. CASE table = "forth"
  <2>1. /\ pc' = "row" /\ k' = k /\ row' = 1 /\ grp' = grp + 1 /\ hdd' = hdd
        /\ table' = IF grp < Len(cmd.groups) THEN "second" ELSE "fifth"
    BY <1>1, <1>8 DEF Succeeds, Go
  <2>2. "second" \in TablesOf(cmd) /\ "fifth" \in TablesOf(cmd)
    BY <1>1, <1>8, WhoseTable DEF TablesOf, Handling, BuildTables
  <2>3. grp + 1 \in Nat \ {0} /\ (grp < Len(cmd.groups) => grp + 1 <= Len(cmd.groups))
    BY <1>2, <1>3
  <2> QED
    BY <1>4, <2>1, <2>2, <2>3, TableNames
<1>9. CASE table \in {"single", "fifth"}
  <2>1. pc' = "row" /\ k' = k /\ table' = "clearB" /\ row' = 1 /\ grp' = grp /\ hdd' = hdd
    BY <1>1, <1>9 DEF Succeeds, Go
  <2>2. "clearB" \in TablesOf(cmd)
    BY <1>1, <1>9, WhoseTable DEF TablesOf, Handling, BuildTables
  <2> QED
    BY <1>3, <1>4, <2>1, <2>2, TableNames
<1>10. CASE table = "delete"
  <2>1. pc' = "row" /\ k' = k /\ table' = "clearD" /\ row' = 1 /\ grp' = grp /\ hdd' = hdd
    BY <1>1, <1>10 DEF Succeeds, Go
  <2>2. "clearD" \in TablesOf(cmd)
    BY <1>1, <1>10, WhoseTable DEF TablesOf, Handling
  <2> QED
    BY <1>3, <1>4, <2>1, <2>2, TableNames
<1>11. CASE table = "raidRef"
  <2>1. /\ pc' = "choose" /\ k' = k /\ table' = "delete" /\ row' = 2 /\ grp' = grp
        /\ hdd' = hdd + 1
    BY <1>1, <1>11 DEF Succeeds
  <2>2. "delete" \in TablesOf(cmd)
    BY <1>1, <1>11, WhoseTable DEF TablesOf, Handling
  <2>3. ParsedInv' /\ \A n \in 1..Len(cmds') : Passed(cmds'[n])
    BY <1>1, <2>1, SameCommands
  <2>4. "delete" \in DOMAIN Tables /\ Len(Tables["delete"]) = 2 /\ Tables["delete"][2][1] = "choose"
    <3>1. Tables["delete"][2][1] = "choose"
      BY DEF Tables, Choose
    <3> QED
      BY <3>1, TableNames
  <2>5. DriverInv'
    <3>1. hdd + 1 \in Nat \ {0} /\ 2 \in 1..(Len(Tables["delete"]) + 1)
      BY <1>3, <2>4
    <3> QED
      BY <1>1, <2>1, <2>4, <3>1 DEF DriverInv
  <2>6. cmd' = cmd
    BY <1>1, <2>1 DEF cmd
  <2>7. op' = "choose" /\ row' <= Len(Tables[table'])
    BY <2>1, <2>4 DEF op
  <2>8. FlowInv'
    BY <1>1, <1>2, <2>1, <2>2, <2>3, <2>6, <2>7 DEF FlowInv, Handling
  <2> QED
    BY <2>3, <2>5, <2>8
<1>12. CASE table \in {"clearB", "clearD", "make", "unconfig"}
  <2>1. /\ pc' = "next" /\ k' = k + 1 /\ table' = table /\ row' = row /\ grp' = grp
        /\ hdd' = hdd
    BY <1>1, <1>12 DEF Succeeds, NextCmd
  <2>2. ParsedInv' /\ \A n \in 1..Len(cmds') : Passed(cmds'[n])
    BY <1>1, <2>1, SameCommands
  <2>3. k' \in 1..(Len(cmds') + 1)
    BY <1>1, <1>2, <2>1
  <2>4. DriverInv'
    BY <1>1, <2>1, <2>3 DEF DriverInv
  <2>5. FlowInv'
    BY <2>1, <2>2 DEF FlowInv, Handling
  <2> QED
    BY <2>2, <2>4, <2>5
<1> QED
  BY <1>3, <1>5, <1>6, <1>7, <1>8, <1>9, <1>10, <1>11, <1>12, TableNames

\* The steps within a command.
LEMMA WithinStep ==
  ASSUME DriverInv, CardInv, FlowInv, ParsedInv,
         \/ Touch \/ RowRefused \/ PressYes \/ RowFails \/ EndOfTable
         \/ NothingListed \/ StartChoice \/ ChooseHdd \/ ChooseFails \/ WrongType
         \/ DeleteDrive \/ SkipDrive \/ DriveMissing \/ EndOfChoice
  PROVE  DriverInv' /\ FlowInv' /\ ParsedInv'
<1>1. /\ chosen \in {0, 1} /\ alive \in {0, 1} /\ list \subseteq Drive /\ faults \in 0..MaxFault
      /\ hdd \in Nat \ {0} /\ table \in DOMAIN Tables
  BY DEF DriverInv
<1>2. faults < MaxFault => faults + 1 \in 0..MaxFault
  BY <1>1, RaidCommandsBoundAssumption
<1>3. CASE Touch
  BY <1>1, <1>3, PassedRow DEF Touch, AtRow, Handling
<1>4. CASE PressYes
  BY <1>1, <1>4, PassedRow DEF PressYes, AtRow, Handling
<1>5. CASE RowRefused \/ NothingListed
  BY <1>1, <1>5, FailsStep DEF RowRefused, NothingListed, AtRow, Handling
<1>6. CASE RowFails
  BY <1>1, <1>2, <1>6, FailsStep DEF RowFails, AtRow, Handling
<1>7. CASE EndOfTable
  BY <1>7, EndOfTableStep
<1>8. CASE StartChoice
  <2>1. /\ pc = "row" /\ pc' = "choose" /\ row <= Len(Tables[table]) /\ op = "choose"
        /\ text' = text /\ cmds' = cmds /\ k' = k /\ table' = table /\ row' = row /\ grp' = grp
        /\ list' = Listed /\ alive' = 1 /\ hdd' = 1 /\ chosen' = 0 /\ faults' = faults
    BY <1>8 DEF StartChoice, AtRow
  <2>2. ParsedInv' /\ \A n \in 1..Len(cmds') : Passed(cmds'[n])
    BY <2>1, SameCommands
  <2>3. Listed \subseteq Drive
    <3>1. table \in {"single", "forth", "delete", "make", "unconfig"}
      BY <1>1, <2>1, NextRow, RowTables
    <3>2. good \subseteq Drive /\ jbod \subseteq Drive /\ vds \subseteq Drive
      BY OfTypeDrives DEF CardInv
    <3> QED
      BY <3>1, <3>2 DEF Listed
  <2>4. DriverInv'
    BY <2>1, <2>3 DEF DriverInv
  <2>5. cmd' = cmd /\ op' = op
    BY <2>1 DEF cmd, op
  <2>6. FlowInv'
    BY <2>1, <2>2, <2>5 DEF FlowInv, Handling
  <2> QED
    BY <2>2, <2>4, <2>6
<1>9. CASE ChooseHdd \/ SkipDrive
  <2>1. /\ pc = "choose" /\ pc' = "choose"
        /\ text' = text /\ cmds' = cmds /\ k' = k /\ table' = table /\ row' = row /\ grp' = grp
        /\ list' = list /\ alive' = alive /\ hdd' = hdd + 1 /\ chosen' \in {0, 1}
        /\ faults' = faults
    BY <1>1, <1>9 DEF ChooseHdd, SkipDrive, Found, NotFound, AtDrive
  <2>2. ParsedInv' /\ \A n \in 1..Len(cmds') : Passed(cmds'[n])
    BY <2>1, SameCommands
  <2>3. hdd + 1 \in Nat \ {0}
    BY <1>1
  <2>4. DriverInv'
    BY <2>1, <2>3 DEF DriverInv
  <2>5. cmd' = cmd /\ op' = op
    BY <2>1 DEF cmd, op
  <2>6. FlowInv'
    BY <2>1, <2>2, <2>5 DEF FlowInv, Handling
  <2> QED
    BY <2>2, <2>4, <2>6
<1>10. CASE ChooseFails
  BY <1>1, <1>2, <1>10, FailsStep DEF ChooseFails, Found, AtDrive, Handling
<1>11. CASE WrongType \/ DriveMissing
  BY <1>1, <1>11, FailsStep DEF WrongType, DriveMissing, Found, NotFound, AtDrive, Handling
<1>12. CASE DeleteDrive
  <2>1. /\ pc = "choose" /\ pc' = "row" /\ table = "delete" /\ table' = "raidRef" /\ row' = 1
        /\ text' = text /\ cmds' = cmds /\ k' = k /\ grp' = grp /\ hdd' = hdd
        /\ list' = list /\ alive' = alive /\ chosen' = 1 /\ faults' = faults
        /\ hdd <= Len(group)
    BY <1>12 DEF DeleteDrive, Found, AtDrive, Go
  <2>2. ParsedInv' /\ \A n \in 1..Len(cmds') : Passed(cmds'[n])
    BY <2>1, SameCommands
  <2>3. "raidRef" \in DOMAIN Tables
    BY TableNames
  <2>4. 1 \in 1..(Len(Tables["raidRef"]) + 1)
    BY <2>3, FirstRow
  <2>5. DriverInv'
    BY <2>1, <2>3, <2>4 DEF DriverInv
  <2>6. cmd' = cmd /\ group = cmd.groups[1]
    BY <2>1 DEF cmd, group
  <2>7. "raidRef" \in TablesOf(cmd)
    BY <2>1, WhoseTable DEF TablesOf, Handling
  <2>8. FlowInv'
    BY <2>1, <2>2, <2>6, <2>7 DEF FlowInv, Handling
  <2> QED
    BY <2>2, <2>5, <2>8
<1>13. CASE EndOfChoice
  <2>1. /\ pc = "choose" /\ text' = text /\ grp' = grp /\ hdd' = hdd /\ chosen' = chosen
        /\ list' = list /\ alive' = alive /\ faults' = faults
        /\ row <= Len(Tables[table]) /\ op = "choose"
    BY <1>13 DEF EndOfChoice, FlowInv
  <2>2. CASE chosen = 1
    BY <1>1, <1>13, <2>1, <2>2, PassedRow DEF EndOfChoice, Handling
  <2>3. CASE chosen # 1
    BY <1>1, <1>13, <2>1, <2>3, FailsStep DEF EndOfChoice, Handling
  <2> QED
    BY <2>2, <2>3
<1> QED
  BY <1>3, <1>4, <1>5, <1>6, <1>7, <1>8, <1>9, <1>10, <1>11, <1>12, <1>13

\* The card within a command: it stays well typed, and only a drive that a delete
\* names is deleted.
LEMMA CardStep ==
  ASSUME DriverInv, CardInv, FlowInv, ParsedInv, DeleteInv,
         \/ Touch \/ RowRefused \/ PressYes \/ RowFails \/ EndOfTable
         \/ NothingListed \/ StartChoice \/ ChooseHdd \/ ChooseFails \/ WrongType
         \/ DeleteDrive \/ SkipDrive \/ DriveMissing \/ EndOfChoice
  PROVE  CardInv' /\ DeleteInv'
<1>1. Handling
  BY DEF Handling, Touch, RowRefused, PressYes, RowFails, EndOfTable, NothingListed, StartChoice,
         ChooseHdd, ChooseFails, WrongType, DeleteDrive, SkipDrive, DriveMissing, EndOfChoice,
         AtRow, AtDrive, Found, NotFound
<1>2. k \in 1..Len(cmds) /\ cmd \in Command
  BY <1>1, AtCommand
<1>3. Len(cmds') = Len(cmds)
  <2>1. CASE Fails
    BY <1>1, <2>1, FailsIs DEF SameBut
  <2>2. CASE cmds' = cmds
    BY <2>2
  <2> QED
    BY <2>1, <2>2 DEF Touch, RowRefused, PressYes, RowFails, EndOfTable, NothingListed, StartChoice,
         ChooseHdd, ChooseFails, WrongType, DeleteDrive, SkipDrive, DriveMissing, EndOfChoice
<1>4. text' = text
  BY DEF Touch, RowRefused, PressYes, RowFails, EndOfTable, NothingListed, StartChoice,
         ChooseHdd, ChooseFails, WrongType, DeleteDrive, SkipDrive, DriveMissing, EndOfChoice
<1>5. NamedByDelete' = NamedByDelete
  BY <1>4, TextSame
<1>6. vds \subseteq Drive /\ None \notin Drive /\ menu \in Menu
  BY OfTypeDrives, RaidCommandsAssumption DEF CardInv
<1>7. CASE UNCHANGED <<menu, card>>
  BY <1>3, <1>5, <1>7 DEF CardInv, DeleteInv, card
<1>8. CASE AtRow /\ ~Refused /\ arg # "yes" /\ menu' = Touched /\ UNCHANGED card
  <2>1. table \in DOMAIN Tables /\ row \in 1..Len(Tables[table])
    BY <1>8, NextRow DEF DriverInv, AtRow
  <2>2. /\ Touched \in Menu
        /\ Touched.vd = menu.vd \/ Touched.vd = None
             \/ (table = "raidRef" /\ row = 1 /\ Touched.vd = Entered /\ Entered \in vds)
    BY <1>2, <1>6, <1>8, <2>1, TouchedIs
  <2>3. Touched.vd \in NamedByDelete \cup {None}
    <3>1. CASE Touched.vd = menu.vd \/ Touched.vd = None
      BY <3>1 DEF DeleteInv
    <3>2. CASE table = "raidRef" /\ Touched.vd = Entered /\ Entered \in vds
      BY <1>6, <1>8, <3>2, EnteredIsNamed DEF AtRow
    <3> QED
      BY <2>2, <3>1, <3>2
  <2> QED
    BY <1>3, <1>5, <1>8, <2>2, <2>3 DEF CardInv, DeleteInv, card
<1>9. CASE Done(menu) /\ menu' = NoMenu
  <2>1. /\ good' \subseteq Drive /\ jbod' \subseteq Drive /\ vds' \subseteq OfType("RDG")
        /\ built' \subseteq Virtual /\ \A b \in built' : b.cmd \in 1..Len(cmds)
        /\ vds \ {menu.vd} \subseteq vds'
    BY <1>2, <1>9, DoneIs
  <2>2. NoMenu \in Menu /\ NoMenu.vd = None
    BY NoMenuType DEF NoMenu
  <2>3. OfType("RDG") \ vds' \subseteq NamedByDelete
    <3>1. None \notin OfType("RDG")
      BY <1>6, OfTypeDrives
    <3> QED
      BY <2>1, <3>1 DEF DeleteInv
  <2> QED
    BY <1>3, <1>5, <1>9, <2>1, <2>2, <2>3 DEF CardInv, DeleteInv
<1>10. CASE ChooseHdd
  <2>1. pc = "choose" /\ hdd <= Len(group) /\ d.name # None /\ UNCHANGED card
        /\ menu' = [menu EXCEPT !.sel = @ \cup {d.name}]
    BY <1>10 DEF ChooseHdd, Found, AtDrive
  <2>2. d \in Hdd
    BY <1>1, <2>1, DriveAt
  <2>3. d.name \in Drive
    BY <2>1, <2>2 DEF Hdd
  <2>4. menu' \in Menu /\ menu'.vd = menu.vd
    BY <1>6, <2>1, <2>3 DEF Menu
  <2> QED
    BY <1>3, <1>5, <2>1, <2>4 DEF CardInv, DeleteInv, card
<1>11. CASE Touch
  BY <1>8, <1>11 DEF Touch
<1>12. CASE PressYes
  BY <1>9, <1>12 DEF PressYes
<1>13. CASE RowFails
  <2>1. CASE op \in {"enter", "set"} /\ ~Refused /\ menu' = Touched /\ UNCHANGED card
    <3>1. AtRow
      BY <1>13 DEF RowFails
    <3>2. arg = "yes" => op = "press"
      BY <3>1, NextRow, RowTables DEF DriverInv, AtRow
    <3> QED
      BY <1>8, <2>1, <3>1, <3>2
  <2> QED
    BY <1>7, <1>9, <1>13, <2>1 DEF RowFails
<1>14. CASE RowRefused \/ EndOfTable \/ NothingListed \/ StartChoice \/ ChooseFails \/ WrongType
            \/ DeleteDrive \/ SkipDrive \/ DriveMissing \/ EndOfChoice
  BY <1>7, <1>14 DEF RowRefused, EndOfTable, NothingListed, StartChoice, ChooseFails, WrongType,
                     DeleteDrive, SkipDrive, DriveMissing, EndOfChoice
<1> QED
  BY <1>10, <1>11, <1>12, <1>13, <1>14

\* The inductive invariant.
IInv == DriverInv /\ CardInv /\ FlowInv /\ ParsedInv /\ DeleteInv

\* The inductive invariant holds at the start.
LEMMA IInvInit == Init => IInv
<1> SUFFICES ASSUME Init PROVE IInv
  OBVIOUS
<1>1. <<>> \in Seq(Command) /\ Len(<<>>) = 0
  <2> HIDE DEF Command
  <2> QED
    OBVIOUS
<1>2. "single" \in DOMAIN Tables
  BY TableNames
<1>3. 1 \in 1..(Len(Tables["single"]) + 1)
  BY <1>2, FirstRow
<1>4. MaxFault \in Nat
  BY RaidCommandsBoundAssumption
<1>5. 1 \in 1..(Len(<<>>) + 1) /\ 0 \in 0..MaxFault
  BY <1>1, <1>4
<1>6. DriverInv
  BY <1>1, <1>2, <1>3, <1>5 DEF Init, DriverInv
<1>7. CardInv
  BY NoMenuType, OfTypeDrives DEF Init, CardInv
<1>8. FlowInv
  BY DEF Init, FlowInv, Handling
<1>9. ParsedInv
  BY DEF Init, ParsedInv
<1>10. DeleteInv
  BY DEF Init, DeleteInv, NoMenu
<1> QED
  BY <1>6, <1>7, <1>8, <1>9, <1>10 DEF IInv

\* Every step keeps it.
LEMMA IInvNext == IInv /\ [Next]_vars => IInv'
<1> SUFFICES ASSUME IInv, [Next]_vars PROVE IInv'
  OBVIOUS
<1> USE DEF IInv
<1>1. CASE \/ ParseRaidCfgCmdString \/ CollectCfgCmdData \/ ExamineBasicForCmdRequire
           \/ SkipCmd \/ StartCmd \/ AllHandled
  <2>1. DriverInv' /\ FlowInv' /\ ParsedInv' /\ CardInv'
    BY <1>1, BeforeStep
  <2>2. text' = text /\ menu' = menu /\ vds' = vds
    BY <1>1 DEF ParseRaidCfgCmdString, CollectCfgCmdData, ExamineBasicForCmdRequire, SkipCmd,
                StartCmd, AllHandled, card
  <2>3. DeleteInv'
    BY <2>2, TextSame DEF DeleteInv
  <2> QED
    BY <2>1, <2>3
<1>2. CASE \/ Touch \/ RowRefused \/ PressYes \/ RowFails \/ EndOfTable
           \/ NothingListed \/ StartChoice \/ ChooseHdd \/ ChooseFails \/ WrongType
           \/ DeleteDrive \/ SkipDrive \/ DriveMissing \/ EndOfChoice
  BY <1>2, WithinStep, CardStep
<1>3. CASE UNCHANGED vars
  <2>1. /\ text' = text /\ pc' = pc /\ cmds' = cmds /\ k' = k /\ table' = table /\ row' = row
        /\ grp' = grp /\ hdd' = hdd /\ chosen' = chosen /\ list' = list /\ alive' = alive
        /\ menu' = menu /\ good' = good /\ jbod' = jbod /\ vds' = vds /\ built' = built
        /\ faults' = faults
    BY <1>3 DEF vars, control, card
  <2>2. Parsed' = Parsed /\ NamedByDelete' = NamedByDelete
    BY <2>1, TextSame
  <2>3. DriverInv'
    BY <2>1 DEF DriverInv
  <2>4. CardInv'
    BY <2>1 DEF CardInv
  <2>5. FlowInv'
    <3>1. cmd' = cmd /\ op' = op
      BY <2>1 DEF cmd, op
    <3> QED
      BY <2>1, <3>1 DEF FlowInv, Handling
  <2>6. ParsedInv'
    BY <2>1, <2>2 DEF ParsedInv
  <2>7. DeleteInv'
    BY <2>1, <2>2 DEF DeleteInv
  <2> QED
    BY <2>3, <2>4, <2>5, <2>6, <2>7
<1> QED
  BY <1>1, <1>2, <1>3 DEF Next, Handle, Finished

\* The loops, the commands and the delete form are as IInv says in every state.
THEOREM Invariance == Spec => []IInv
BY IInvInit, IInvNext, PTL DEF Spec

\* The variables of the driver and of the card keep their types, whatever the commands
\* say and whichever rows of the tables fail.
THEOREM TypeCorrect == Spec => []TypeOK
<1>1. IInv => TypeOK
  <2> SUFFICES ASSUME IInv PROVE TypeOK
    OBVIOUS
  <2>1. /\ menu.sel \subseteq Drive /\ menu.spans \in Seq(SUBSET Drive)
        /\ menu.level \in Level /\ menu.size \in Size \cup {None}
        /\ menu.vd \in Drive \cup {None}
        /\ menu.warn \in {"no", "save", "delete", "make", "unconfig"} /\ menu.confirm \in {0, 1}
    BY DEF IInv, CardInv, Menu
  <2>2. \A b \in built : b.cmd \in 1..Len(cmds) /\ b.spans \in Seq(SUBSET Drive)
    BY DEF IInv, CardInv, Virtual
  <2> QED
    BY <2>1, <2>2 DEF IInv, DriverInv, CardInv, TypeOK
<1> QED
  BY <1>1, Invariance, PTL

\* HandleBuildRaidCmd_D: a drive that is gone is one that some delete command names, for
\* all programs, menus and failures, though the drives after the first are looked for in
\* the item list of a package that was freed.
THEOREM DeletesAreNamed == Spec => []DeletesOnlyNamed
<1>1. IInv => DeletesOnlyNamed
  BY DEF IInv, DeleteInv, DeletesOnlyNamed, NamedByDelete
<1> QED
  BY <1>1, Invariance, PTL

-----------------------------------------------------------------------------
(* What the menus hold at each row, and what is built of it.               *)

\* The row at hand is one of these rows of table t.
In(t, from, to) == table = t /\ from <= row /\ row <= to

\* The level, the size and the warning.
FormIs ==
  /\ In("single", 2, 2) \/ In("first", 2, 2) => menu.level = 0
  /\ In("single", 3, 10) \/ In("first", 3, 3) \/ table \in {"second", "third", "forth"}
       \/ In("fifth", 1, 5) => menu.level = LevelOf(cmd)
  /\ In("single", 2, 7) \/ In("first", 2, 3) \/ table \in {"second", "third", "forth"}
       \/ In("fifth", 1, 2) => menu.size = None
  /\ In("single", 8, 10) \/ In("fifth", 3, 5) => menu.size = cmd.size
  /\ In("single", 9, 10) \/ In("fifth", 4, 5) => menu.warn = "save"
  /\ In("raidRef", 4, 5) => menu.warn = "delete"
  /\ In("make", 4, 5) \/ In("unconfig", 4, 5) => menu.warn = table

FormInv == Handling => FormIs

\* The names of the drives of group g.
Names(g) == {g[h].name : h \in 1..Len(g)}

\* The spans are those of the first j groups of command c, and of unused drives.
Applied(spans, j, c, unused) ==
  /\ Len(spans) = j /\ j <= Len(c.groups)
  /\ \A n \in 1..j : spans[n] = Names(c.groups[n]) /\ spans[n] \subseteq unused

\* The spans that were applied, by the place in the tables.
SpansAsFar ==
  /\ In("single", 2, 5) \/ In("first", 2, 3) => Applied(menu.spans, 0, cmd, good)
  /\ table \in {"second", "third"} \/ In("forth", 1, 2) => Applied(menu.spans, grp - 1, cmd, good)
  /\ In("forth", 3, 4) => Applied(menu.spans, grp, cmd, good)
  /\ In("single", 6, 10) => Applied(menu.spans, 1, cmd, good)
  /\ In("fifth", 1, 5) => Applied(menu.spans, Len(cmd.groups), cmd, good)
  /\ table = "first" => grp = 1

SpansInv == Handling => SpansAsFar

\* The drives that a command may use.
Pool == IF table = "unconfig" THEN jbod ELSE good

\* The drives that were chosen.
SelIs ==
  /\ pc = "row" /\ (In("single", 4, 4) \/ In("third", 2, 2) \/ In("forth", 1, 1)
                      \/ In("make", 2, 2) \/ In("unconfig", 2, 2)) => menu.sel = {}
  /\ pc = "choose" /\ table \in {"single", "forth", "make", "unconfig"} =>
       alive = 1 /\ list \subseteq Pool /\ menu.sel \subseteq list
  /\ pc = "choose" /\ table \in {"single", "forth"} =>
       menu.sel = {group[h].name : h \in 1..(hdd - 1)} /\ hdd <= Len(group) + 1
  /\ pc = "row" /\ (In("single", 5, 5) \/ In("forth", 2, 2)) =>
       menu.sel = Names(group) /\ menu.sel \subseteq good
  /\ pc = "row" /\ (In("make", 3, 5) \/ In("unconfig", 3, 5)) => menu.sel \subseteq Pool

SelInv == Handling => SelIs

\* A drive has one use.
UseInv ==
  /\ good \cap jbod = {}
  /\ \A b \in built : \A n \in DOMAIN b.spans : b.spans[n] \cap (good \cup jbod) = {}

\* Every virtual drive is that of the sections of its command.
BuiltInv ==
  \A b \in built :
    /\ b = Described(b.cmd)
    /\ \A n \in DOMAIN b.spans :
         /\ Cardinality(b.spans[n]) = Len(Used(Parsed[b.cmd])[n])
         /\ \A c \in built : \A m \in DOMAIN c.spans :
              c.spans[m] \cap b.spans[n] # {} => c = b /\ m = n

\* The invariant of the builds.
BInv == FormInv /\ SpansInv /\ SelInv /\ UseInv /\ BuiltInv

\* The fields of the menu after a row.
LEMMA TouchedFields ==
  ASSUME table \in DOMAIN Tables, row \in 1..Len(Tables[table]), menu \in Menu
  PROVE  /\ op = "enter" /\ arg \in {"create", "drives", "make", "unconfig"} => Touched = NoMenu
         /\ ~(op = "enter" /\ arg \in {"create", "drives", "make", "unconfig"}) =>
              /\ Touched.level = IF op = "set" /\ arg = "level" /\ cmd.level # None
                                 THEN cmd.level ELSE menu.level
              /\ Touched.size = IF op = "set" /\ arg = "size" /\ cmd.size # None
                                THEN cmd.size ELSE menu.size
              /\ Touched.warn = IF op = "enter" /\ arg = "save" THEN "save"
                                ELSE IF op = "enter" /\ arg = "go" THEN "delete"
                                ELSE IF op = "enter" /\ arg = "ok" THEN table ELSE menu.warn
              /\ Touched.spans = IF op = "enter" /\ arg = "apply"
                                 THEN Append(menu.spans, menu.sel) ELSE menu.spans
              /\ Touched.sel = IF op = "enter" /\ arg \in {"select", "apply"} THEN {} ELSE menu.sel
<1> DEFINE o == op
           a == arg
<1>1. CASE o = "confirm"
  BY <1>1 DEF Touched, Menu
<1>2. CASE o = "set" /\ a = "level"
  BY <1>2 DEF Touched, Menu
<1>3. CASE o = "set" /\ a = "size"
  BY <1>3 DEF Touched, Menu
<1>4. CASE o = "enter" /\ a \in {"create", "drives", "make", "unconfig"}
  BY <1>4 DEF Touched
<1>5. CASE o = "enter" /\ a = "select"
  BY <1>5 DEF Touched, Menu
<1>6. CASE o = "enter" /\ a = "apply"
  <2>1. Touched = [menu EXCEPT !.spans = Append(menu.spans, menu.sel), !.sel = {}]
    BY <1>6 DEF Touched
  <2> QED
    BY <1>6, <2>1 DEF Menu
<1>7. CASE o = "enter" /\ a = "drive"
  BY <1>7 DEF Touched, Menu
<1>8. CASE o = "enter" /\ a = "save"
  BY <1>8 DEF Touched, Menu
<1>9. CASE o = "enter" /\ a = "go"
  BY <1>9 DEF Touched, Menu
<1>10. CASE o = "enter" /\ a = "ok"
  BY <1>10 DEF Touched, Menu
<1>11. CASE /\ o # "confirm" /\ ~(o = "set" /\ a \in {"level", "size"})
            /\ ~(o = "enter" /\ a \in {"create", "drives", "make", "unconfig", "select", "apply",
                                       "drive", "save", "go", "ok"})
  BY <1>11 DEF Touched
<1> QED
  BY <1>1, <1>2, <1>3, <1>4, <1>5, <1>6, <1>7, <1>8, <1>9, <1>10, <1>11

\* The commands of a driver that goes on with the same one.
LEMMA SameCmd == ASSUME cmds' = cmds, k' = k PROVE cmd' = cmd
BY DEF cmd

\* A row that has failed leaves the tables that a menu is filled by.
LEMMA FailsLeaves ==
  ASSUME DriverInv, FlowInv, Handling, Fails
  PROVE  Handling' => table' \in {"clearB", "clearD"}
BY FailsIs DEF Handling

\* No invariant of the menus speaks of the clearing tables, nor of a driver that is
\* between commands.
LEMMA Cleared ==
  ASSUME Handling' => table' \in {"clearB", "clearD"}
  PROVE  FormInv' /\ SpansInv' /\ SelInv'
<1> SUFFICES ASSUME Handling', table' \in {"clearB", "clearD"}
             PROVE  FormInv' /\ SpansInv' /\ SelInv'
  BY DEF FormInv, SpansInv, SelInv
<1>1. \A x, y : /\ ~In("single", x, y)' /\ ~In("first", x, y)' /\ ~In("third", x, y)'
                /\ ~In("forth", x, y)' /\ ~In("fifth", x, y)' /\ ~In("raidRef", x, y)'
                /\ ~In("make", x, y)' /\ ~In("unconfig", x, y)'
  BY DEF In
<1>2. FormInv'
  BY <1>1 DEF FormInv, FormIs
<1>3. SpansInv'
  BY <1>1 DEF SpansInv, SpansAsFar
<1>4. SelInv'
  BY <1>1 DEF SelInv, SelIs
<1> QED
  BY <1>2, <1>3, <1>4

\* Nor of the end of a table that a warning is answered in.
LEMMA AfterYes ==
  ASSUME DriverInv, FlowInv, PressYes
  PROVE  FormInv' /\ SpansInv' /\ SelInv'
<1>1. /\ pc = "row" /\ pc' = "row" /\ row <= Len(Tables[table]) /\ row' = row + 1
      /\ table' = table /\ arg = "yes"
  BY DEF PressYes, AtRow
<1>2. \/ (table = "single" /\ row = 10) \/ (table = "fifth" /\ row = 5)
      \/ (table = "raidRef" /\ row = 5) \/ (table = "make" /\ row = 5)
      \/ (table = "unconfig" /\ row = 5)
  <2>1. table \in DOMAIN Tables /\ row \in 1..Len(Tables[table])
    BY <1>1, NextRow DEF DriverInv
  <2> QED
    BY <1>1, <2>1, Rows DEF At
<1>3. \/ (table' = "single" /\ row' = 11) \/ (table' = "fifth" /\ row' = 6)
      \/ (table' = "raidRef" /\ row' = 6) \/ (table' = "make" /\ row' = 6)
      \/ (table' = "unconfig" /\ row' = 6)
  BY <1>1, <1>2
<1> QED
  BY <1>1, <1>3 DEF FormInv, SpansInv, SelInv, FormIs, SpansAsFar, SelIs, In

\* A table is at its end: the place that follows.
LEMMA Follows ==
  ASSUME DriverInv, FlowInv, EndOfTable
  PROVE  /\ pc = "row" /\ UNCHANGED <<menu, card, cmds, text>> /\ row > Len(Tables[table])
         /\ \/ /\ k' = k /\ hdd' = hdd
               /\ pc' = "row" /\ row' = 1
               /\ \/ grp' = grp /\ ((table = "first" /\ row = 3 /\ table' = "second")
                                      \/ (table = "second" /\ row = 2 /\ table' = "third")
                                      \/ (table = "third" /\ row = 2 /\ table' = "forth"))
                  \/ /\ table = "forth" /\ row = 4 /\ grp' = grp + 1
                     /\ grp < Len(cmd.groups) => table' = "second"
                     /\ ~(grp < Len(cmd.groups)) => table' = "fifth"
            \/ k' = k /\ pc' = "choose" /\ row' = 2 /\ table' = "delete"
            \/ Handling' => table' \in {"clearB", "clearD"}
<1>1. /\ pc = "row" /\ UNCHANGED <<menu, card, cmds, text>> /\ row > Len(Tables[table])
      /\ Succeeds
  BY DEF EndOfTable
<1> DEFINE n == Len(Tables[table])
<1>2. row = n + 1
  <2>1. n \in Nat /\ row \in 1..(n + 1) /\ row > n
    BY <1>1, TableLen DEF DriverInv
  <2> HIDE DEF n
  <2> QED
    BY <2>1
<1>3. CASE table \in {"first", "second", "third"}
  <2>1. (table = "first" => n = 2) /\ (table \in {"second", "third"} => n = 1)
    BY TableNames
  <2>2. (table = "first" => row = 3) /\ (table \in {"second", "third"} => row = 2)
    <3> HIDE DEF n
    <3> QED
      BY <1>2, <2>1
  <2> QED
    BY <1>1, <1>3, <2>2 DEF Succeeds, Go
<1>4. CASE table = "forth"
  <2>1. n = 3
    BY <1>4, TableNames
  <2>2. row = 4
    <3> HIDE DEF n
    <3> QED
      BY <1>2, <2>1
  <2> QED
    BY <1>1, <1>4, <2>2 DEF Succeeds, Go
<1>5. CASE table \in {"single", "fifth", "delete"}
  BY <1>1, <1>5 DEF Succeeds, Go
<1>6. CASE table = "raidRef"
  BY <1>1, <1>6 DEF Succeeds
<1>7. CASE table \in {"clearB", "clearD", "make", "unconfig"}
  BY <1>1, <1>7 DEF Succeeds, NextCmd, Handling
<1> QED
  BY <1>3, <1>4, <1>5, <1>6, <1>7, TableNames DEF DriverInv

\* The tables that a command starts with.
LEMMA StartsWith ==
  ASSUME DriverInv, StartCmd
  PROVE  /\ row' = 1 /\ grp' = 1 /\ pc' = "row" /\ cmds' = cmds /\ k' = k
         /\ table' \in {"first", "single", "delete", "make", "unconfig"}
<1>1. cmds \in Seq(Command) /\ k \in 1..(Len(cmds) + 1) /\ k <= Len(cmds)
  BY DEF DriverInv, StartCmd
<1>2. Len(cmds) \in Nat
  <2> HIDE DEF Command
  <2> QED
    BY <1>1
<1>3. k \in 1..Len(cmds)
  BY <1>1, <1>2
<1>4. cmd \in Command
  BY <1>1, <1>3, CommandAt DEF cmd
<1>5. /\ cmd.specie \in {"B", "D", "O"} /\ cmd.jbod \in {"make", "unconfig", None}
      /\ (cmd.specie = "O" => cmd.jbod # None)
  BY <1>4 DEF StartCmd, Idle, Command
<1>6. FirstTable(cmd) \in {"first", "single", "delete", "make", "unconfig"}
  BY <1>5 DEF FirstTable
<1> QED
  BY <1>6 DEF StartCmd

\* The choice of a drive leaves the place in the tables, and of the menu changes the
\* drives that were chosen.
LEMMA Stays ==
  ASSUME menu \in Menu, StartChoice \/ ChooseHdd \/ SkipDrive
  PROVE  /\ Handling /\ Handling' /\ UNCHANGED <<table, row, cmds, k, grp, card>>
         /\ menu'.level = menu.level /\ menu'.size = menu.size /\ menu'.warn = menu.warn
         /\ menu'.spans = menu.spans
<1>1. CASE ChooseHdd
  <2>1. menu' = [menu EXCEPT !.sel = @ \cup {d.name}]
    BY <1>1 DEF ChooseHdd
  <2>2. /\ menu'.level = menu.level /\ menu'.size = menu.size /\ menu'.warn = menu.warn
        /\ menu'.spans = menu.spans
    BY <2>1 DEF Menu
  <2> QED
    BY <1>1, <2>2 DEF ChooseHdd, Found, AtDrive, Handling
<1>2. CASE StartChoice \/ SkipDrive
  BY <1>2 DEF StartChoice, SkipDrive, NotFound, AtDrive, AtRow, Handling
<1> QED
  BY <1>1, <1>2

\* A choice has ended well.
LEMMA Chosen ==
  ASSUME DriverInv, FlowInv, EndOfChoice, chosen = 1
  PROVE  /\ Handling /\ pc = "choose" /\ pc' = "row" /\ row' = row + 1
         /\ UNCHANGED <<table, cmds, k, grp, hdd, menu, card>> /\ hdd > Len(group)
         /\ \/ (table = "single" /\ row = 4)
            \/ (table = "forth" /\ row = 1)
            \/ (table \in {"delete", "make", "unconfig"} /\ row = 2)
<1>1. /\ pc = "choose" /\ pc' = "row" /\ row' = row + 1 /\ hdd > Len(group)
      /\ UNCHANGED <<table, cmds, k, grp, hdd, menu, card>>
  BY DEF EndOfChoice
<1>2. row <= Len(Tables[table]) /\ op = "choose" /\ table \in DOMAIN Tables
  BY <1>1 DEF FlowInv, DriverInv
<1>3. row \in 1..Len(Tables[table])
  BY <1>2, NextRow
<1> QED
  BY <1>1, <1>2, <1>3, Rows DEF At, Handling

\* The kinds of steps that the menus tell apart.
LEMMA Kinds ==
  ASSUME [Next]_vars
  PROVE  \/ Touch \/ PressYes \/ EndOfTable \/ StartCmd \/ StartChoice \/ ChooseHdd \/ SkipDrive
         \/ DeleteDrive \/ (EndOfChoice /\ chosen = 1) \/ (Fails /\ Handling)
         \/ ~Handling' \/ UNCHANGED vars
<1>1. CASE RowRefused \/ NothingListed \/ RowFails
  BY <1>1 DEF RowRefused, NothingListed, RowFails, AtRow, Handling
<1>2. CASE ChooseFails \/ WrongType \/ DriveMissing
  BY <1>2 DEF ChooseFails, WrongType, DriveMissing, Found, NotFound, AtDrive, Handling
<1>3. CASE EndOfChoice /\ chosen # 1
  BY <1>3 DEF EndOfChoice, Handling
<1>4. CASE ParseRaidCfgCmdString \/ CollectCfgCmdData \/ ExamineBasicForCmdRequire
           \/ SkipCmd \/ AllHandled
  BY <1>4 DEF ParseRaidCfgCmdString, CollectCfgCmdData, ExamineBasicForCmdRequire, SkipCmd,
              AllHandled, Handling
<1> QED
  BY <1>1, <1>2, <1>3, <1>4 DEF Next, Handle, Finished

\* The level, the size and the warning that a command has set are those that it is
\* saved with.
LEMMA FormStep ==
  ASSUME IInv, FormInv, [Next]_vars
  PROVE  FormInv'
<1> USE DEF IInv
<1>1. table \in DOMAIN Tables /\ menu \in Menu
  BY DEF DriverInv, CardInv
<1>2. CASE Touch
  <2>1. /\ pc = "row" /\ pc' = "row" /\ row' = row + 1 /\ table' = table /\ cmds' = cmds /\ k' = k
        /\ menu' = Touched /\ row <= Len(Tables[table])
    BY <1>2 DEF Touch, AtRow
  <2>2. row \in 1..Len(Tables[table])
    BY <2>1, NextRow
  <2>3. cmd' = cmd
    BY <2>1, SameCmd
  <2>4. /\ NoMenu.level = 0 /\ NoMenu.size = None
    BY DEF NoMenu
  <2> DEFINE e == Touched
  <2>5. /\ op = "enter" /\ arg \in {"create", "drives", "make", "unconfig"} =>
             e.level = 0 /\ e.size = None
        /\ ~(op = "enter" /\ arg \in {"create", "drives", "make", "unconfig"}) =>
             /\ e.level = IF op = "set" /\ arg = "level" /\ cmd.level # None
                                THEN cmd.level ELSE menu.level
             /\ e.size = IF op = "set" /\ arg = "size" /\ cmd.size # None
                               THEN cmd.size ELSE menu.size
             /\ e.warn = IF op = "enter" /\ arg = "save" THEN "save"
                               ELSE IF op = "enter" /\ arg = "go" THEN "delete"
                               ELSE IF op = "enter" /\ arg = "ok" THEN table ELSE menu.warn
    BY <1>1, <2>2, <2>4, TouchedFields
  <2>6. menu' = e
    BY <2>1
  <2> HIDE DEF e
  <2>7. FormIs
    BY <2>1 DEF FormInv, Handling
  <2> SUFFICES FormIs'
    BY DEF FormInv
  <2>8. CASE table = "single"
    BY <1>1, <2>1, <2>2, <2>3, <2>5, <2>6, <2>7, <2>8, Rows DEF FormIs, At, In, LevelOf
  <2>9. CASE table = "first"
    BY <1>1, <2>1, <2>2, <2>3, <2>5, <2>6, <2>7, <2>9, Rows DEF FormIs, At, In, LevelOf
  <2>10. CASE table \in {"second", "third", "forth"}
    BY <1>1, <2>1, <2>2, <2>3, <2>5, <2>6, <2>7, <2>10, Rows DEF FormIs, At, In, LevelOf
  <2>11. CASE table = "fifth"
    BY <1>1, <2>1, <2>2, <2>3, <2>5, <2>6, <2>7, <2>11, Rows DEF FormIs, At, In
  <2>12. CASE table \in {"clearB", "delete", "clearD"}
    BY <2>1, <2>12 DEF FormIs, In
  <2>13. CASE table = "raidRef"
    BY <1>1, <2>1, <2>2, <2>3, <2>5, <2>6, <2>7, <2>13, Rows DEF FormIs, At, In
  <2>14. CASE table \in {"make", "unconfig"}
    BY <1>1, <2>1, <2>2, <2>3, <2>5, <2>6, <2>7, <2>14, Rows DEF FormIs, At, In
  <2> QED
    BY <1>1, <2>8, <2>9, <2>10, <2>11, <2>12, <2>13, <2>14, TableNames
<1>3. CASE EndOfTable
  <2>1. UNCHANGED <<menu, cmds>> /\ pc = "row" /\ FormIs
    BY <1>3, Follows DEF FormInv, Handling
  <2>2. CASE k' = k /\ pc' = "row" /\ row' = 1 /\ table = "first" /\ row = 3 /\ table' = "second"
    BY <2>1, <2>2, SameCmd DEF FormInv, FormIs, In
  <2>3. CASE /\ k' = k /\ pc' = "row" /\ row' = 1 /\ table \in {"second", "third", "forth"}
             /\ table' \in {"second", "third", "forth", "fifth"}
    BY <2>1, <2>3, SameCmd DEF FormInv, FormIs, In
  <2>4. CASE table' = "delete"
    BY <2>4 DEF FormInv, FormIs, In
  <2>5. CASE Handling' => table' \in {"clearB", "clearD"}
    BY <2>5, Cleared
  <2> QED
    BY <1>3, <2>2, <2>3, <2>4, <2>5, Follows
<1>4. CASE StartCmd
  <2>1. row' = 1 /\ table' \in {"first", "single", "delete", "make", "unconfig"}
    BY <1>4, StartsWith
  <2> QED
    BY <2>1 DEF FormInv, FormIs, In
<1>5. CASE StartChoice \/ ChooseHdd \/ SkipDrive
  <2>1. /\ Handling /\ table' = table /\ row' = row /\ cmds' = cmds /\ k' = k
        /\ menu'.level = menu.level /\ menu'.size = menu.size /\ menu'.warn = menu.warn
    BY <1>1, <1>5, Stays
  <2> QED
    BY <2>1, SameCmd DEF FormInv, FormIs, In
<1>6. CASE DeleteDrive
  BY <1>6 DEF DeleteDrive, Go, FormInv, FormIs, In
<1>7. CASE EndOfChoice /\ chosen = 1
  <2>1. /\ Handling /\ table' = table /\ row' = row + 1 /\ cmds' = cmds /\ k' = k /\ menu' = menu
        /\ \/ (table = "single" /\ row = 4) \/ table = "forth" \/ table = "delete"
           \/ (table \in {"make", "unconfig"} /\ row = 2)
    BY <1>7, Chosen
  <2>2. FormIs /\ cmd' = cmd
    BY <2>1, SameCmd DEF FormInv
  <2> QED
    BY <2>1, <2>2 DEF FormInv, FormIs, In
<1>8. CASE Fails /\ Handling
  BY <1>8, FailsLeaves, Cleared
<1>9. CASE PressYes
  BY <1>9, AfterYes
<1>10. CASE UNCHANGED vars
  <2>1. /\ table' = table /\ row' = row /\ cmds' = cmds /\ k' = k /\ menu' = menu /\ pc' = pc
    BY <1>10 DEF vars, control
  <2> QED
    BY <2>1, SameCmd DEF FormInv, FormIs, In, Handling
<1>11. CASE ~Handling'
  BY <1>11 DEF FormInv
<1> QED
  BY <1>2, <1>3, <1>4, <1>5, <1>6, <1>7, <1>8, <1>9, <1>10, <1>11, Kinds

\* No span is applied.
LEMMA AppliedNone ==
  ASSUME NEW c \in Command, NEW u
  PROVE  Applied(<<>>, 0, c, u)
<1>1. Len(c.groups) \in Nat
  BY CommandParts
<1> QED
  BY <1>1 DEF Applied

\* One more is.
LEMMA AppliedNext ==
  ASSUME NEW s \in Seq(SUBSET Drive), NEW j \in Nat, NEW c \in Command, NEW u,
         NEW e \in SUBSET Drive,
         Applied(s, j, c, u), j + 1 <= Len(c.groups), e = Names(c.groups[j + 1]), e \subseteq u
  PROVE  Applied(Append(s, e), j + 1, c, u)
<1> DEFINE S == SUBSET Drive
           a == Append(s, e)
<1>1. s \in Seq(S) /\ e \in S /\ Len(s) = j
  BY DEF Applied
<1> HIDE DEF S
<1>2. Len(a) = j + 1 /\ a[j + 1] = e /\ \A n \in 1..j : a[n] = s[n]
  BY <1>1
<1> HIDE DEF a
<1>3. \A n \in 1..(j + 1) : n = j + 1 \/ n \in 1..j
  OBVIOUS
<1>4. \A n \in 1..j : s[n] = Names(c.groups[n]) /\ s[n] \subseteq u
  BY DEF Applied
<1>5. \A n \in 1..(j + 1) : a[n] = Names(c.groups[n]) /\ a[n] \subseteq u
  BY <1>2, <1>3, <1>4
<1>6. Applied(a, j + 1, c, u)
  BY <1>2, <1>5 DEF Applied
<1> QED
  BY <1>6 DEF a

\* The spans that are applied are those of the groups that the tables have got to.
LEMMA SpansStep ==
  ASSUME IInv, SpansInv, SelInv, [Next]_vars
  PROVE  SpansInv'
<1> USE DEF IInv
<1>1. table \in DOMAIN Tables /\ menu \in Menu /\ menu.spans \in Seq(SUBSET Drive)
      /\ grp \in Nat \ {0}
  BY DEF DriverInv, CardInv, Menu
<1>2. CASE Touch
  <2>1. /\ pc = "row" /\ pc' = "row" /\ row' = row + 1 /\ table' = table /\ cmds' = cmds /\ k' = k
        /\ menu' = Touched /\ row <= Len(Tables[table]) /\ grp' = grp /\ good' = good
    BY <1>2 DEF Touch, AtRow, card
  <2>2. row \in 1..Len(Tables[table])
    BY <2>1, NextRow
  <2>3. cmd' = cmd
    BY <2>1, SameCmd
  <2>4. Handling /\ cmd \in Command /\ Len(cmd.groups) \in Nat /\ Len(cmd.groups) >= 1
    BY <2>1, AtCommand DEF Handling
  <2> DEFINE e == menu'.spans
             a == Append(menu.spans, menu.sel)
  <2>5. /\ op = "enter" /\ arg \in {"create", "drives", "make", "unconfig"} => e = <<>>
        /\ ~(op = "enter" /\ arg \in {"create", "drives", "make", "unconfig"}) =>
             e = IF op = "enter" /\ arg = "apply" THEN a ELSE menu.spans
    BY <1>1, <2>1, <2>2, TouchedFields DEF NoMenu
  <2>6. Applied(<<>>, 0, cmd, good)
    BY <2>4, AppliedNone
  <2>7. table = "single" /\ row = 5 => Applied(a, 1, cmd, good)
    <3> SUFFICES ASSUME table = "single", row = 5 PROVE Applied(a, 1, cmd, good)
      OBVIOUS
    <3>1. /\ menu.sel = Names(group) /\ menu.sel \subseteq good
          /\ Applied(menu.spans, 0, cmd, good)
      BY <2>1 DEF SelInv, SelIs, SpansInv, SpansAsFar, Handling, In
    <3>2. group = cmd.groups[0 + 1] /\ 0 + 1 <= Len(cmd.groups)
      BY <2>4 DEF group
    <3>3. menu.sel \in SUBSET Drive
      BY <1>1 DEF Menu
    <3>4. Applied(a, 0 + 1, cmd, good)
      BY <1>1, <2>4, <3>1, <3>2, <3>3, AppliedNext
    <3> QED
      BY <3>4
  <2>8. table = "forth" /\ row = 2 => Applied(a, grp, cmd, good)
    <3> SUFFICES ASSUME table = "forth", row = 2 PROVE Applied(a, grp, cmd, good)
      OBVIOUS
    <3>1. /\ menu.sel = Names(group) /\ menu.sel \subseteq good
          /\ Applied(menu.spans, grp - 1, cmd, good)
      BY <2>1 DEF SelInv, SelIs, SpansInv, SpansAsFar, Handling, In
    <3>2. grp \in 1..Len(cmd.groups) /\ group = cmd.groups[grp]
      BY <2>4, DriveAt DEF group
    <3>3. menu.sel \in SUBSET Drive
      BY <1>1 DEF Menu
    <3>4. PICK j \in Nat : j = grp - 1
      BY <1>1
    <3>5. grp = j + 1 /\ j + 1 <= Len(cmd.groups)
      BY <1>1, <2>4, <3>2, <3>4
    <3>6. Applied(menu.spans, j, cmd, good) /\ group = cmd.groups[j + 1]
      BY <3>1, <3>2, <3>4, <3>5
    <3>7. Applied(a, j + 1, cmd, good)
      BY <1>1, <2>4, <3>1, <3>3, <3>5, <3>6, AppliedNext
    <3> QED
      BY <3>5, <3>7
  <2>9. SpansAsFar
    BY <2>4 DEF SpansInv
  <2> SUFFICES SpansAsFar'
    BY DEF SpansInv
  <2> HIDE DEF e, a
  <2>10. /\ (In("single", 2, 5)' \/ In("first", 2, 3)' => Applied(e, 0, cmd, good))
         /\ (table \in {"second", "third"} \/ In("forth", 1, 2)' => Applied(e, grp - 1, cmd, good))
         /\ (In("forth", 3, 4)' => Applied(e, grp, cmd, good))
         /\ (In("single", 6, 10)' => Applied(e, 1, cmd, good))
         /\ (In("fifth", 1, 5)' => Applied(e, Len(cmd.groups), cmd, good))
         /\ (table = "first" => grp = 1)
    <3>1. CASE table = "single"
      BY <1>1, <2>1, <2>2, <2>5, <2>6, <2>7, <2>9, <3>1, Rows DEF SpansAsFar, At, In
    <3>2. CASE table = "first"
      BY <1>1, <2>1, <2>2, <2>5, <2>6, <2>9, <3>2, Rows DEF SpansAsFar, At, In
    <3>3. CASE table \in {"second", "third"}
      BY <1>1, <2>1, <2>2, <2>5, <2>9, <3>3, Rows DEF SpansAsFar, At, In
    <3>4. CASE table = "forth"
      <4>1. row = 1 => op = "choose"
        BY <1>1, <2>2, <3>4, Rows DEF At
      <4>2. row # 1
        BY <1>2, <4>1 DEF Touch
      <4>3. \/ row = 2 /\ e = a
            \/ row = 3 /\ e = menu.spans
        BY <1>1, <2>2, <2>5, <3>4, <4>2, Rows DEF At
      <4> QED
        BY <2>1, <2>8, <2>9, <3>4, <4>3 DEF SpansAsFar, In
    <3>5. CASE table = "fifth"
      BY <1>1, <2>1, <2>2, <2>5, <2>9, <3>5, Rows DEF SpansAsFar, At, In
    <3>6. CASE table \notin {"single", "first", "second", "third", "forth", "fifth"}
      BY <2>1, <3>6 DEF In
    <3> QED
      BY <3>1, <3>2, <3>3, <3>4, <3>5, <3>6
  <2> QED
    BY <2>1, <2>3, <2>10 DEF SpansAsFar, e
<1>3. CASE EndOfTable
  <2>1. UNCHANGED <<menu, cmds, good>> /\ pc = "row" /\ SpansAsFar
    BY <1>3, Follows DEF SpansInv, Handling, card
  <2>2. CASE /\ k' = k /\ pc' = "row" /\ row' = 1 /\ grp' = grp
             /\ table = "first" /\ row = 3 /\ table' = "second"
    <3>1. Applied(menu.spans, 0, cmd, good) /\ grp = 1
      BY <2>1, <2>2 DEF SpansAsFar, In
    <3>2. Applied(menu'.spans, grp' - 1, cmd', good')
      <4>1. grp' - 1 = 0
        BY <2>2, <3>1
      <4> QED
        BY <2>1, <2>2, <3>1, <4>1, SameCmd
    <3> QED
      BY <2>2, <3>2 DEF SpansInv, SpansAsFar, In
  <2>3. CASE /\ k' = k /\ pc' = "row" /\ row' = 1 /\ grp' = grp
             /\ table \in {"second", "third"} /\ table' \in {"third", "forth"}
    <3>1. Applied(menu'.spans, grp' - 1, cmd', good')
      BY <2>1, <2>3, SameCmd DEF SpansAsFar
    <3> QED
      BY <2>3, <3>1 DEF SpansInv, SpansAsFar, In
  <2>4. CASE /\ k' = k /\ pc' = "row" /\ row' = 1 /\ grp' = grp + 1 /\ table = "forth" /\ row = 4
             /\ grp < Len(cmd.groups) => table' = "second"
             /\ ~(grp < Len(cmd.groups)) => table' = "fifth"
    <3>1. Applied(menu.spans, grp, cmd, good)
      BY <2>1, <2>4 DEF SpansAsFar, In
    <3>2. grp' - 1 = grp
      BY <1>1, <2>4
    <3>3. ~(grp < Len(cmd.groups)) => grp = Len(cmd.groups)
      <4>1. grp \in 1..Len(cmd.groups) /\ Len(cmd.groups) \in Nat
        BY <2>1, <2>4, DriveAt, AtCommand DEF Handling
      <4> QED
        BY <4>1
    <3>4. CASE grp < Len(cmd.groups)
      <4>1. Applied(menu'.spans, grp' - 1, cmd', good')
        BY <2>1, <2>4, <3>1, <3>2, SameCmd
      <4> QED
        BY <2>4, <3>4, <4>1 DEF SpansInv, SpansAsFar, In
    <3>5. CASE ~(grp < Len(cmd.groups))
      <4>1. Applied(menu'.spans, Len(cmd'.groups), cmd', good')
        BY <2>1, <2>4, <3>1, <3>3, <3>5, SameCmd
      <4> QED
        BY <2>4, <3>5, <4>1 DEF SpansInv, SpansAsFar, In
    <3> QED
      BY <3>4, <3>5
  <2>5. CASE table' = "delete"
    BY <2>5 DEF SpansInv, SpansAsFar, In
  <2>6. CASE Handling' => table' \in {"clearB", "clearD"}
    BY <2>6, Cleared
  <2> QED
    BY <1>3, <2>2, <2>3, <2>4, <2>5, <2>6, Follows
<1>4. CASE StartCmd
  <2>1. row' = 1 /\ grp' = 1 /\ table' \in {"first", "single", "delete", "make", "unconfig"}
    BY <1>4, StartsWith
  <2> QED
    BY <2>1 DEF SpansInv, SpansAsFar, In
<1>5. CASE StartChoice \/ ChooseHdd \/ SkipDrive
  <2>1. /\ Handling /\ table' = table /\ row' = row /\ cmds' = cmds /\ k' = k /\ grp' = grp
        /\ menu'.spans = menu.spans /\ good' = good
    BY <1>1, <1>5, Stays DEF card
  <2> QED
    BY <2>1, SameCmd DEF SpansInv, SpansAsFar, In
<1>6. CASE DeleteDrive
  BY <1>6 DEF DeleteDrive, Go, SpansInv, SpansAsFar, In
<1>7. CASE EndOfChoice /\ chosen = 1
  <2>1. /\ Handling /\ table' = table /\ row' = row + 1 /\ cmds' = cmds /\ k' = k /\ menu' = menu
        /\ grp' = grp /\ good' = good
        /\ \/ (table = "single" /\ row = 4) \/ (table = "forth" /\ row = 1)
           \/ table \in {"delete", "make", "unconfig"}
    BY <1>7, Chosen DEF card
  <2>2. SpansAsFar /\ cmd' = cmd
    BY <2>1, SameCmd DEF SpansInv
  <2> QED
    BY <2>1, <2>2 DEF SpansInv, SpansAsFar, In
<1>8. CASE Fails /\ Handling
  BY <1>8, FailsLeaves, Cleared
<1>9. CASE PressYes
  BY <1>9, AfterYes
<1>10. CASE UNCHANGED vars
  <2>1. /\ table' = table /\ row' = row /\ cmds' = cmds /\ k' = k /\ menu' = menu /\ pc' = pc
        /\ grp' = grp /\ good' = good
    BY <1>10 DEF vars, control, card
  <2> QED
    BY <2>1, SameCmd DEF SpansInv, SpansAsFar, In, Handling
<1>11. CASE ~Handling'
  BY <1>11 DEF SpansInv
<1> QED
  BY <1>2, <1>3, <1>4, <1>5, <1>6, <1>7, <1>8, <1>9, <1>10, <1>11, Kinds

\* The drives that are chosen are those of the group, one after the other, and they are
\* all in the form.
LEMMA SelStep ==
  ASSUME IInv, SelInv, [Next]_vars
  PROVE  SelInv'
<1> USE DEF IInv
<1>1. table \in DOMAIN Tables /\ menu \in Menu /\ hdd \in Nat \ {0}
  BY DEF DriverInv, CardInv
<1>2. CASE Touch
  <2>1. /\ pc = "row" /\ pc' = "row" /\ row' = row + 1 /\ table' = table /\ op # "choose"
        /\ menu' = Touched /\ row <= Len(Tables[table]) /\ jbod' = jbod /\ good' = good
    BY <1>2 DEF Touch, AtRow, card
  <2>2. row \in 1..Len(Tables[table])
    BY <2>1, NextRow
  <2>3. SelIs
    BY <2>1 DEF SelInv, Handling
  <2>4. Pool' = Pool
    BY <2>1 DEF Pool
  <2> DEFINE e == menu'.sel
  <2>5. /\ op = "enter" /\ arg \in {"create", "drives", "make", "unconfig"} => e = {}
        /\ ~(op = "enter" /\ arg \in {"create", "drives", "make", "unconfig"}) =>
             e = IF op = "enter" /\ arg \in {"select", "apply"} THEN {} ELSE menu.sel
    BY <1>1, <2>1, <2>2, TouchedFields DEF NoMenu
  <2> HIDE DEF e
  <2> SUFFICES /\ (In("single", 4, 4) \/ In("third", 2, 2) \/ In("forth", 1, 1)
                     \/ In("make", 2, 2) \/ In("unconfig", 2, 2))' => e = {}
               /\ ~(In("single", 5, 5) \/ In("forth", 2, 2))'
               /\ (In("make", 3, 5) \/ In("unconfig", 3, 5))' => e \subseteq Pool
    BY <2>1, <2>4 DEF SelInv, SelIs, e
  <2>6. CASE table = "single"
    BY <1>1, <2>1, <2>2, <2>5, <2>6, Rows DEF At, In
  <2>7. CASE table = "third"
    BY <1>1, <2>1, <2>2, <2>5, <2>7, Rows DEF At, In
  <2>8. CASE table = "forth"
    BY <1>1, <2>1, <2>2, <2>5, <2>8, Rows DEF At, In
  <2>9. CASE table = "make"
    <3>1. (row = 1 /\ e = {}) \/ (row \in {3, 4, 5} /\ e = menu.sel)
      BY <1>1, <2>1, <2>2, <2>5, <2>9, Rows DEF At
    <3>2. row \in {3, 4, 5} => menu.sel \subseteq Pool
      BY <2>1, <2>3, <2>9 DEF SelIs, In
    <3> QED
      BY <2>1, <2>9, <3>1, <3>2 DEF In
  <2>10. CASE table = "unconfig"
    <3>1. (row = 1 /\ e = {}) \/ (row \in {3, 4, 5} /\ e = menu.sel)
      BY <1>1, <2>1, <2>2, <2>5, <2>10, Rows DEF At
    <3>2. row \in {3, 4, 5} => menu.sel \subseteq Pool
      BY <2>1, <2>3, <2>10 DEF SelIs, In
    <3> QED
      BY <2>1, <2>10, <3>1, <3>2 DEF In
  <2>11. CASE table \notin {"single", "third", "forth", "make", "unconfig"}
    BY <2>1, <2>11 DEF In
  <2> QED
    BY <2>6, <2>7, <2>8, <2>9, <2>10, <2>11
<1>3. CASE EndOfTable
  <2>1. UNCHANGED menu /\ pc = "row" /\ SelIs
    BY <1>3, Follows DEF SelInv, Handling
  <2>2. CASE /\ pc' = "row" /\ row' = 1
             /\ table' \in {"second", "third", "fifth"}
    BY <2>2 DEF SelInv, SelIs, In
  <2>3. CASE pc' = "row" /\ row' = 1 /\ table = "third" /\ row = 2 /\ table' = "forth"
    <3>1. menu.sel = {}
      BY <2>1, <2>3 DEF SelIs, In
    <3> QED
      BY <2>1, <2>3, <3>1 DEF SelInv, SelIs, In
  <2>4. CASE table' = "delete"
    BY <2>4 DEF SelInv, SelIs, In
  <2>5. CASE Handling' => table' \in {"clearB", "clearD"}
    BY <2>5, Cleared
  <2> QED
    BY <1>3, <2>2, <2>3, <2>4, <2>5, Follows
<1>4. CASE StartCmd
  <2>1. row' = 1 /\ pc' = "row" /\ table' \in {"first", "single", "delete", "make", "unconfig"}
    BY <1>4, StartsWith
  <2> QED
    BY <2>1 DEF SelInv, SelIs, In
<1>5. CASE StartChoice
  <2>1. /\ pc = "row" /\ row <= Len(Tables[table]) /\ op = "choose" /\ list' = Listed /\ alive' = 1
        /\ hdd' = 1 /\ pc' = "choose"
        /\ UNCHANGED <<cmds, k, table, row, grp, menu, good, jbod>>
    BY <1>5 DEF StartChoice, AtRow, card
  <2>2. row \in 1..Len(Tables[table])
    BY <2>1, NextRow
  <2>3. \/ (table = "single" /\ row = 4) \/ (table = "forth" /\ row = 1)
        \/ (table \in {"delete", "make", "unconfig"} /\ row = 2)
    BY <1>1, <2>1, <2>2, Rows DEF At
  <2>4. table # "delete" => menu.sel = {}
    BY <2>1, <2>3 DEF SelInv, SelIs, Handling, In
  <2>5. table # "delete" => Listed \subseteq Pool
    BY <2>3 DEF Listed, Pool
  <2>6. Pool' = Pool /\ group' = group
    BY <2>1 DEF Pool, group, cmd
  <2>7. Len(group) \in Nat
    BY <2>1, DriveAt DEF Handling
  <2>8. {group[h].name : h \in 1..(1 - 1)} = {} /\ 1 <= Len(group) + 1
    BY <2>7
  <2> QED
    BY <2>1, <2>4, <2>5, <2>6, <2>8 DEF SelInv, SelIs
<1>6. CASE ChooseHdd
  <2>1. /\ pc = "choose" /\ pc' = "choose" /\ hdd <= Len(group) /\ (d.name \in list \/ alive = 0)
        /\ menu' = [menu EXCEPT !.sel = @ \cup {d.name}] /\ hdd' = hdd + 1 /\ table # "delete"
        /\ UNCHANGED <<cmds, k, table, row, grp, list, alive, good, jbod>>
    BY <1>6 DEF ChooseHdd, Found, AtDrive, card
  <2>2. menu'.sel = menu.sel \cup {d.name}
    BY <1>1, <2>1 DEF Menu
  <2>3. Pool' = Pool /\ group' = group
    BY <2>1 DEF Pool, group, cmd
  <2>4. SelIs
    BY <2>1 DEF SelInv, Handling
  <2>5. CASE table \in {"single", "forth", "make", "unconfig"}
    <3>1. alive = 1 /\ list \subseteq Pool /\ menu.sel \subseteq list
      BY <2>1, <2>4, <2>5 DEF SelIs
    <3>2. alive' = 1 /\ list' \subseteq Pool' /\ menu'.sel \subseteq list'
      BY <2>1, <2>2, <2>3, <3>1
    <3>3. ASSUME table \in {"single", "forth"}
          PROVE  menu'.sel = {group[h].name : h \in 1..(hdd' - 1)} /\ hdd' <= Len(group) + 1
      <4>1. menu.sel = {group[h].name : h \in 1..(hdd - 1)}
        BY <2>1, <2>4, <3>3 DEF SelIs
      <4>2. Len(group) \in Nat
        BY <2>1, DriveAt DEF Handling
      <4>3. hdd' - 1 = hdd /\ hdd' <= Len(group) + 1 /\ 1..hdd = 1..(hdd - 1) \cup {hdd}
        BY <1>1, <2>1, <4>2
      <4>4. {group[h].name : h \in 1..hdd} = {group[h].name : h \in 1..(hdd - 1)} \cup {group[hdd].name}
        BY <4>3
      <4> QED
        BY <2>2, <4>1, <4>3, <4>4 DEF d
    <3> QED
      BY <2>1, <2>3, <3>2, <3>3 DEF SelInv, SelIs
  <2>6. CASE table \notin {"single", "forth", "make", "unconfig"}
    BY <2>1, <2>6 DEF SelInv, SelIs, In
  <2> QED
    BY <2>5, <2>6
<1>7. CASE SkipDrive
  <2>1. /\ pc = "choose" /\ pc' = "choose" /\ cmd.specie # "B"
        /\ UNCHANGED <<cmds, k, table, row, grp, list, alive, menu, good, jbod>>
    BY <1>7 DEF SkipDrive, NotFound, AtDrive, card
  <2>2. table \notin {"single", "forth"}
    BY <2>1, WhoseTable DEF Handling, BuildTables
  <2>3. Pool' = Pool
    BY <2>1 DEF Pool
  <2> QED
    BY <2>1, <2>2, <2>3 DEF SelInv, SelIs, Handling
<1>8. CASE DeleteDrive
  BY <1>8 DEF DeleteDrive, Go, SelInv, SelIs, In
<1>9. CASE EndOfChoice /\ chosen = 1
  <2>1. /\ Handling /\ pc = "choose" /\ pc' = "row" /\ row' = row + 1 /\ hdd > Len(group)
        /\ UNCHANGED <<table, cmds, k, grp, hdd, menu, good, jbod>>
        /\ \/ (table = "single" /\ row = 4) \/ (table = "forth" /\ row = 1)
           \/ (table \in {"delete", "make", "unconfig"} /\ row = 2)
    BY <1>9, Chosen DEF card
  <2>2. Pool' = Pool /\ group' = group
    BY <2>1 DEF Pool, group, cmd
  <2>3. SelIs
    BY <2>1 DEF SelInv
  <2>4. CASE table = "delete"
    BY <2>1, <2>4 DEF SelInv, SelIs, In
  <2>5. CASE table \in {"make", "unconfig"}
    <3>1. menu.sel \subseteq Pool
      BY <2>1, <2>3, <2>5 DEF SelIs
    <3> QED
      BY <2>1, <2>2, <2>5, <3>1 DEF SelInv, SelIs, In
  <2>6. CASE table \in {"single", "forth"}
    <3>1. /\ menu.sel \subseteq list /\ list \subseteq good
          /\ menu.sel = {group[h].name : h \in 1..(hdd - 1)} /\ hdd <= Len(group) + 1
      BY <2>1, <2>3, <2>6 DEF SelIs, Pool
    <3>2. Len(group) \in Nat
      BY <2>1, DriveAt
    <3>3. hdd - 1 = Len(group)
      BY <1>1, <2>1, <3>1, <3>2
    <3>4. menu'.sel = Names(group') /\ menu'.sel \subseteq good'
      BY <2>1, <2>2, <3>1, <3>3 DEF Names
    <3>5. (table = "single" /\ row' = 5) \/ (table = "forth" /\ row' = 2)
      BY <2>1, <2>6
    <3> QED
      BY <2>1, <3>4, <3>5 DEF SelInv, SelIs, In
  <2> QED
    BY <2>1, <2>4, <2>5, <2>6
<1>10. CASE Fails /\ Handling
  BY <1>10, FailsLeaves, Cleared
<1>11. CASE PressYes
  BY <1>11, AfterYes
<1>12. CASE UNCHANGED vars
  <2>1. UNCHANGED <<table, row, cmds, k, menu, pc, grp, hdd, list, alive, good, jbod>>
    BY <1>12 DEF vars, control, card
  <2>2. Pool' = Pool /\ group' = group
    BY <2>1 DEF Pool, group, cmd
  <2> QED
    BY <2>1, <2>2 DEF SelInv, SelIs, In, Handling
<1>13. CASE ~Handling'
  BY <1>13 DEF SelInv
<1> QED
  BY <1>2, <1>3, <1>4, <1>5, <1>6, <1>7, <1>8, <1>9, <1>10, <1>11, <1>12, <1>13, Kinds

\* As many names as numbers, when no two are the same.
LEMMA CountNames ==
  ASSUME NEW g, NEW n \in Nat, Len(g) = n,
         \A h, m \in 1..n : g[h].name = g[m].name => h = m
  PROVE  Cardinality(Names(g)) = n
<1> DEFINE f == [h \in 1..n |-> g[h].name]
           S == Names(g)
<1>1. f \in [1..n -> S] /\ (\A h, m \in 1..n : f[h] = f[m] => h = m)
      /\ \A y \in S : \E h \in 1..n : f[h] = y
  BY DEF Names
<1> HIDE DEF f, S
<1>2. f \in Bijection(1..n, S)
  BY <1>1 DEF Bijection, Injection, Surjection, IsInjective
<1>3. ExistsBijection(1..n, S)
  BY <1>2 DEF ExistsBijection
<1> QED
  BY <1>3, FS_CountingElements DEF S

\* The groups that a build uses: their drives are those of the numbers of the text, as
\* many as there are numbers, and none is in two of them.
LEMMA UsedDrives ==
  ASSUME IInv, Handling, cmd.specie = "B"
  PROVE  LET t == Parsed[k]
             u == Used(t)
         IN  /\ Len(u) \in Nat /\ Len(u) = IF Spanned(cmd) THEN Len(cmd.groups) ELSE 1
             /\ LevelOf(cmd) = LevelOf(t) /\ cmd.size = t.size
             /\ \A g \in 1..Len(u) :
                  /\ Names(cmd.groups[g]) = Named(u[g])
                  /\ Cardinality(Names(cmd.groups[g])) = Len(u[g])
                  /\ \A j \in 1..Len(u) :
                       Names(cmd.groups[g]) \cap Names(cmd.groups[j]) # {} => g = j
<1> USE DEF IInv
<1> DEFINE t == Parsed[k]
           p == ParsedGroups(t)
           G == cmd.groups
           u == Used(t)
           w == UsedGroups(cmd)
<1>1. /\ k \in 1..Len(cmds) /\ cmd \in Command /\ Examined(cmd)
      /\ Len(G) \in Nat /\ Len(G) >= 1 /\ G \in Seq(Seq(Hdd))
      /\ \A g \in 1..Len(G) : /\ Len(G[g]) \in Nat
                              /\ \A h \in 1..Len(G[g]) : G[g][h].num \in Nat
  BY AtCommand, CommandParts
<1>2. Len(cmds) = Len(Parsed) /\ CommandOf(cmd, t) /\ LookedUp(cmd)
  BY <1>1 DEF ParsedInv, cmd, Handling
<1>3. /\ cmd.level = t.level /\ cmd.size = t.size /\ Len(G) = Len(p)
      /\ \A g \in 1..Len(G) :
           /\ Len(G[g]) = Len(p[g])
           /\ \A h \in 1..Len(G[g]) : G[g][h].num = p[g][h] /\ G[g][h] = Collected(cmd, p[g][h])
  BY <1>2 DEF CommandOf, LookedUp
<1>4. LevelOf(cmd) = LevelOf(t)
  BY <1>3 DEF LevelOf
<1>5. t \in Sections
  <2>1. Parsed \in Seq(Sections) /\ k \in 1..Len(Parsed)
    BY <1>1, <1>2, ParsedType, RaidCommandsAssumption DEF DriverInv
  <2>2. t \in Sections
    <3> HIDE DEF Sections
    <3> QED
      BY <2>1
  <2> QED
    BY <2>2 DEF Sections
<1>6. p \in Seq(Seq(Nat)) /\ \A g \in 1..Len(p) : p[g] \in Seq(Nat)
  <2> HIDE DEF Sections
  <2> QED
    BY <1>5, GroupsOf
<1> DEFINE N == IF Spanned(cmd) THEN Len(G) ELSE 1
<1>7. N \in Nat /\ N <= Len(G) /\ N >= 1
  BY <1>1
<1>8. w = SubSeq(G, 1, N) \/ (w = G /\ N = Len(G))
  BY DEF UsedGroups
<1>9. u = SubSeq(p, 1, N) \/ (u = p /\ N = Len(p))
  BY <1>3, <1>4 DEF Used, Spanned
<1> HIDE DEF p, G, N, w, u
<1>10. Len(w) = N /\ \A g \in 1..N : w[g] = G[g]
  <2> DEFINE S == Seq(Hdd)
  <2>1. G \in Seq(S)
    BY <1>1
  <2> HIDE DEF S
  <2> QED
    BY <1>7, <1>8, <2>1, SubSeqProperties
<1>11. Len(u) = N /\ \A g \in 1..N : u[g] = p[g]
  <2> DEFINE S == Seq(Nat)
  <2>1. p \in Seq(S)
    BY <1>6
  <2> HIDE DEF S
  <2> QED
    BY <1>3, <1>7, <1>9, <2>1, SubSeqProperties
<1>12. \A g \in 1..N : g \in 1..Len(G)
  BY <1>1, <1>7
\* What the examination has found.
<1>13. \A g \in 1..N : \A h \in 1..Len(G[g]) :
         /\ G[g][h].name # None
         /\ \A j \in 1..N : \A m \in 1..Len(G[j]) :
              G[g][h].num = G[j][m].num => g = j /\ h = m
  <2>1. \A g \in 1..Len(w) : \A h \in 1..Len(w[g]) :
          /\ w[g][h].name # None
          /\ \A j \in 1..Len(w) : \A m \in 1..Len(w[j]) :
               w[g][h].num = w[j][m].num => g = j /\ h = m
    BY <1>1 DEF Examined, ExamineForCmdGroup, w
  <2> QED
    BY <1>10, <2>1
<1>14. \A g \in 1..N : \A h \in 1..Len(G[g]) :
         /\ p[g][h] \in 1..Len(Items) /\ G[g][h].num = p[g][h]
         /\ G[g][h].name = Items[p[g][h]].name
  <2> SUFFICES ASSUME NEW g \in 1..N, NEW h \in 1..Len(G[g])
               PROVE  /\ p[g][h] \in 1..Len(Items) /\ G[g][h].num = p[g][h]
                      /\ G[g][h].name = Items[p[g][h]].name
    OBVIOUS
  <2> DEFINE n == p[g][h]
  <2>1. g \in 1..Len(G)
    BY <1>12
  <2>2. G[g][h].num = n /\ G[g][h] = Collected(cmd, n) /\ G[g][h].num \in Nat
    BY <1>1, <1>3, <2>1
  <2>3. G[g][h].name # None
    BY <1>13
  <2> HIDE DEF n
  <2>4. n \in 1..Len(Items) /\ Collected(cmd, n).name = Items[n].name
    BY <1>1, <2>2, <2>3, CollectedType
  <2> QED
    BY <2>2, <2>4 DEF n
\* No two drives have a name in common.
<1>15. \A g, j \in 1..N : \A h \in 1..Len(G[g]) : \A m \in 1..Len(G[j]) :
         G[g][h].name = G[j][m].name => g = j /\ h = m
  <2> SUFFICES ASSUME NEW g \in 1..N, NEW j \in 1..N, NEW h \in 1..Len(G[g]), NEW m \in 1..Len(G[j]),
                      G[g][h].name = G[j][m].name
               PROVE  g = j /\ h = m
    OBVIOUS
  <2>1. p[g][h] = p[j][m]
    <3> DEFINE a == p[g][h]
               b == p[j][m]
    <3>1. a \in 1..Len(Items) /\ b \in 1..Len(Items) /\ Items[a].name = Items[b].name
      BY <1>14
    <3>2. \A x, y \in 1..Len(Items) : Items[x].name = Items[y].name => x = y
      BY RaidCommandsAssumption
    <3> HIDE DEF a, b
    <3>3. a = b
      BY <3>1, <3>2
    <3> QED
      BY <3>3 DEF a, b
  <2> QED
    BY <1>13, <1>14, <2>1
<1>16. ASSUME NEW g \in 1..N
       PROVE  /\ Names(G[g]) = Named(p[g]) /\ Cardinality(Names(G[g])) = Len(p[g])
              /\ \A j \in 1..N : Names(G[g]) \cap Names(G[j]) # {} => g = j
  <2>1. Len(G[g]) = Len(p[g]) /\ Len(G[g]) \in Nat /\ p[g] \in Seq(Nat)
    BY <1>1, <1>3, <1>6, <1>12
  <2>2. Cardinality(Names(G[g])) = Len(p[g])
    <3> DEFINE q == G[g]
               n == Len(p[g])
    <3>1. n \in Nat /\ Len(q) = n
      BY <2>1
    <3>2. \A h, m \in 1..n : q[h].name = q[m].name => h = m
      BY <1>15, <2>1
    <3> HIDE DEF q, n
    <3>3. Cardinality(Names(q)) = n
      BY <3>1, <3>2, CountNames
    <3> QED
      BY <3>3 DEF q, n
  <2>3. Names(G[g]) = Named(p[g])
    <3> DEFINE q == p[g]
    <3>1. Range(q) = {q[h] : h \in 1..Len(q)}
      BY <2>1 DEF Range
    <3>2. \A h \in 1..Len(q) : q[h] \in 1..Len(Items) /\ G[g][h].name = Items[q[h]].name
      BY <1>14, <2>1
    <3> HIDE DEF q
    <3>3. Named(q) = {Items[n].name : n \in {q[h] : h \in 1..Len(q)} \cap 1..Len(Items)}
      BY <3>1 DEF Named
    <3>4. Len(G[g]) = Len(q)
      BY <2>1 DEF q
    <3>5. Named(q) = {G[g][h].name : h \in 1..Len(q)}
      BY <3>2, <3>3
    <3> QED
      BY <3>4, <3>5 DEF Names, q
  <2>4. ASSUME NEW j \in 1..N, Names(G[g]) \cap Names(G[j]) # {} PROVE g = j
    <3>1. PICK h \in 1..Len(G[g]), m \in 1..Len(G[j]) : G[g][h].name = G[j][m].name
      BY <2>4 DEF Names
    <3> QED
      BY <1>15, <3>1
  <2> QED
    BY <2>2, <2>3, <2>4
<1>17. /\ Len(u) \in Nat /\ Len(u) = N
       /\ \A g \in 1..Len(u) :
                  /\ Names(G[g]) = Named(u[g])
                  /\ Cardinality(Names(G[g])) = Len(u[g])
                  /\ \A j \in 1..Len(u) : Names(G[g]) \cap Names(G[j]) # {} => g = j
  BY <1>7, <1>11, <1>16
<1> QED
  BY <1>3, <1>4, <1>17 DEF u, N, G

\* The virtual drive that a save builds is the one that the text describes, of drives
\* that nothing else uses.
LEMMA SavedIs ==
  ASSUME IInv, FormInv, SpansInv, AtRow, arg = "yes", table \in {"single", "fifth"}
  PROVE  LET v == [cmd |-> k, spans |-> menu.spans, level |-> menu.level, size |-> menu.size]
             u == Used(Parsed[k])
         IN  /\ menu.warn = "save" /\ v = Described(k) /\ DOMAIN v.spans = 1..Len(u)
             /\ \A n \in 1..Len(u) :
                  /\ Cardinality(v.spans[n]) = Len(u[n]) /\ v.spans[n] \subseteq good
                  /\ \A m \in 1..Len(u) : v.spans[m] \cap v.spans[n] # {} => m = n
<1> USE DEF IInv
<1> DEFINE t == Parsed[k]
           u == Used(t)
           s == menu.spans
           v == [cmd |-> k, spans |-> s, level |-> menu.level, size |-> menu.size]
<1>1. Handling /\ pc = "row" /\ row <= Len(Tables[table])
  BY DEF AtRow, Handling
<1>2. (table = "single" /\ row = 10) \/ (table = "fifth" /\ row = 5)
  <2>1. table \in DOMAIN Tables /\ row \in 1..Len(Tables[table])
    BY <1>1, NextRow DEF DriverInv
  <2> QED
    BY <2>1, Rows DEF At
<1>3. menu.warn = "save" /\ menu.level = LevelOf(cmd) /\ menu.size = cmd.size
  BY <1>1, <1>2 DEF FormInv, FormIs, In
<1>4. /\ cmd.specie = "B" /\ (table = "single" => ~Spanned(cmd))
      /\ (table = "fifth" => Spanned(cmd))
  BY <1>1, WhoseTable DEF BuildTables
<1>5. /\ Len(u) \in Nat /\ Len(u) = IF Spanned(cmd) THEN Len(cmd.groups) ELSE 1
      /\ LevelOf(cmd) = LevelOf(t) /\ cmd.size = t.size
      /\ \A g \in 1..Len(u) :
           /\ Names(cmd.groups[g]) = Named(u[g]) /\ Cardinality(Names(cmd.groups[g])) = Len(u[g])
           /\ \A j \in 1..Len(u) : Names(cmd.groups[g]) \cap Names(cmd.groups[j]) # {} => g = j
  BY <1>1, <1>4, UsedDrives
<1>6. Applied(s, Len(u), cmd, good)
  BY <1>1, <1>2, <1>4, <1>5 DEF SpansInv, SpansAsFar, In
<1>7. s \in Seq(SUBSET Drive)
  BY DEF CardInv, Menu
<1> HIDE DEF s, u
<1>8. /\ Len(s) = Len(u)
      /\ \A n \in 1..Len(u) : s[n] = Names(cmd.groups[n]) /\ s[n] \subseteq good
  BY <1>6 DEF Applied
<1>9. s = [n \in 1..Len(u) |-> Named(u[n])] /\ DOMAIN s = 1..Len(u)
  <2> DEFINE S == SUBSET Drive
  <2>1. s \in Seq(S)
    BY <1>7
  <2> HIDE DEF S
  <2>2. s \in [1..Len(u) -> S]
    BY <1>8, <2>1
  <2> QED
    BY <1>5, <1>8, <2>2
<1>10. v = Described(k)
  BY <1>3, <1>5, <1>9 DEF Described, u
<1>11. \A n \in 1..Len(u) :
         /\ Cardinality(s[n]) = Len(u[n]) /\ s[n] \subseteq good
         /\ \A m \in 1..Len(u) : s[m] \cap s[n] # {} => m = n
  BY <1>5, <1>8
<1>12. v.spans = s
  OBVIOUS
<1> HIDE DEF v
<1>13. /\ menu.warn = "save" /\ v = Described(k) /\ DOMAIN v.spans = 1..Len(u)
       /\ \A n \in 1..Len(u) :
            /\ Cardinality(v.spans[n]) = Len(u[n]) /\ v.spans[n] \subseteq good
            /\ \A m \in 1..Len(u) : v.spans[m] \cap v.spans[n] # {} => m = n
  BY <1>3, <1>9, <1>10, <1>11, <1>12
<1> QED
  BY <1>13 DEF v, u, s

\* The drives change their use only by an answered warning.
LEMMA CardMoves ==
  ASSUME [Next]_vars
  PROVE  text' = text /\ (UNCHANGED card \/ (AtRow /\ arg = "yes" /\ Done(menu)))
<1>1. CASE PressYes \/ RowFails
  BY <1>1 DEF PressYes, RowFails
<1>2. CASE ParseRaidCfgCmdString \/ CollectCfgCmdData \/ ExamineBasicForCmdRequire
           \/ SkipCmd \/ StartCmd \/ AllHandled
  BY <1>2 DEF ParseRaidCfgCmdString, CollectCfgCmdData, ExamineBasicForCmdRequire, SkipCmd,
              StartCmd, AllHandled
<1>3. CASE Touch \/ RowRefused \/ EndOfTable \/ NothingListed \/ StartChoice
  BY <1>3 DEF Touch, RowRefused, EndOfTable, NothingListed, StartChoice
<1>4. CASE ChooseHdd \/ ChooseFails \/ WrongType \/ DeleteDrive \/ SkipDrive \/ DriveMissing
           \/ EndOfChoice
  BY <1>4 DEF ChooseHdd, ChooseFails, WrongType, DeleteDrive, SkipDrive, DriveMissing, EndOfChoice
<1>5. CASE UNCHANGED vars
  BY <1>5 DEF vars
<1> QED
  BY <1>1, <1>2, <1>3, <1>4, <1>5 DEF Next, Handle, Finished

\* Every drive keeps one use, and what is built is what was described.
LEMMA UseStep ==
  ASSUME IInv, FormInv, SpansInv, SelInv, UseInv, BuiltInv, [Next]_vars
  PROVE  UseInv' /\ BuiltInv'
<1> USE DEF IInv
<1>1. text' = text
  BY CardMoves
<1>2. Parsed' = Parsed
  BY <1>1, TextSame
<1>3. ASSUME built' = built PROVE BuiltInv'
  <2>1. \A n : Described(n)' = Described(n)
    BY <1>2 DEF Described
  <2> QED
    BY <1>2, <1>3, <2>1 DEF BuiltInv
<1>4. CASE UNCHANGED card
  BY <1>3, <1>4 DEF UseInv, card
<1>5. CASE AtRow /\ arg = "yes" /\ Done(menu)
  <2>1. Handling /\ pc = "row" /\ row <= Len(Tables[table]) /\ menu \in Menu
    BY <1>5 DEF AtRow, Handling, CardInv
  <2>2. \/ table \in {"single", "fifth"} \/ (table = "raidRef" /\ row = 5)
        \/ (table \in {"make", "unconfig"} /\ row = 5)
    <3>1. table \in DOMAIN Tables /\ row \in 1..Len(Tables[table])
      BY <2>1, NextRow DEF DriverInv
    <3> QED
      BY <1>5, <3>1, Rows DEF At
  <2>3. CASE table = "raidRef" /\ row = 5
    <3>1. menu.warn = "delete"
      BY <2>1, <2>3 DEF FormInv, FormIs, In
    <3>2. UNCHANGED <<good, jbod, built>>
      BY <1>5, <3>1 DEF Done
    <3> QED
      BY <1>3, <3>2 DEF UseInv
  <2>4. CASE table \in {"make", "unconfig"} /\ row = 5
    <3>1. menu.warn = table /\ menu.sel \subseteq Pool
      BY <2>1, <2>4 DEF FormInv, FormIs, SelInv, SelIs, In
    <3>2. CASE table = "make"
      <4>1. good' = good \ menu.sel /\ jbod' = jbod \cup menu.sel /\ built' = built
        BY <1>5, <3>1, <3>2 DEF Done
      <4> QED
        BY <1>3, <3>1, <3>2, <4>1 DEF UseInv, Pool
    <3>3. CASE table = "unconfig"
      <4>1. good' = good \cup menu.sel /\ jbod' = jbod \ menu.sel /\ built' = built
        BY <1>5, <3>1, <3>3 DEF Done
      <4> QED
        BY <1>3, <3>1, <3>3, <4>1 DEF UseInv, Pool
    <3> QED
      BY <2>4, <3>2, <3>3
  <2>5. CASE table \in {"single", "fifth"}
    <3> DEFINE v == [cmd |-> k, spans |-> menu.spans, level |-> menu.level, size |-> menu.size]
               u == Used(Parsed[k])
    <3>1. /\ menu.warn = "save" /\ v = Described(k) /\ DOMAIN v.spans = 1..Len(u)
          /\ \A n \in 1..Len(u) :
               /\ Cardinality(v.spans[n]) = Len(u[n]) /\ v.spans[n] \subseteq good
               /\ \A m \in 1..Len(u) : v.spans[m] \cap v.spans[n] # {} => m = n
      BY <1>5, <2>5, SavedIs
    <3>2. /\ built' = built \cup {v} /\ jbod' = jbod
          /\ good' = good \ UNION {menu.spans[n] : n \in 1..Len(menu.spans)}
      BY <1>5, <3>1 DEF Done
    <3>3. v.cmd = k /\ v.spans = menu.spans
      OBVIOUS
    <3>4. DOMAIN v.spans = 1..Len(menu.spans)
      <4> DEFINE S == SUBSET Drive
                 s == menu.spans
      <4>1. s \in Seq(S)
        BY <2>1 DEF Menu
      <4> HIDE DEF S, s
      <4>2. DOMAIN s = 1..Len(s)
        BY <4>1
      <4> QED
        BY <3>3, <4>2 DEF s
    <3> HIDE DEF v, u
    <3>5. \A n \in DOMAIN v.spans : v.spans[n] \cap good' = {} /\ v.spans[n] \subseteq good
      BY <3>1, <3>2, <3>3, <3>4
    <3>6. good' \subseteq good
      BY <3>2
    <3>7. UseInv'
      BY <3>2, <3>5, <3>6 DEF UseInv
    <3>8. ASSUME NEW b \in built' PROVE b = Described(b.cmd)
      BY <3>1, <3>2, <3>3 DEF BuiltInv
    <3>9. ASSUME NEW b \in built', NEW n \in DOMAIN b.spans
          PROVE  Cardinality(b.spans[n]) = Len(Used(Parsed[b.cmd])[n])
      BY <3>1, <3>2, <3>3 DEF BuiltInv, u
    <3>10. ASSUME NEW b \in built', NEW n \in DOMAIN b.spans, NEW c \in built',
                  NEW m \in DOMAIN c.spans, c.spans[m] \cap b.spans[n] # {}
           PROVE  c = b /\ m = n
      <4>1. CASE b \in built /\ c \in built
        BY <3>10, <4>1 DEF BuiltInv
      <4>2. CASE b = v /\ c = v
        BY <3>1, <3>10, <4>2
      <4>3. CASE b = v /\ c \in built
        BY <3>5, <3>10, <4>3 DEF UseInv
      <4>4. CASE b \in built /\ c = v
        BY <3>5, <3>10, <4>4 DEF UseInv
      <4> QED
        BY <3>2, <4>1, <4>2, <4>3, <4>4
    <3>11. \A n : Described(n)' = Described(n)
      BY <1>2 DEF Described
    <3>12. BuiltInv'
      BY <1>2, <3>8, <3>9, <3>10, <3>11 DEF BuiltInv
    <3> QED
      BY <3>7, <3>12
  <2> QED
    BY <2>2, <2>3, <2>4, <2>5
<1> QED
  BY <1>4, <1>5, CardMoves

\* The forms hold at each row what the command has entered so far, a drive has one use,
\* and what is built is what was described.
THEOREM BuildInvariance == Spec => []BInv
<1>1. Init => BInv
  <2> SUFFICES ASSUME Init PROVE BInv
    OBVIOUS
  <2>1. FormInv /\ SpansInv /\ SelInv
    BY DEF Init, Handling, FormInv, SpansInv, SelInv
  <2>2. OfType("HDG") \cap OfType("JBOD") = {}
    <3> SUFFICES ASSUME NEW x, x \in OfType("HDG"), x \in OfType("JBOD") PROVE FALSE
      OBVIOUS
    <3>1. PICK m \in 1..Len(Items) : Items[m].type = "HDG" /\ x = Items[m].name
      BY DEF OfType
    <3>2. PICK n \in 1..Len(Items) : Items[n].type = "JBOD" /\ x = Items[n].name
      BY DEF OfType
    <3>3. m = n
      BY <3>1, <3>2, RaidCommandsAssumption
    <3> QED
      BY <3>1, <3>2, <3>3
  <2> QED
    BY <2>1, <2>2 DEF Init, BInv, UseInv, BuiltInv
<1>2. IInv /\ BInv /\ [Next]_vars => BInv'
  BY FormStep, SpansStep, SelStep, UseStep DEF BInv
<1> QED
  BY <1>1, <1>2, Invariance, PTL DEF Spec

\* The sections of a text that the parsers take are the text.
LEMMA WellFormedText ==
  ASSUME NEW t \in Commanding, WellFormed(t)
  PROVE  /\ Analysed(t).level = t.level /\ Analysed(t).size = t.size
         /\ ParsedGroups(Analysed(t)) = t.groups
<1> DEFINE R == Seq(Nat \cup {Bad})
           G == [g \in 1..Len(t.groups) |-> ParseCmdGroupSub(t.groups[g])]
<1>1. t.groups \in Seq(R)
  BY DEF Commanding, Text
<1>2. Analysed(t) \in Sections
  BY AnalysedType
<1>3. \A g \in 1..Len(t.groups) : ParseCmdGroupSub(t.groups[g]) = t.groups[g]
  BY DEF WellFormed, ParseCmdGroupSub
<1>4. G = t.groups
  <2> HIDE DEF R
  <2>1. Len(t.groups) \in Nat /\ \A g \in 1..Len(t.groups) : t.groups[g] \in R
    BY <1>1
  <2>2. G \in [1..Len(t.groups) -> R] /\ \A g \in 1..Len(t.groups) : G[g] = t.groups[g]
    BY <1>3, <2>1
  <2> HIDE DEF G
  <2>3. G \in Seq(R) /\ Len(G) = Len(t.groups)
    BY <2>1, <2>2, IsSequence
  <2> QED
    BY <1>1, <2>2, <2>3, SameElements
<1>5. Analysed(t).groups = t.groups
  BY <1>4 DEF Analysed
<1>6. \A g \in 1..Len(t.groups) : t.groups[g] # <<>>
  BY DEF WellFormed
<1>7. ParsedGroups(Analysed(t)) = t.groups
  <2> HIDE DEF Sections
  <2> QED
    BY <1>2, <1>5, <1>6, GroupsOf
<1>8. Analysed(t).level = ParseCmdRaidType(t.level) /\ Analysed(t).size = ParseCmdRaidSize(t.size)
  BY DEF Analysed
<1> QED
  BY <1>7, <1>8 DEF WellFormed, ParseCmdRaidType, ParseCmdRaidSize

\* HandleBuildRaidCmd: every virtual drive that is built is the one that the sections of
\* its command describe, for all programs, menus and failures of rows: its spans are the
\* groups with as many drives as numbers, and no drive is in two of them. A text that the
\* parsers take as a whole gets the level, the size and all the spans that it is written
\* with; of any other text what they do not take is left out, as BuildExact says.
THEOREM BuildsAreExact == Spec => []BuildExact
<1>1. IInv /\ BInv => BuildExact
  <2> SUFFICES ASSUME IInv, BInv, NEW b \in built, WellFormed(Written[b.cmd])
               PROVE  b = AsWritten(b.cmd)
    BY DEF BuildExact, BInv, BuiltInv
  <2> DEFINE n == b.cmd
             t == Written[n]
  <2>1. n \in 1..Len(cmds) /\ pc # "parse" /\ Len(cmds) = Len(Parsed)
    BY DEF IInv, CardInv, FlowInv, ParsedInv
  <2>2. t \in Commanding /\ Parsed[n] = Analysed(t)
    <3>1. text \in Seq(Text)
      BY RaidCommandsAssumption DEF IInv, DriverInv
    <3> QED
      BY <2>1, <3>1, ParsedType
  <2>3. /\ Parsed[n].level = t.level /\ Parsed[n].size = t.size
        /\ ParsedGroups(Parsed[n]) = t.groups
    BY <2>2, WellFormedText
  <2>4. b = Described(n)
    BY DEF BInv, BuiltInv
  <2>5. LevelOf(Parsed[n]) = LevelOf(t)
    BY <2>3 DEF LevelOf
  <2> HIDE DEF n
  <2>6. Described(n) = AsWritten(n)
    BY <2>3, <2>5 DEF Described, AsWritten, Used
  <2> QED
    BY <2>4, <2>6 DEF n
<1> QED
  BY <1>1, Invariance, BuildInvariance, PTL

-----------------------------------------------------------------------------
(* What the menus hold when the commands are carried out one by one.       *)

\* A warning is confirmed before it is answered.
ConfirmInv ==
  pc = "row" /\ (In("single", 10, 10) \/ In("fifth", 5, 5) \/ In("raidRef", 5, 5)
                   \/ In("make", 5, 5) \/ In("unconfig", 5, 5)) => menu.confirm = 1

\* The rows of a build behind the one that opens an empty form.
Filling ==
  \/ In("single", 2, 10) \/ In("first", 2, 3) \/ table \in {"second", "third", "forth"}
  \/ In("fifth", 1, 5)

\* A build is filled with drives that were unconfigured at the start.
HdgInv ==
  Handling /\ Filling =>
    /\ menu.sel \subseteq OfType("HDG")
    /\ \A n \in 1..Len(menu.spans) : menu.spans[n] \subseteq OfType("HDG")

\* The form still lists what it did when the choice began, and HddBeChoiced says
\* whether a drive was chosen.
ListInv ==
  pc = "choose" /\ table \in {"single", "forth", "make", "unconfig"} =>
    list = Listed /\ (chosen = 1 <=> menu.sel # {})

\* The drives that a JBOD command has chosen are those of its group that are listed.
JbodInv ==
  /\ pc = "choose" /\ table \in {"make", "unconfig"} =>
       menu.sel = {group[h].name : h \in 1..(hdd - 1)} \cap Pool /\ hdd <= Len(group) + 1
  /\ pc = "row" /\ (In("make", 3, 5) \/ In("unconfig", 3, 5)) =>
       menu.sel = Names(cmd.groups[1]) \cap Pool

FillInv == ConfirmInv /\ HdgInv /\ ListInv /\ JbodInv

\* No invariant of what is filled in speaks of the clearing tables.
LEMMA FillCleared ==
  ASSUME Handling' => table' \in {"clearB", "clearD"}
  PROVE  FillInv'
<1>1. CASE ~Handling'
  BY <1>1 DEF FillInv, ConfirmInv, HdgInv, ListInv, JbodInv, Handling
<1>2. CASE table' \in {"clearB", "clearD"}
  <2>1. \A x, y : /\ ~In("single", x, y)' /\ ~In("first", x, y)' /\ ~In("fifth", x, y)'
                  /\ ~In("raidRef", x, y)' /\ ~In("make", x, y)' /\ ~In("unconfig", x, y)'
    BY <1>2 DEF In
  <2> QED
    BY <1>2, <2>1 DEF FillInv, ConfirmInv, HdgInv, Filling, ListInv, JbodInv
<1> QED
  BY <1>1, <1>2

\* The confirmation of a menu after a row.
LEMMA TouchedConfirm ==
  ASSUME menu \in Menu, op = "confirm"
  PROVE  Touched.confirm = 1
BY DEF Touched, Menu

\* A warning is answered behind the row that confirms it.
LEMMA ConfirmStep ==
  ASSUME IInv, ConfirmInv, [Next]_vars
  PROVE  ConfirmInv'
<1> USE DEF IInv
<1>1. table \in DOMAIN Tables /\ menu \in Menu
  BY DEF DriverInv, CardInv
<1>2. CASE Touch
  <2>1. /\ row' = row + 1 /\ table' = table /\ menu' = Touched /\ row <= Len(Tables[table])
    BY <1>2 DEF Touch, AtRow
  <2>2. row \in 1..Len(Tables[table])
    BY <2>1, NextRow
  <2>3. (table = "single" /\ row = 9) \/ (table \in {"fifth", "raidRef", "make", "unconfig"} /\ row = 4)
          => op = "confirm"
    BY <1>1, <2>2, Rows DEF At
  <2>4. op = "confirm" => menu'.confirm = 1
    BY <1>1, <2>1, TouchedConfirm
  <2>5. row \in Int
    BY DEF DriverInv
  <2> QED
    BY <2>1, <2>3, <2>4, <2>5 DEF ConfirmInv, In
<1>3. CASE EndOfTable
  <2>1. row' = 1 \/ pc' = "choose" \/ (Handling' => table' \in {"clearB", "clearD"})
    BY <1>3, Follows
  <2> QED
    BY <2>1 DEF ConfirmInv, In, Handling
<1>4. CASE StartCmd
  <2>1. row' = 1
    BY <1>4, StartsWith
  <2> QED
    BY <2>1 DEF ConfirmInv, In
<1>5. CASE StartChoice \/ ChooseHdd \/ SkipDrive
  <2>1. pc' = "choose"
    BY <1>5 DEF StartChoice, ChooseHdd, SkipDrive, Found, NotFound, AtDrive
  <2> QED
    BY <2>1 DEF ConfirmInv
<1>6. CASE DeleteDrive
  BY <1>6 DEF DeleteDrive, Go, ConfirmInv, In
<1>7. CASE EndOfChoice /\ chosen = 1
  <2>1. /\ table' = table /\ row' = row + 1
        /\ \/ (table = "single" /\ row = 4) \/ (table = "forth" /\ row = 1)
           \/ (table \in {"delete", "make", "unconfig"} /\ row = 2)
    BY <1>7, Chosen
  <2> QED
    BY <2>1 DEF ConfirmInv, In
<1>8. CASE Fails /\ Handling
  <2>1. Handling' => table' \in {"clearB", "clearD"}
    BY <1>8, FailsLeaves
  <2> QED
    BY <2>1 DEF ConfirmInv, In, Handling
<1>9. CASE PressYes
  <2>1. /\ row <= Len(Tables[table]) /\ row' = row + 1 /\ table' = table /\ arg = "yes"
    BY <1>9 DEF PressYes, AtRow
  <2>2. row \in 1..Len(Tables[table])
    BY <2>1, NextRow
  <2>3. \/ (table = "single" /\ row = 10) \/ (table = "fifth" /\ row = 5)
        \/ (table = "raidRef" /\ row = 5) \/ (table = "make" /\ row = 5)
        \/ (table = "unconfig" /\ row = 5)
    BY <1>1, <2>1, <2>2, Rows DEF At
  <2> QED
    BY <2>1, <2>3 DEF ConfirmInv, In
<1>10. CASE UNCHANGED vars
  <2>1. table' = table /\ row' = row /\ menu' = menu /\ pc' = pc
    BY <1>10 DEF vars, control
  <2> QED
    BY <2>1 DEF ConfirmInv, In
<1>11. CASE ~Handling'
  BY <1>11 DEF ConfirmInv, Handling
<1> QED
  BY <1>2, <1>3, <1>4, <1>5, <1>6, <1>7, <1>8, <1>9, <1>10, <1>11, Kinds

\* The drive at hand is the one of its number.
LEMMA DriveIs ==
  ASSUME IInv, Handling, hdd <= Len(group)
  PROVE  /\ d = Collected(cmd, d.num) /\ d.num \in Nat
         /\ d.num \in 1..Len(Items) => d.name = Items[d.num].name /\ d.name \in Drive
         /\ d.num \notin 1..Len(Items) => d.name = None
         /\ cmd.specie = "B" /\ d.name # None => (d.type = "HDG" <=> d.name \in OfType("HDG"))
<1> USE DEF IInv
<1> DEFINE g == IF table = "forth" THEN grp ELSE 1
           n == d.num
<1>1. cmd \in Command /\ k \in 1..Len(cmds) /\ Len(cmd.groups) \in Nat /\ Len(cmd.groups) >= 1
  BY AtCommand
<1>2. g \in 1..Len(cmd.groups) /\ group = cmd.groups[g]
  BY <1>1, DriveAt DEF group
<1>3. hdd \in 1..Len(group) /\ d \in Hdd /\ d = cmd.groups[g][hdd]
  BY <1>2, DriveAt DEF d
<1>4. LookedUp(cmd)
  BY <1>1 DEF ParsedInv, cmd, Handling
<1> HIDE DEF g
<1>5. d = Collected(cmd, n)
  BY <1>2, <1>3, <1>4 DEF LookedUp
<1>6. n \in Nat
  BY <1>3 DEF Hdd
<1> HIDE DEF n
<1>7. n \in 1..Len(Items) =>
        /\ d.name = Items[n].name /\ d.name \in Drive
        /\ d.type = IF Items[n].type = GetHddTypeByCmd(cmd) THEN Items[n].type ELSE None
  BY <1>5 DEF Collected, Drive
<1>8. n \notin 1..Len(Items) => d.name = None
  BY <1>5 DEF Collected, Unnamed
<1>9. ASSUME cmd.specie = "B", d.name # None PROVE d.type = "HDG" <=> d.name \in OfType("HDG")
  <2>1. n \in 1..Len(Items) /\ GetHddTypeByCmd(cmd) = "HDG"
    BY <1>8, <1>9 DEF GetHddTypeByCmd
  <2>2. CASE Items[n].type = "HDG"
    BY <1>7, <2>1, <2>2 DEF OfType
  <2>3. CASE Items[n].type # "HDG"
    <3>1. d.type = None
      BY <1>7, <2>1, <2>3
    <3>2. d.name \notin OfType("HDG")
      <4> SUFFICES ASSUME d.name \in OfType("HDG") PROVE FALSE
        OBVIOUS
      <4>1. PICK m \in 1..Len(Items) : Items[m].type = "HDG" /\ d.name = Items[m].name
        BY DEF OfType
      <4>2. m = n
        BY <1>7, <2>1, <4>1, RaidCommandsAssumption
      <4> QED
        BY <2>3, <4>1, <4>2
    <3>3. None # "HDG"
      BY RaidCommandsAssumption DEF Type
    <3> QED
      BY <3>1, <3>2, <3>3
  <2> QED
    BY <2>2, <2>3
<1> QED
  BY <1>5, <1>6, <1>7, <1>8, <1>9 DEF n

\* One more set is within the others' bound.
LEMMA AllAppend ==
  ASSUME NEW s \in Seq(SUBSET Drive), NEW e \in SUBSET Drive, NEW S, e \subseteq S,
         \A n \in 1..Len(s) : s[n] \subseteq S
  PROVE  \A n \in 1..Len(Append(s, e)) : Append(s, e)[n] \subseteq S
<1> DEFINE D == SUBSET Drive
           a == Append(s, e)
<1>1. s \in Seq(D) /\ e \in D
  OBVIOUS
<1> HIDE DEF D
<1>2. Len(a) = Len(s) + 1 /\ Len(s) \in Nat /\ a[Len(s) + 1] = e
      /\ \A n \in 1..Len(s) : a[n] = s[n]
  BY <1>1
<1> HIDE DEF a
<1>3. \A n \in 1..(Len(s) + 1) : n = Len(s) + 1 \/ n \in 1..Len(s)
  BY <1>2
<1>4. \A n \in 1..Len(a) : a[n] \subseteq S
  BY <1>2, <1>3
<1> QED
  BY <1>4 DEF a

\* The drives that are filled in were unconfigured at the start.
LEMMA HdgStep ==
  ASSUME IInv, HdgInv, [Next]_vars
  PROVE  HdgInv'
<1> USE DEF IInv
<1> DEFINE H == OfType("HDG")
           Within(m) == m.sel \subseteq H /\ \A n \in 1..Len(m.spans) : m.spans[n] \subseteq H
<1>1. table \in DOMAIN Tables /\ menu \in Menu /\ row \in Int
  BY DEF DriverInv, CardInv
<1>2. CASE Touch
  <2>1. /\ pc = "row" /\ row' = row + 1 /\ table' = table /\ op # "choose"
        /\ menu' = Touched /\ row <= Len(Tables[table])
    BY <1>2 DEF Touch, AtRow
  <2>2. row \in 1..Len(Tables[table])
    BY <2>1, NextRow
  <2> DEFINE new == op = "enter" /\ arg \in {"create", "drives", "make", "unconfig"}
  <2>3. CASE new
    <3>1. menu' = NoMenu
      BY <1>1, <2>1, <2>2, <2>3, TouchedFields
    <3>2. Within(NoMenu)
      BY DEF NoMenu
    <3> QED
      BY <3>1, <3>2 DEF HdgInv
  <2>4. CASE ~new /\ Filling
    <3>1. Within(menu)
      BY <2>1, <2>4 DEF HdgInv, Handling
    <3>2. /\ menu'.spans = IF op = "enter" /\ arg = "apply" THEN Append(menu.spans, menu.sel)
                           ELSE menu.spans
          /\ menu'.sel = IF op = "enter" /\ arg \in {"select", "apply"} THEN {} ELSE menu.sel
      BY <1>1, <2>1, <2>2, <2>4, TouchedFields
    <3>3. menu.spans \in Seq(SUBSET Drive) /\ menu.sel \in SUBSET Drive
      BY <1>1 DEF Menu
    <3> DEFINE a == Append(menu.spans, menu.sel)
    <3>4. \A n \in 1..Len(a) : a[n] \subseteq H
      BY <3>1, <3>3, AllAppend
    <3> HIDE DEF H, a
    <3>5. Within(menu')
      BY <3>1, <3>2, <3>4 DEF a
    <3> QED
      BY <3>5 DEF HdgInv, H
  <2>5. CASE ~new /\ ~Filling
    <3>1. ~Filling'
      BY <1>1, <2>1, <2>2, <2>5, Rows DEF Filling, In, At
    <3> QED
      BY <3>1 DEF HdgInv
  <2> QED
    BY <2>3, <2>4, <2>5
<1>3. CASE EndOfTable
  <2>1. menu' = menu /\ pc = "row"
    BY <1>3, Follows
  <2>2. CASE \/ (table = "first" /\ row = 3) \/ table \in {"second", "third", "forth"}
    BY <2>1, <2>2 DEF HdgInv, Filling, In, Handling
  <2>3. CASE table' = "delete"
    BY <2>3 DEF HdgInv, Filling, In
  <2>4. CASE Handling' => table' \in {"clearB", "clearD"}
    BY <2>4, FillCleared DEF FillInv
  <2> QED
    BY <1>3, <2>2, <2>3, <2>4, Follows
<1>4. CASE StartCmd
  <2>1. row' = 1 /\ table' \in {"first", "single", "delete", "make", "unconfig"}
    BY <1>4, StartsWith
  <2> QED
    BY <2>1 DEF HdgInv, Filling, In
<1>5. CASE StartChoice \/ SkipDrive
  <2>1. Handling /\ UNCHANGED <<table, row, menu>>
    BY <1>5 DEF StartChoice, SkipDrive, AtRow, NotFound, AtDrive, Handling
  <2> QED
    BY <2>1 DEF HdgInv, Filling, In
<1>6. CASE ChooseHdd
  <2>1. /\ Handling /\ UNCHANGED <<table, row>> /\ hdd <= Len(group) /\ d.name # None
        /\ cmd.specie = "B" => d.type = "HDG"
        /\ menu' = [menu EXCEPT !.sel = @ \cup {d.name}]
    BY <1>6 DEF ChooseHdd, Found, AtDrive, Handling
  <2>2. menu'.sel = menu.sel \cup {d.name} /\ menu'.spans = menu.spans
    BY <1>1, <2>1 DEF Menu
  <2> SUFFICES ASSUME Filling PROVE HdgInv'
    BY <2>1 DEF HdgInv, Filling, In
  <2>3. cmd.specie = "B"
    BY <2>1, WhoseTable DEF Filling, In, BuildTables
  <2>4. d.name \in H
    BY <2>1, <2>3, DriveIs
  <2>5. Within(menu)
    BY <2>1 DEF HdgInv
  <2> HIDE DEF H
  <2>6. Within(menu')
    BY <2>2, <2>4, <2>5
  <2> QED
    BY <2>6 DEF HdgInv, H
<1>7. CASE DeleteDrive
  BY <1>7 DEF DeleteDrive, Go, HdgInv, Filling, In
<1>8. CASE EndOfChoice /\ chosen = 1
  <2>1. /\ Handling /\ table' = table /\ row' = row + 1 /\ menu' = menu
        /\ \/ (table = "single" /\ row = 4) \/ table = "forth"
           \/ table \in {"delete", "make", "unconfig"}
    BY <1>8, Chosen
  <2> QED
    BY <2>1 DEF HdgInv, Filling, In
<1>9. CASE Fails /\ Handling
  BY <1>9, FailsLeaves, FillCleared DEF FillInv
<1>10. CASE PressYes
  <2>1. row <= Len(Tables[table]) /\ row' = row + 1 /\ table' = table /\ arg = "yes"
    BY <1>10 DEF PressYes, AtRow
  <2>2. row \in 1..Len(Tables[table])
    BY <2>1, NextRow
  <2>3. \/ (table = "single" /\ row = 10) \/ (table = "fifth" /\ row = 5)
        \/ table \in {"raidRef", "make", "unconfig"}
    BY <1>1, <2>1, <2>2, Rows DEF At
  <2> QED
    BY <2>1, <2>3 DEF HdgInv, Filling, In
<1>11. CASE UNCHANGED vars
  <2>1. table' = table /\ row' = row /\ menu' = menu /\ pc' = pc
    BY <1>11 DEF vars, control
  <2> QED
    BY <2>1 DEF HdgInv, Filling, In, Handling
<1>12. CASE ~Handling'
  BY <1>12 DEF HdgInv
<1> QED
  BY <1>2, <1>3, <1>4, <1>5, <1>6, <1>7, <1>8, <1>9, <1>10, <1>11, <1>12, Kinds

\* The list of a choice, and the drives that a JBOD command has chosen.
LEMMA ListStep ==
  ASSUME IInv, SelInv, ListInv, JbodInv, [Next]_vars
  PROVE  ListInv' /\ JbodInv'
<1> USE DEF IInv
<1>1. /\ table \in DOMAIN Tables /\ menu \in Menu /\ row \in Int /\ hdd \in Nat \ {0}
      /\ good \subseteq Drive /\ jbod \subseteq Drive
  BY DEF DriverInv, CardInv
<1>2. CASE Touch
  <2>1. /\ pc = "row" /\ pc' = "row" /\ row' = row + 1 /\ table' = table /\ op # "choose"
        /\ menu' = Touched /\ row <= Len(Tables[table]) /\ UNCHANGED <<cmds, k, good, jbod>>
    BY <1>2 DEF Touch, AtRow, card
  <2>2. row \in 1..Len(Tables[table])
    BY <2>1, NextRow
  <2>3. Pool' = Pool /\ cmd' = cmd
    BY <2>1 DEF Pool, cmd
  <2>4. ASSUME (In("make", 3, 5) \/ In("unconfig", 3, 5))'
        PROVE  menu'.sel = Names(cmd.groups[1]) \cap Pool
    <3>1. In("make", 3, 5) \/ In("unconfig", 3, 5)
      BY <1>1, <2>1, <2>2, <2>4, Rows DEF In, At
    <3>2. menu.sel = Names(cmd.groups[1]) \cap Pool
      BY <2>1, <3>1 DEF JbodInv
    <3>3. ~(op = "enter" /\ arg \in {"create", "drives", "make", "unconfig", "select", "apply"})
      BY <1>1, <2>2, <3>1, Rows DEF In, At
    <3>4. menu'.sel = menu.sel
      BY <1>1, <2>1, <2>2, <3>3, TouchedFields
    <3> QED
      BY <3>2, <3>4
  <2> QED
    BY <2>1, <2>3, <2>4 DEF ListInv, JbodInv
<1>3. CASE EndOfTable
  <2>1. CASE pc' = "row" /\ row' = 1
    BY <2>1 DEF ListInv, JbodInv, In
  <2>2. CASE table' = "delete"
    BY <2>2 DEF ListInv, JbodInv, In
  <2>3. CASE Handling' => table' \in {"clearB", "clearD"}
    BY <2>3, FillCleared DEF FillInv
  <2> QED
    BY <1>3, <2>1, <2>2, <2>3, Follows
<1>4. CASE StartCmd
  <2>1. row' = 1 /\ pc' = "row"
    BY <1>4, StartsWith
  <2> QED
    BY <2>1 DEF ListInv, JbodInv, In
<1>5. CASE StartChoice
  <2>1. /\ pc = "row" /\ row <= Len(Tables[table]) /\ op = "choose" /\ list' = Listed
        /\ hdd' = 1 /\ pc' = "choose" /\ chosen' = 0
        /\ UNCHANGED <<cmds, k, table, row, grp, menu, good, jbod, vds>>
    BY <1>5 DEF StartChoice, AtRow, card
  <2>2. row \in 1..Len(Tables[table])
    BY <2>1, NextRow
  <2>3. \/ (table = "single" /\ row = 4) \/ (table = "forth" /\ row = 1)
        \/ (table \in {"delete", "make", "unconfig"} /\ row = 2)
    BY <1>1, <2>1, <2>2, Rows DEF At
  <2>4. table # "delete" => menu.sel = {}
    BY <2>1, <2>3 DEF SelInv, SelIs, Handling, In
  <2>5. Listed' = Listed /\ group' = group /\ Pool' = Pool
    BY <2>1 DEF Listed, group, cmd, Pool
  <2>6. Len(group) \in Nat
    BY <2>1, DriveAt DEF Handling
  <2>7. {group[h].name : h \in 1..(1 - 1)} = {} /\ 1 <= Len(group) + 1
    BY <2>6
  <2> QED
    BY <2>1, <2>4, <2>5, <2>7 DEF ListInv, JbodInv
<1>6. CASE ChooseHdd
  <2>1. /\ pc = "choose" /\ pc' = "choose" /\ hdd <= Len(group) /\ (d.name \in list \/ alive = 0)
        /\ menu' = [menu EXCEPT !.sel = @ \cup {d.name}] /\ hdd' = hdd + 1 /\ chosen' = 1
        /\ UNCHANGED <<cmds, k, table, row, grp, list, alive, good, jbod, vds>>
    BY <1>6 DEF ChooseHdd, Found, AtDrive, card
  <2>2. menu'.sel = menu.sel \cup {d.name} /\ menu'.spans = menu.spans
    BY <1>1, <2>1 DEF Menu
  <2>3. Listed' = Listed /\ group' = group /\ Pool' = Pool
    BY <2>1, <2>2 DEF Listed, group, cmd, Pool
  <2>4. ListInv'
    BY <2>1, <2>2, <2>3 DEF ListInv
  <2>5. ASSUME table \in {"make", "unconfig"}
        PROVE  menu'.sel = {group[h].name : h \in 1..(hdd' - 1)} \cap Pool /\ hdd' <= Len(group) + 1
    <3>1. menu.sel = {group[h].name : h \in 1..(hdd - 1)} \cap Pool
      BY <2>1, <2>5 DEF JbodInv
    <3>2. d.name \in Pool
      BY <2>1, <2>5 DEF SelInv, SelIs, Handling
    <3>3. Len(group) \in Nat
      BY <2>1, DriveAt DEF Handling
    <3>4. hdd' - 1 = hdd /\ hdd' <= Len(group) + 1 /\ 1..hdd = 1..(hdd - 1) \cup {hdd}
      BY <1>1, <2>1, <3>3
    <3>5. {group[h].name : h \in 1..hdd} = {group[h].name : h \in 1..(hdd - 1)} \cup {d.name}
      BY <3>4 DEF d
    <3> QED
      BY <2>2, <3>1, <3>2, <3>4, <3>5
  <2> QED
    BY <2>1, <2>3, <2>4, <2>5 DEF JbodInv
<1>7. CASE SkipDrive
  <2>1. /\ pc = "choose" /\ pc' = "choose" /\ hdd <= Len(group) /\ (d.name \notin list \/ alive = 0)
        /\ hdd' = hdd + 1 /\ cmd.specie # "B"
        /\ UNCHANGED <<cmds, k, table, row, grp, list, alive, chosen, menu, good, jbod, vds>>
    BY <1>7 DEF SkipDrive, NotFound, AtDrive, card
  <2>2. Listed' = Listed /\ group' = group /\ Pool' = Pool
    BY <2>1 DEF Listed, group, cmd, Pool
  <2>3. ListInv'
    BY <2>1, <2>2 DEF ListInv
  <2>4. ASSUME table \in {"make", "unconfig"}
        PROVE  menu.sel = {group[h].name : h \in 1..(hdd' - 1)} \cap Pool /\ hdd' <= Len(group) + 1
    <3>1. menu.sel = {group[h].name : h \in 1..(hdd - 1)} \cap Pool
      BY <2>1, <2>4 DEF JbodInv
    <3>2. d.name \notin Pool
      <4>1. alive = 1 /\ list = Listed
        BY <2>1, <2>4 DEF SelInv, SelIs, Handling, ListInv
      <4>2. Listed = Pool
        BY <2>4 DEF Listed, Pool
      <4> QED
        BY <2>1, <4>1, <4>2
    <3>3. Len(group) \in Nat
      BY <2>1, DriveAt DEF Handling
    <3>4. hdd' - 1 = hdd /\ hdd' <= Len(group) + 1 /\ 1..hdd = 1..(hdd - 1) \cup {hdd}
      BY <1>1, <2>1, <3>3
    <3>5. {group[h].name : h \in 1..hdd} = {group[h].name : h \in 1..(hdd - 1)} \cup {d.name}
      BY <3>4 DEF d
    <3> QED
      BY <3>1, <3>2, <3>4, <3>5
  <2> QED
    BY <2>1, <2>2, <2>3, <2>4 DEF JbodInv
<1>8. CASE DeleteDrive
  BY <1>8 DEF DeleteDrive, Go, ListInv, JbodInv, In
<1>9. CASE EndOfChoice /\ chosen = 1
  <2>1. /\ Handling /\ pc = "choose" /\ pc' = "row" /\ row' = row + 1 /\ hdd > Len(group)
        /\ UNCHANGED <<table, cmds, k, grp, hdd, menu, good, jbod>>
        /\ \/ (table = "single" /\ row = 4) \/ (table = "forth" /\ row = 1)
           \/ (table \in {"delete", "make", "unconfig"} /\ row = 2)
    BY <1>9, Chosen DEF card
  <2>2. Pool' = Pool /\ group' = group /\ cmd' = cmd
    BY <2>1 DEF Pool, group, cmd
  <2>3. ASSUME table \in {"make", "unconfig"} PROVE menu.sel = Names(cmd.groups[1]) \cap Pool
    <3>1. menu.sel = {group[h].name : h \in 1..(hdd - 1)} \cap Pool /\ hdd <= Len(group) + 1
      BY <2>1, <2>3 DEF JbodInv
    <3>2. Len(group) \in Nat
      BY <2>1, DriveAt
    <3>3. hdd - 1 = Len(group) /\ group = cmd.groups[1]
      BY <1>1, <2>1, <2>3, <3>1, <3>2 DEF group
    <3> QED
      BY <3>1, <3>3 DEF Names
  <2> QED
    BY <2>1, <2>2, <2>3 DEF ListInv, JbodInv, In
<1>10. CASE Fails /\ Handling
  BY <1>10, FailsLeaves, FillCleared DEF FillInv
<1>11. CASE PressYes
  <2>1. pc' = "row" /\ row <= Len(Tables[table]) /\ row' = row + 1 /\ table' = table /\ arg = "yes"
    BY <1>11 DEF PressYes, AtRow
  <2>2. row \in 1..Len(Tables[table])
    BY <2>1, NextRow
  <2>3. table \in {"make", "unconfig"} => row = 5
    BY <1>1, <2>1, <2>2, Rows DEF At
  <2> QED
    BY <2>1, <2>3 DEF ListInv, JbodInv, In
<1>12. CASE UNCHANGED vars
  <2>1. UNCHANGED <<table, row, cmds, k, menu, pc, grp, hdd, list, alive, chosen, good, jbod, vds>>
    BY <1>12 DEF vars, control, card
  <2>2. Pool' = Pool /\ group' = group /\ Listed' = Listed /\ cmd' = cmd
    BY <2>1 DEF Pool, group, cmd, Listed
  <2> QED
    BY <2>1, <2>2 DEF ListInv, JbodInv, In
<1>13. CASE ~Handling'
  BY <1>13 DEF ListInv, JbodInv, Handling
<1> QED
  BY <1>2, <1>3, <1>4, <1>5, <1>6, <1>7, <1>8, <1>9, <1>10, <1>11, <1>12, <1>13, Kinds

\* The forms are filled as the commands say, for every failure of a row.
THEOREM FillInvariance == Spec => []FillInv
<1>1. Init => FillInv
  BY DEF Init, FillInv, ConfirmInv, HdgInv, ListInv, JbodInv, Handling
<1>2. IInv /\ BInv /\ FillInv /\ [Next]_vars => FillInv'
  BY ConfirmStep, HdgStep, ListStep DEF BInv, FillInv
<1> QED
  BY <1>1, <1>2, Invariance, BuildInvariance, PTL DEF Spec

-----------------------------------------------------------------------------
(* What the commands mean, text by text.                                   *)

\* The drives at the start.
Start == [good |-> OfType("HDG"), jbod |-> OfType("JBOD"), built |-> {}]

\* The drives after each text, from those after the one before it.
LEMMA EffectIs ==
  ASSUME Len(Parsed) \in Nat
  PROVE  /\ Effect[0] = Start
         /\ \A n \in 1..Len(Parsed) : Effect[n] = After(Effect[n - 1], n)
<1> DEFINE L == Len(Parsed)
           Rec(f, m) == f = [j \in 0..m |-> IF j = 0 THEN Start ELSE After(f[j - 1], j)]
           B == {m \in 0..L : ~\E f : Rec(f, m)}
<1>1. B = {}
  <2> SUFFICES ASSUME B # {} PROVE FALSE
    OBVIOUS
  <2>1. B \in SUBSET Nat
    OBVIOUS
  <2>2. PICK m \in B : \A y \in B : m <= y
    BY <2>1, MinIn
  <2>3. CASE m = 0
    <3> DEFINE g == [j \in 0..0 |-> Start]
    <3>1. g = [j \in 0..0 |-> IF j = 0 THEN Start ELSE After(g[j - 1], j)]
      OBVIOUS
    <3> QED
      BY <2>2, <2>3, <3>1
  <2>4. CASE m # 0
    <3>1. m \in 1..L /\ m - 1 \in 0..L /\ m - 1 \notin B
      <4>1. m \in 0..L
        BY <2>2
      <4> HIDE DEF B
      <4> QED
        BY <2>2, <2>4, <4>1
    <3>2. PICK f : Rec(f, m - 1)
      BY <3>1
    <3> DEFINE e == After(f[m - 1], m)
               g == [j \in 0..m |-> IF j = m THEN e ELSE f[j]]
    <3>3. \A j \in 0..(m - 1) : f[j] = IF j = 0 THEN Start ELSE After(f[j - 1], j)
      BY <3>2
    <3>4. \A j \in 0..m : j = m \/ (j \in 0..(m - 1) /\ j # m)
      BY <3>1
    <3> HIDE DEF e
    <3>5. ASSUME NEW j \in 0..m PROVE g[j] = IF j = 0 THEN Start ELSE After(g[j - 1], j)
      <4>1. CASE j = m
        <5>1. m - 1 \in 0..m /\ m - 1 # m /\ m # 0 /\ m \in 0..m
          BY <3>1
        <5>2. g[m] = e /\ g[m - 1] = f[m - 1]
          BY <5>1
        <5> QED
          BY <4>1, <5>1, <5>2 DEF e
      <4>2. CASE j \in 0..(m - 1) /\ j # m
        <5>1. j # 0 => j - 1 \in 0..m /\ j - 1 # m
          BY <3>1, <4>2
        <5>2. g[j] = f[j] /\ (j # 0 => g[j - 1] = f[j - 1])
          BY <4>2, <5>1
        <5> QED
          BY <3>3, <4>2, <5>2
      <4> QED
        BY <3>4, <4>1, <4>2
    <3>6. g = [j \in 0..m |-> g[j]]
      OBVIOUS
    <3> HIDE DEF g
    <3>7. Rec(g, m)
      BY <3>5, <3>6
    <3> QED
      BY <2>2, <3>7
  <2> QED
    BY <2>3, <2>4
<1>2. \E f : Rec(f, L)
  <2>1. L \in 0..L /\ L \notin B
    <3> HIDE DEF B
    <3> QED
      BY <1>1
  <2> QED
    BY <2>1
<1>3. Effect = CHOOSE f : Rec(f, L)
  BY DEF Effect, Start
<1>4. Rec(Effect, L)
  <2> DEFINE P(f) == Rec(f, L)
  <2>1. \E f : P(f)
    BY <1>2
  <2>2. Effect = CHOOSE f : P(f)
    BY <1>3
  <2> HIDE DEF P
  <2>3. P(Effect)
    BY <2>1, <2>2
  <2> QED
    BY <2>3 DEF P
<1>5. 0 \in 0..L /\ \A n \in 1..L : n \in 0..L /\ n # 0
  OBVIOUS
<1>6. \A j \in 0..L : Effect[j] = IF j = 0 THEN Start ELSE After(Effect[j - 1], j)
  BY <1>4
<1> QED
  BY <1>5, <1>6

\* What the commands mean depends on the text alone.
LEMMA EffectSame ==
  ASSUME text' = text
  PROVE  Effect' = Effect
<1>1. Parsed' = Parsed
  BY TextSame
<1> QED
  BY <1>1 DEF Effect, After, Buildable, Used, Described

\* The groups that a text and its command use, number by number.
LEMMA UsedAlike ==
  ASSUME NEW c \in Command, NEW t \in Sections, CommandOf(c, t), LookedUp(c)
  PROVE  LET u == Used(t)
             w == UsedGroups(c)
         IN  /\ c.groups = <<>> <=> ParsedGroups(t) = <<>>
             /\ c.groups # <<>> =>
                  /\ Len(u) \in Nat /\ Len(w) = Len(u) /\ Len(c.groups) >= 1
                  /\ Len(u) = IF Spanned(c) THEN Len(c.groups) ELSE 1
                  /\ \A g \in 1..Len(u) :
                       /\ w[g] = c.groups[g] /\ g \in 1..Len(c.groups)
                       /\ Len(w[g]) = Len(u[g]) /\ Len(u[g]) \in Nat /\ Len(u[g]) >= 1
                       /\ \A h \in 1..Len(u[g]) :
                            w[g][h].num = u[g][h] /\ w[g][h] = Collected(c, u[g][h]) /\ u[g][h] \in Nat
<1> DEFINE p == ParsedGroups(t)
           G == c.groups
           u == Used(t)
           w == UsedGroups(c)
<1>1. /\ Len(G) \in Nat /\ G \in Seq(Seq(Hdd))
      /\ \A g \in 1..Len(G) : Len(G[g]) \in Nat /\ \A h \in 1..Len(G[g]) : G[g][h].num \in Nat
  BY CommandParts
<1>2. /\ p \in Seq(Seq(Nat)) /\ Len(p) \in Nat
      /\ \A g \in 1..Len(p) : p[g] \in Seq(Nat) /\ p[g] # <<>>
  <2> HIDE DEF Sections
  <2> QED
    BY GroupsOf
<1>3. /\ c.level = t.level /\ Len(G) = Len(p)
      /\ \A g \in 1..Len(G) :
           /\ Len(G[g]) = Len(p[g])
           /\ \A h \in 1..Len(G[g]) : G[g][h].num = p[g][h] /\ G[g][h] = Collected(c, p[g][h])
  BY DEF CommandOf, LookedUp
<1>4. LevelOf(c) = LevelOf(t)
  BY <1>3 DEF LevelOf
<1>5. (w = G /\ Spanned(c)) \/ (w = SubSeq(G, 1, 1) /\ ~Spanned(c))
  BY DEF UsedGroups
<1>6. (u = p /\ Spanned(c)) \/ (u = SubSeq(p, 1, 1) /\ ~Spanned(c))
  BY <1>4 DEF Used, Spanned
<1> HIDE DEF p, G, u, w
<1>7. G = <<>> <=> Len(G) = 0
  <2> DEFINE S == Seq(Hdd)
  <2>1. G \in Seq(S)
    BY <1>1
  <2> HIDE DEF S
  <2> QED
    BY <2>1
<1>8. p = <<>> <=> Len(p) = 0
  <2> DEFINE S == Seq(Nat)
  <2>1. p \in Seq(S)
    BY <1>2
  <2> HIDE DEF S
  <2> QED
    BY <2>1
<1>9. ASSUME G # <<>>
      PROVE  /\ Len(u) \in Nat /\ Len(w) = Len(u) /\ Len(G) >= 1
             /\ Len(u) = IF Spanned(c) THEN Len(G) ELSE 1
             /\ \A g \in 1..Len(u) : w[g] = G[g] /\ u[g] = p[g] /\ g \in 1..Len(G)
  <2>1. Len(G) >= 1
    BY <1>1, <1>7, <1>9
  <2>2. CASE Spanned(c)
    BY <1>1, <1>3, <1>5, <1>6, <2>1, <2>2
  <2>3. CASE ~Spanned(c)
    <3>1. Len(w) = 1 /\ w[1] = G[1]
      <4> DEFINE S == Seq(Hdd)
      <4>1. G \in Seq(S)
        BY <1>1
      <4> HIDE DEF S
      <4> QED
        BY <1>1, <1>5, <2>1, <2>3, <4>1, SubSeqProperties
    <3>2. Len(u) = 1 /\ u[1] = p[1]
      <4> DEFINE S == Seq(Nat)
      <4>1. p \in Seq(S)
        BY <1>2
      <4> HIDE DEF S
      <4> QED
        BY <1>2, <1>3, <1>6, <2>1, <2>3, <4>1, SubSeqProperties
    <3>3. 1 \in 1..Len(G) /\ \A g \in 1..1 : g = 1
      BY <1>1, <2>1
    <3> QED
      BY <2>1, <2>3, <3>1, <3>2, <3>3
  <2> QED
    BY <2>2, <2>3
<1>10. ASSUME G # <<>>, NEW g \in 1..Len(u)
       PROVE  /\ Len(w[g]) = Len(u[g]) /\ Len(u[g]) \in Nat /\ Len(u[g]) >= 1
              /\ \A h \in 1..Len(u[g]) :
                   w[g][h].num = u[g][h] /\ w[g][h] = Collected(c, u[g][h]) /\ u[g][h] \in Nat
  <2>1. w[g] = G[g] /\ u[g] = p[g] /\ g \in 1..Len(G) /\ g \in 1..Len(p)
    BY <1>3, <1>9, <1>10
  <2>2. p[g] \in Seq(Nat) /\ p[g] # <<>>
    BY <1>2, <2>1
  <2>3. Len(p[g]) \in Nat /\ Len(p[g]) >= 1
    BY <2>2
  <2> QED
    BY <1>1, <1>3, <2>1, <2>3
<1>11. G = <<>> <=> p = <<>>
  BY <1>3, <1>7, <1>8
<1> QED
  BY <1>9, <1>10, <1>11 DEF p, G, u, w

\* A command of the driver and its text.
LEMMA TextOf ==
  ASSUME IInv, pc \notin {"parse", "collect"}, NEW n \in 1..Len(cmds)
  PROVE  /\ cmds[n] \in Command /\ Parsed[n] \in Sections /\ n \in 1..Len(Parsed)
         /\ Len(Parsed) = Len(cmds) /\ Len(cmds) \in Nat
         /\ CommandOf(cmds[n], Parsed[n]) /\ LookedUp(cmds[n])
<1> USE DEF IInv
<1>1. cmds \in Seq(Command) /\ text \in Seq(Text)
  BY RaidCommandsAssumption DEF DriverInv
<1>2. cmds[n] \in Command /\ Len(cmds) \in Nat
  BY <1>1, CommandAt
<1>3. Len(cmds) = Len(Parsed) /\ CommandOf(cmds[n], Parsed[n]) /\ LookedUp(cmds[n])
  BY DEF ParsedInv
<1>4. Parsed \in Seq(Sections)
  BY <1>1, ParsedType
<1>5. Parsed[n] \in Sections
  <2> HIDE DEF Sections
  <2> QED
    BY <1>3, <1>4
<1> QED
  BY <1>2, <1>3, <1>5 DEF Sections

\* A name of a drive, by its number.
LEMMA NameOf ==
  ASSUME NEW c, NEW n
  PROVE  /\ n \in 1..Len(Items) => Collected(c, n).name = Items[n].name
         /\ n \notin 1..Len(Items) => Collected(c, n).name = None
         /\ Collected(c, n).name # None <=> n \in 1..Len(Items)
<1>1. n \in 1..Len(Items) => Items[n].name \in Drive
  BY DEF Drive
<1>2. None \notin Drive
  BY RaidCommandsAssumption
<1> QED
  BY <1>1, <1>2 DEF Collected, Unnamed

\* What a build that can be carried out has: it passes the examination, and all its
\* drives are to be had.
LEMMA BuildNeeds ==
  ASSUME NEW c \in Command, NEW t \in Sections, CommandOf(c, t), LookedUp(c), c.specie = "B",
         NEW s
  PROVE  Buildable(s, t) <=>
           /\ Examined(c) /\ c.level \in Level \cup {None}
           /\ \A g \in 1..Len(UsedGroups(c)) : \A h \in 1..Len(UsedGroups(c)[g]) :
                UsedGroups(c)[g][h].name \in s.good \cap OfType("HDG")
<1> DEFINE u == Used(t)
           w == UsedGroups(c)
<1>1. c.level = t.level
  BY DEF CommandOf
<1>2. c.groups = <<>> <=> ParsedGroups(t) = <<>>
  BY UsedAlike
<1>3. CASE c.groups = <<>>
  BY <1>2, <1>3 DEF Buildable, Examined, ExamineForCmdGroup
<1>4. CASE c.groups # <<>>
  <2>1. /\ Len(u) \in Nat /\ Len(w) = Len(u)
        /\ \A g \in 1..Len(u) :
             /\ Len(w[g]) = Len(u[g])
             /\ \A h \in 1..Len(u[g]) :
                  w[g][h].num = u[g][h] /\ w[g][h] = Collected(c, u[g][h])
    BY <1>4, UsedAlike
  <2>2. Buildable(s, t) <=>
          /\ t.level \in Level \cup {None}
          /\ \A g \in 1..Len(u) : \A h \in 1..Len(u[g]) :
               /\ u[g][h] \in 1..Len(Items)
               /\ Items[u[g][h]].name \in s.good \cap OfType("HDG")
               /\ \A j \in 1..Len(u) : \A m \in 1..Len(u[j]) : u[g][h] = u[j][m] => g = j /\ h = m
    BY <1>2, <1>4 DEF Buildable
  <2>3. Examined(c) <=>
          \A g \in 1..Len(w) : \A h \in 1..Len(w[g]) :
            /\ w[g][h].name # None
            /\ \A j \in 1..Len(w) : \A m \in 1..Len(w[j]) :
                 w[g][h].num = w[j][m].num => g = j /\ h = m
    BY <1>4 DEF Examined, ExamineForCmdGroup
  <2> HIDE DEF u, w
  <2>4. \A g \in 1..Len(u) : \A h \in 1..Len(u[g]) :
          /\ w[g][h].name # None <=> u[g][h] \in 1..Len(Items)
          /\ u[g][h] \in 1..Len(Items) => w[g][h].name = Items[u[g][h]].name
    BY <2>1, NameOf
  <2> DEFINE Distinct == \A g \in 1..Len(u) : \A h \in 1..Len(u[g]) :
                /\ u[g][h] \in 1..Len(Items)
                /\ \A j \in 1..Len(u) : \A m \in 1..Len(u[j]) : u[g][h] = u[j][m] => g = j /\ h = m
             Free == \A g \in 1..Len(u) : \A h \in 1..Len(u[g]) :
                Items[u[g][h]].name \in s.good \cap OfType("HDG")
  <2>5. Examined(c) => Distinct
    <3> SUFFICES ASSUME Examined(c), NEW g \in 1..Len(u), NEW h \in 1..Len(u[g])
                 PROVE  /\ u[g][h] \in 1..Len(Items)
                        /\ \A j \in 1..Len(u) : \A m \in 1..Len(u[j]) :
                             u[g][h] = u[j][m] => g = j /\ h = m
      OBVIOUS
    <3>1. g \in 1..Len(w) /\ h \in 1..Len(w[g])
      BY <2>1
    <3>2. w[g][h].name # None
      BY <2>3, <3>1
    <3>3. ASSUME NEW j \in 1..Len(u), NEW m \in 1..Len(u[j]), u[g][h] = u[j][m]
          PROVE  g = j /\ h = m
      <4>1. j \in 1..Len(w) /\ m \in 1..Len(w[j]) /\ w[g][h].num = w[j][m].num
        BY <2>1, <3>3
      <4> QED
        BY <2>3, <3>1, <4>1
    <3> QED
      BY <2>4, <3>2, <3>3
  <2>6. Distinct => Examined(c)
    <3> SUFFICES ASSUME Distinct, NEW g \in 1..Len(w), NEW h \in 1..Len(w[g])
                 PROVE  /\ w[g][h].name # None
                        /\ \A j \in 1..Len(w) : \A m \in 1..Len(w[j]) :
                             w[g][h].num = w[j][m].num => g = j /\ h = m
      BY <2>3
    <3>1. g \in 1..Len(u) /\ h \in 1..Len(u[g])
      BY <2>1
    <3>2. u[g][h] \in 1..Len(Items)
      BY <3>1
    <3>3. ASSUME NEW j \in 1..Len(w), NEW m \in 1..Len(w[j]), w[g][h].num = w[j][m].num
          PROVE  g = j /\ h = m
      <4>1. j \in 1..Len(u) /\ m \in 1..Len(u[j])
        BY <2>1
      <4>2. u[g][h] = u[j][m]
        BY <2>1, <3>1, <3>3, <4>1
      <4> QED
        BY <3>1, <4>1, <4>2
    <3> QED
      BY <2>4, <3>1, <3>2, <3>3
  <2>7. ASSUME Distinct
        PROVE  (\A g \in 1..Len(w) : \A h \in 1..Len(w[g]) : w[g][h].name \in s.good \cap OfType("HDG"))
                 <=> Free
    <3>1. \A g \in 1..Len(u) : \A h \in 1..Len(u[g]) : w[g][h].name = Items[u[g][h]].name
      BY <2>4, <2>7
    <3> HIDE DEF Distinct
    <3> DEFINE H == s.good \cap OfType("HDG")
    <3> HIDE DEF H
    <3>2. (\A g \in 1..Len(w) : \A h \in 1..Len(w[g]) : w[g][h].name \in H)
            <=> (\A g \in 1..Len(u) : \A h \in 1..Len(u[g]) : Items[u[g][h]].name \in H)
      <4>1. \A g \in 1..Len(u) : 1..Len(w[g]) = 1..Len(u[g])
        BY <2>1
      <4>2. \A g \in 1..Len(u) : (\A h \in 1..Len(w[g]) : w[g][h].name \in H)
                                   <=> (\A h \in 1..Len(u[g]) : Items[u[g][h]].name \in H)
        <5> SUFFICES ASSUME NEW g \in 1..Len(u)
                     PROVE  (\A h \in 1..Len(w[g]) : w[g][h].name \in H)
                              <=> (\A h \in 1..Len(u[g]) : Items[u[g][h]].name \in H)
          OBVIOUS
        <5>1. \A h \in 1..Len(u[g]) : w[g][h].name = Items[u[g][h]].name
          BY <3>1
        <5> QED
          BY <4>1, <5>1
      <4> QED
        BY <2>1, <4>2
    <3> QED
      BY <3>2 DEF H
  <2>8. Buildable(s, t) <=> t.level \in Level \cup {None} /\ Distinct /\ Free
    BY <2>2
  <2> HIDE DEF Distinct, Free
  <2> QED
    BY <1>1, <2>5, <2>6, <2>7, <2>8 DEF w
<1> QED
  BY <1>3, <1>4

\* The drives that a group of a text names are those of its command's group.
LEMMA GroupNamed ==
  ASSUME NEW c \in Command, NEW t \in Sections, CommandOf(c, t), LookedUp(c), c.groups # <<>>
  PROVE  Names(c.groups[1]) \ {None} = Named(t.groups[1])
<1> DEFINE G == c.groups[1]
           q == t.groups[1]
           p == ParsedGroups(t)
<1>1. /\ Len(p) \in Nat /\ \A g \in 1..Len(p) : p[g] \in Seq(Nat) /\ p[g] = t.groups[g]
  <2> HIDE DEF Sections
  <2> QED
    BY GroupsOf
<1>2. Len(c.groups) >= 1 /\ Len(c.groups) \in Nat
  BY UsedAlike, CommandParts
<1>3. /\ Len(c.groups) = Len(p) /\ Len(G) = Len(p[1])
      /\ \A h \in 1..Len(G) : G[h].num = p[1][h] /\ G[h] = Collected(c, p[1][h])
  BY <1>2 DEF CommandOf, LookedUp
<1>4. q = p[1] /\ q \in Seq(Nat)
  BY <1>1, <1>2, <1>3
<1>5. Len(G) = Len(q) /\ \A h \in 1..Len(q) : G[h] = Collected(c, q[h])
  BY <1>3, <1>4
<1> HIDE DEF G, q
<1>6. Range(q) = {q[h] : h \in 1..Len(q)}
  BY <1>4 DEF Range
<1>7. \A h \in 1..Len(q) : /\ G[h].name # None <=> q[h] \in 1..Len(Items)
                           /\ q[h] \in 1..Len(Items) => G[h].name = Items[q[h]].name
  BY <1>5, NameOf
<1>8. Named(q) = {Items[n].name : n \in {q[h] : h \in 1..Len(q)} \cap 1..Len(Items)}
  BY <1>6 DEF Named
<1>9. ASSUME NEW x PROVE x \in Names(G) \ {None} <=> x \in Named(q)
  <2>1. ASSUME x \in Names(G) \ {None} PROVE x \in Named(q)
    <3>1. PICK h \in 1..Len(q) : x = G[h].name /\ x # None
      BY <1>5, <2>1 DEF Names
    <3> QED
      BY <1>7, <1>8, <3>1
  <2>2. ASSUME x \in Named(q) PROVE x \in Names(G) \ {None}
    <3>1. PICK h \in 1..Len(q) : q[h] \in 1..Len(Items) /\ x = Items[q[h]].name
      BY <1>8, <2>2
    <3> QED
      BY <1>5, <1>7, <3>1 DEF Names
  <2> QED
    BY <2>1, <2>2
<1> QED
  BY <1>9 DEF G, q

\* What a command means for the drives, in terms of the driver's record of it.
LEMMA AfterIs ==
  ASSUME IInv, pc \notin {"parse", "collect"}, NEW n \in 1..Len(cmds)
  PROVE  LET c == cmds[n]
             N == IF c.groups = <<>> THEN {} ELSE Names(c.groups[1])
             u == Used(Parsed[n])
         IN  /\ c.specie = "D" \/ (c.specie = "O" /\ c.jbod = None) => After(drives, n) = drives
             /\ c.specie = "B" /\ ~Buildable(drives, Parsed[n]) => After(drives, n) = drives
             /\ c.specie = "B" /\ Buildable(drives, Parsed[n]) =>
                  After(drives, n) = [good |-> good \ UNION {Named(u[j]) : j \in 1..Len(u)},
                                      jbod |-> jbod, built |-> built \cup {Described(n)}]
             /\ c.specie = "O" /\ c.jbod = "make" =>
                  After(drives, n) = [good |-> good \ N, jbod |-> jbod \cup (N \cap good),
                                      built |-> built]
             /\ c.specie = "O" /\ c.jbod = "unconfig" =>
                  After(drives, n) = [good |-> good \cup (N \cap jbod), jbod |-> jbod \ N,
                                      built |-> built]
<1> DEFINE c == cmds[n]
           t == Parsed[n]
           N == IF c.groups = <<>> THEN {} ELSE Names(c.groups[1])
           g == IF ParsedGroups(t) = <<>> THEN {} ELSE Named(t.groups[1])
           u == Used(t)
<1>1. /\ c \in Command /\ t \in Sections /\ CommandOf(c, t) /\ LookedUp(c)
  BY TextOf
<1>2. c.specie = t.specie /\ c.jbod = t.jbod /\ None \notin {"make", "unconfig"}
  BY <1>1, RaidCommandsAssumption DEF CommandOf
<1>3. N \ {None} = g
  BY <1>1, UsedAlike, GroupNamed
<1>4. good \subseteq Drive /\ jbod \subseteq Drive /\ None \notin Drive
  BY RaidCommandsAssumption DEF IInv, CardInv
<1>5. /\ drives.good = good /\ drives.jbod = jbod /\ drives.built = built
  BY DEF drives
<1>6. After(drives, n) =
        CASE t.specie = "B" /\ Buildable(drives, t) ->
               [drives EXCEPT !.good = @ \ UNION {Named(u[j]) : j \in 1..Len(u)},
                              !.built = @ \cup {Described(n)}]
          [] t.specie = "O" /\ t.jbod = "make" ->
               [drives EXCEPT !.good = @ \ g, !.jbod = @ \cup (g \cap drives.good)]
          [] t.specie = "O" /\ t.jbod = "unconfig" ->
               [drives EXCEPT !.good = @ \cup (g \cap drives.jbod), !.jbod = @ \ g]
          [] OTHER -> drives
  BY DEF After
<1> HIDE DEF c, t, N, g, u
<1>7. /\ good \ g = good \ N /\ g \cap good = N \cap good
      /\ g \cap jbod = N \cap jbod /\ jbod \ g = jbod \ N
  BY <1>3, <1>4
<1>8. c.specie = "D" \/ (c.specie = "O" /\ c.jbod = None) => After(drives, n) = drives
  BY <1>2, <1>6
<1>9. c.specie = "B" /\ ~Buildable(drives, t) => After(drives, n) = drives
  BY <1>2, <1>6
<1>10. ASSUME c.specie = "B", Buildable(drives, t)
       PROVE  After(drives, n) = [good |-> good \ UNION {Named(u[j]) : j \in 1..Len(u)},
                                  jbod |-> jbod, built |-> built \cup {Described(n)}]
  <2> DEFINE U == UNION {Named(u[j]) : j \in 1..Len(u)}
             V == {Described(n)}
  <2>1. After(drives, n) = [drives EXCEPT !.good = @ \ U, !.built = @ \cup V]
    BY <1>2, <1>6, <1>10
  <2> HIDE DEF U, V
  <2>2. After(drives, n) = [good |-> good \ U, jbod |-> jbod, built |-> built \cup V]
    BY <2>1 DEF drives
  <2> QED
    BY <2>2 DEF U, V
<1>11. ASSUME c.specie = "O", c.jbod = "make"
       PROVE  After(drives, n) = [good |-> good \ N, jbod |-> jbod \cup (N \cap good), built |-> built]
  <2>1. After(drives, n) = [drives EXCEPT !.good = @ \ g, !.jbod = @ \cup (g \cap drives.good)]
    BY <1>2, <1>6, <1>11
  <2>2. After(drives, n) = [good |-> good \ g, jbod |-> jbod \cup (g \cap good), built |-> built]
    BY <2>1 DEF drives
  <2> QED
    BY <1>7, <2>2
<1>12. ASSUME c.specie = "O", c.jbod = "unconfig"
       PROVE  After(drives, n) = [good |-> good \cup (N \cap jbod), jbod |-> jbod \ N, built |-> built]
  <2>1. After(drives, n) = [drives EXCEPT !.good = @ \cup (g \cap drives.jbod), !.jbod = @ \ g]
    BY <1>2, <1>6, <1>12
  <2>2. After(drives, n) = [good |-> good \cup (g \cap jbod), jbod |-> jbod \ g, built |-> built]
    BY <2>1 DEF drives
  <2> QED
    BY <1>7, <2>2
<1> QED
  BY <1>8, <1>9, <1>10, <1>11, <1>12 DEF c, t, N, u

\* The drives of the group at hand are all in the form of a build that can be carried
\* out: what the spans before it use is in no other group.
LEMMA AllListed ==
  ASSUME IInv, BInv, Handling, In("single", 1, 4) \/ In("forth", 1, 1),
         Buildable(drives, Parsed[k])
  PROVE  /\ Len(group) >= 1 /\ Len(group) \in Nat
         /\ \A h \in 1..Len(group) : group[h].name \in Listed \cap OfType("HDG")
<1> DEFINE w == UsedGroups(cmd)
           j == IF table = "forth" THEN grp ELSE 1
<1>1. /\ k \in 1..Len(cmds) /\ cmd \in Command /\ cmd.groups # <<>> /\ cmd.specie = "B"
      /\ pc \notin {"parse", "collect"}
      /\ (table = "single" => ~Spanned(cmd)) /\ (table = "forth" => Spanned(cmd))
  BY AtCommand, WhoseTable DEF IInv, Handling, In, BuildTables
<1>2. Parsed[k] \in Sections /\ CommandOf(cmd, Parsed[k]) /\ LookedUp(cmd)
  BY <1>1, TextOf DEF cmd
<1>3. /\ Len(w) \in Nat /\ Len(cmd.groups) >= 1
      /\ Len(w) = IF Spanned(cmd) THEN Len(cmd.groups) ELSE 1
      /\ \A g \in 1..Len(w) : w[g] = cmd.groups[g] /\ Len(w[g]) \in Nat /\ Len(w[g]) >= 1
  BY <1>1, <1>2, UsedAlike
<1>4. j \in 1..Len(w) /\ group = cmd.groups[j]
  <2>1. table = "forth" => grp \in 1..Len(cmd.groups)
    BY DriveAt DEF IInv
  <2> QED
    BY <1>1, <1>3, <2>1 DEF In, group
<1>5. \A g \in 1..Len(w) : \A h \in 1..Len(w[g]) : w[g][h].name \in good \cap OfType("HDG")
  <2>1. drives.good = good
    BY DEF drives
  <2> QED
    BY <1>1, <1>2, <2>1, BuildNeeds
<1>6. group = w[j] /\ Len(group) >= 1 /\ Len(group) \in Nat
  BY <1>3, <1>4
<1> HIDE DEF w, j
<1>7. \A h \in 1..Len(group) : group[h].name \in good \cap OfType("HDG")
  BY <1>4, <1>5, <1>6
<1>8. CASE table = "single"
  BY <1>6, <1>7, <1>8 DEF Listed
<1>9. CASE table = "forth"
  <2>1. In("forth", 1, 1) /\ Spanned(cmd) /\ j = grp /\ grp \in 1..Len(cmd.groups)
    BY <1>1, <1>3, <1>4, <1>9 DEF In, j
  <2>2. In("forth", 1, 2)
    BY <2>1 DEF In, IInv, DriverInv
  <2>3. Applied(menu.spans, grp - 1, cmd, good)
    BY <2>2 DEF BInv, SpansInv, SpansAsFar
  <2>4. grp \in Nat \ {0} /\ Len(cmd.groups) \in Nat
    BY AtCommand DEF IInv, DriverInv
  <2>5. Len(menu.spans) = grp - 1 /\ \A n \in 1..(grp - 1) : menu.spans[n] = Names(cmd.groups[n])
    BY <2>3 DEF Applied
  <2>6. \A n \in 1..(grp - 1) : n \in 1..Len(cmd.groups) /\ n # grp
    BY <2>1, <2>4
  <2>7. \A n, m \in 1..Len(cmd.groups) :
          Names(cmd.groups[n]) \cap Names(cmd.groups[m]) # {} => n = m
    BY <1>1, <2>1, UsedDrives
  <2>8. ASSUME NEW h \in 1..Len(group), NEW n \in 1..Len(menu.spans) PROVE group[h].name \notin menu.spans[n]
    <3>1. n \in 1..(grp - 1) /\ menu.spans[n] = Names(cmd.groups[n])
      BY <2>5
    <3>2. group[h].name \in Names(cmd.groups[grp])
      BY <1>4, <2>1 DEF Names
    <3> QED
      BY <2>1, <2>6, <2>7, <3>1, <3>2
  <2>9. Listed = good \ UNION {menu.spans[n] : n \in 1..Len(menu.spans)}
    BY <1>9 DEF Listed
  <2> QED
    BY <1>6, <1>7, <2>8, <2>9
<1> QED
  BY <1>8, <1>9 DEF In

\* A warning that was not confirmed, a level that the card does not have, a drive that
\* is gone: the rows that are refused.
LEMMA RefusedAt ==
  ASSUME IInv, FillInv, RowRefused
  PROVE  \/ table \in {"single", "first"} /\ cmd.level \notin Level \cup {None}
         \/ table = "raidRef" /\ row = 1 /\ Entered \notin vds
<1>1. pc = "row" /\ row <= Len(Tables[table]) /\ Refused
  BY DEF RowRefused, AtRow
<1>2. table \in DOMAIN Tables /\ row \in 1..Len(Tables[table])
  BY <1>1, NextRow DEF IInv, DriverInv
<1>3. CASE op = "set" /\ arg = "level" /\ cmd.level \notin Level \cup {None}
  BY <1>2, <1>3, Rows DEF At
<1>4. CASE op = "enter" /\ arg = "drive" /\ cmd.groups[1][hdd].name \notin vds
  BY <1>2, <1>4, Rows DEF At, Entered
<1>5. CASE op = "press" /\ arg = "yes" /\ menu.confirm = 0
  <2>1. \/ (table = "single" /\ row = 10)
        \/ (table \in {"fifth", "raidRef", "make", "unconfig"} /\ row = 5)
    BY <1>2, <1>5, Rows DEF At
  <2>2. menu.confirm = 1
    BY <1>1, <2>1 DEF FillInv, ConfirmInv, In
  <2> QED
    BY <1>5, <2>2
<1> QED
  BY <1>1, <1>3, <1>4, <1>5 DEF Refused

\* The steps that give a command up although no row has failed.
GivesUp ==
  RowRefused \/ NothingListed \/ WrongType \/ DriveMissing \/ (EndOfChoice /\ chosen # 1)

\* A build that is given up could not be carried out.
LEMMA FailedBuild ==
  ASSUME IInv, BInv, FillInv, Handling, cmd.specie = "B", GivesUp
  PROVE  ~Buildable(drives, Parsed[k])
<1> SUFFICES ASSUME Buildable(drives, Parsed[k]) PROVE FALSE
  OBVIOUS
<1>1. /\ k \in 1..Len(cmds) /\ cmd \in Command /\ pc \notin {"parse", "collect"}
      /\ table \in BuildTables /\ table \in DOMAIN Tables
  BY AtCommand, WhoseTable DEF IInv, DriverInv, Handling
<1>2. CASE RowRefused
  <2>1. cmd.level \notin Level \cup {None}
    BY <1>1, <1>2, RefusedAt DEF BuildTables
  <2>2. Parsed[k] \in Sections /\ CommandOf(cmd, Parsed[k]) /\ LookedUp(cmd)
    BY <1>1, TextOf DEF cmd
  <2> QED
    BY <1>1, <2>1, <2>2, BuildNeeds
<1>3. CASE NothingListed
  <2>1. pc = "row" /\ row <= Len(Tables[table]) /\ op = "choose" /\ Listed = {}
    BY <1>3 DEF NothingListed, AtRow
  <2>2. row \in 1..Len(Tables[table])
    BY <2>1, NextRow DEF IInv
  <2>3. In("single", 1, 4) \/ In("forth", 1, 1)
    BY <1>1, <2>1, <2>2, Rows DEF At, In, BuildTables
  <2>4. 1 \in 1..Len(group) /\ \A h \in 1..Len(group) : group[h].name \in Listed
    BY <2>3, AllListed
  <2> QED
    BY <2>1, <2>4
<1>4. CASE WrongType \/ DriveMissing \/ (EndOfChoice /\ chosen # 1)
  <2>1. pc = "choose" /\ row <= Len(Tables[table]) /\ op = "choose"
    BY <1>4 DEF WrongType, DriveMissing, EndOfChoice, Found, NotFound, AtDrive, IInv, FlowInv
  <2>2. row \in 1..Len(Tables[table])
    BY <2>1, NextRow DEF IInv
  <2>3. In("single", 1, 4) \/ In("forth", 1, 1)
    BY <1>1, <2>1, <2>2, Rows DEF At, In, BuildTables
  <2>4. /\ Len(group) >= 1 /\ Len(group) \in Nat
        /\ \A h \in 1..Len(group) : group[h].name \in Listed \cap OfType("HDG")
    BY <2>3, AllListed
  <2>5. table \in {"single", "forth"}
    BY <2>3 DEF In
  <2>6. /\ alive = 1 /\ menu.sel = {group[h].name : h \in 1..(hdd - 1)}
        /\ list = Listed /\ (chosen = 1 <=> menu.sel # {})
    BY <2>1, <2>5 DEF BInv, SelInv, SelIs, FillInv, ListInv, Handling
  <2>7. CASE WrongType
    <3>1. hdd <= Len(group) /\ d.name # None /\ d.type # "HDG"
      BY <2>7 DEF WrongType, Found, AtDrive
    <3>2. d.name \in OfType("HDG")
      BY <2>4, <3>1, DriveAt DEF IInv, d
    <3> QED
      BY <3>1, <3>2, DriveIs
  <2>8. CASE DriveMissing
    <3>1. hdd <= Len(group) /\ (d.name \notin list \/ alive = 0)
      BY <2>8 DEF DriveMissing, NotFound, AtDrive
    <3>2. d.name \in Listed
      BY <2>4, <3>1, DriveAt DEF IInv, d
    <3> QED
      BY <2>6, <3>1, <3>2
  <2>9. CASE EndOfChoice /\ chosen # 1
    <3>1. hdd > Len(group) /\ hdd \in Nat
      BY <2>9 DEF EndOfChoice, IInv, DriverInv
    <3>2. 1 \in 1..(hdd - 1)
      BY <2>4, <3>1
    <3>3. menu.sel # {}
      BY <2>6, <3>2
    <3> QED
      BY <2>6, <2>9, <3>3
  <2> QED
    BY <1>4, <2>7, <2>8, <2>9
<1> QED
  BY <1>2, <1>3, <1>4 DEF GivesUp

\* A JBOD command that is given up names no drive that is listed.
LEMMA FailedJbod ==
  ASSUME IInv, BInv, FillInv, Handling, cmd.specie = "O", GivesUp
  PROVE  Names(cmd.groups[1]) \cap Pool = {}
<1>1. table \in {"make", "unconfig"} /\ table \in DOMAIN Tables
  BY WhoseTable DEF IInv, DriverInv
<1>2. ~RowRefused
  BY <1>1, RefusedAt
<1>3. ~WrongType /\ ~DriveMissing
  BY DEF WrongType, DriveMissing
<1>4. CASE NothingListed
  BY <1>1, <1>4 DEF NothingListed, Listed, Pool
<1>5. CASE EndOfChoice /\ chosen # 1
  <2>1. pc = "choose" /\ hdd > Len(group) /\ hdd \in Nat
    BY <1>5 DEF EndOfChoice, IInv, DriverInv
  <2>2. /\ menu.sel = {group[h].name : h \in 1..(hdd - 1)} \cap Pool /\ hdd <= Len(group) + 1
        /\ (chosen = 1 <=> menu.sel # {})
    BY <1>1, <2>1 DEF FillInv, JbodInv, ListInv
  <2>3. Len(group) \in Nat /\ group = cmd.groups[1]
    BY <1>1, DriveAt DEF IInv, group
  <2>4. hdd - 1 = Len(group)
    BY <2>1, <2>2, <2>3
  <2> QED
    BY <1>5, <2>2, <2>3, <2>4 DEF Names
<1> QED
  BY <1>2, <1>3, <1>4, <1>5 DEF GivesUp

-----------------------------------------------------------------------------
(* The commands are carried out one by one, as long as no row fails.       *)

\* The command at hand has had its effect on the drives.
Over ==
  \/ table \in {"clearB", "clearD"}
  \/ table \in {"single", "fifth", "make", "unconfig"} /\ row > Len(Tables[table])

\* The commands that have had their effect.
Carried == IF Handling /\ Over THEN k ELSE k - 1

\* A command that is disabled before its turn was rejected.
RejectInv ==
  /\ pc = "next" => \A n \in k..Len(cmds) : Rejected(cmds[n])
  /\ Handling => \A n \in (k + 1)..Len(cmds) : Rejected(cmds[n])

\* The drives are what the commands that were carried out say.
EffectInv ==
  /\ drives = Effect[Carried]
  /\ pc = "done" => k = Len(cmds) + 1

\* No number before the one at hand is that of a virtual drive.
NoneBefore == \A h \in 1..(hdd - 1) : ~IsRdg(Parsed[k].groups[1][h])

\* The first virtual drive of a delete command is gone behind the rows that delete it:
\* until then the list is that of the card and the drive in the form is the first.
GoneInv ==
  /\ \A n \in 1..(k - 1) : FirstGone(n)
  /\ Handling /\ (table = "clearD" \/ In("delete", 3, 3) \/ In("raidRef", 6, 6)) => FirstGone(k)
  /\ pc = "choose" /\ table = "delete" => FirstGone(k) \/ (alive = 1 /\ list = vds /\ NoneBefore)
  /\ pc = "row" /\ In("raidRef", 1, 5) =>
       FirstGone(k) \/ (NoneBefore /\ Entered \in vds /\ (row >= 2 => menu.vd = Entered))

MeaningInv == faults = 0 => RejectInv /\ EffectInv /\ GoneInv

\* What follows a table, with the tables that end a command.
LEMMA EndsWith ==
  ASSUME DriverInv, EndOfTable
  PROVE  \/ /\ k' = k /\ hdd' = hdd /\ pc' = "row" /\ row' = 1
            /\ \/ table \in {"first", "second", "third", "forth"}
                    /\ table' \in {"second", "third", "forth", "fifth"}
               \/ table \in {"single", "fifth"} /\ table' = "clearB"
               \/ table = "delete" /\ table' = "clearD"
         \/ k' = k /\ hdd' = hdd + 1 /\ pc' = "choose" /\ table = "raidRef" /\ table' = "delete"
              /\ row' = 2
         \/ k' = k + 1 /\ pc' = "next" /\ table \in {"clearB", "clearD", "make", "unconfig"}
              /\ table' = table
<1>1. Succeeds
  BY DEF EndOfTable
<1>2. CASE table \in {"first", "second", "third"}
  BY <1>1, <1>2 DEF Succeeds, Go
<1>3. CASE table = "forth"
  BY <1>1, <1>3 DEF Succeeds, Go
<1>4. CASE table \in {"single", "fifth", "delete"}
  BY <1>1, <1>4 DEF Succeeds, Go
<1>5. CASE table = "raidRef"
  BY <1>1, <1>5 DEF Succeeds
<1>6. CASE table \in {"clearB", "clearD", "make", "unconfig"}
  BY <1>1, <1>6 DEF Succeeds, NextCmd
<1> QED
  BY <1>2, <1>3, <1>4, <1>5, <1>6, TableNames DEF DriverInv

\* Where a command is given up, and what it leaves.
LEMMA GivenUp ==
  ASSUME IInv, FillInv, GivesUp
  PROVE  /\ Handling /\ Fails /\ row <= Len(Tables[table]) /\ table \notin {"clearB", "clearD"}
         /\ UNCHANGED <<text, hdd, card, faults>>
         /\ \/ op = "choose" /\ pc = "row" /\ Listed = {}
            \/ op = "choose" /\ pc = "choose"
            \/ pc = "row" /\ table \in {"single", "first"}
            \/ pc = "row" /\ table = "raidRef" /\ row = 1 /\ Entered \notin vds
<1> USE DEF IInv
<1>1. table \in DOMAIN Tables
  BY DEF DriverInv
<1>2. CASE RowRefused
  <2>1. pc = "row" /\ row <= Len(Tables[table]) /\ Fails /\ UNCHANGED <<text, hdd, card, faults>>
    BY <1>2 DEF RowRefused, AtRow
  <2> QED
    BY <1>2, <2>1, RefusedAt DEF Handling
<1>3. CASE NothingListed
  <2>1. /\ pc = "row" /\ row <= Len(Tables[table]) /\ Fails /\ UNCHANGED <<text, hdd, card, faults>>
        /\ op = "choose" /\ Listed = {}
    BY <1>3 DEF NothingListed, AtRow
  <2>2. table \notin {"clearB", "clearD"}
    BY <1>1, <2>1, NextRow, RowTables
  <2> QED
    BY <2>1, <2>2 DEF Handling
<1>4. CASE WrongType \/ DriveMissing \/ (EndOfChoice /\ chosen # 1)
  <2>1. pc = "choose" /\ Fails /\ UNCHANGED <<text, hdd, card, faults>>
    BY <1>4 DEF WrongType, DriveMissing, EndOfChoice, Found, NotFound, AtDrive
  <2>2. row <= Len(Tables[table]) /\ op = "choose"
    BY <2>1 DEF FlowInv
  <2>3. table \notin {"clearB", "clearD"}
    BY <1>1, <2>2, NextRow, RowTables
  <2> QED
    BY <2>1, <2>2, <2>3 DEF Handling
<1> QED
  BY <1>2, <1>3, <1>4 DEF GivesUp

\* The steps while no row fails.
LEMMA FaultlessKinds ==
  ASSUME IInv, [Next]_vars, faults' = 0
  PROVE  /\ faults = 0
         /\ \/ ParseRaidCfgCmdString \/ CollectCfgCmdData \/ ExamineBasicForCmdRequire
            \/ SkipCmd \/ StartCmd \/ AllHandled \/ Touch \/ PressYes \/ EndOfTable
            \/ StartChoice \/ ChooseHdd \/ SkipDrive \/ DeleteDrive
            \/ (EndOfChoice /\ chosen = 1) \/ GivesUp \/ UNCHANGED vars
<1>1. faults \in Nat
  BY RaidCommandsBoundAssumption DEF IInv, DriverInv
<1>2. ~RowFails /\ ~ChooseFails
  BY <1>1 DEF RowFails, ChooseFails
<1>3. CASE ParseRaidCfgCmdString \/ CollectCfgCmdData \/ ExamineBasicForCmdRequire
           \/ SkipCmd \/ StartCmd \/ AllHandled
  BY <1>3 DEF ParseRaidCfgCmdString, CollectCfgCmdData, ExamineBasicForCmdRequire, SkipCmd,
              StartCmd, AllHandled
<1>4. CASE Touch \/ PressYes \/ EndOfTable \/ StartChoice \/ RowRefused \/ NothingListed
  BY <1>4 DEF Touch, PressYes, EndOfTable, StartChoice, RowRefused, NothingListed, GivesUp
<1>5. CASE ChooseHdd \/ WrongType \/ DeleteDrive \/ SkipDrive \/ DriveMissing \/ EndOfChoice
  BY <1>5 DEF ChooseHdd, WrongType, DeleteDrive, SkipDrive, DriveMissing, EndOfChoice, GivesUp
<1>6. CASE UNCHANGED vars
  BY <1>6 DEF vars
<1> QED
  BY <1>2, <1>3, <1>4, <1>5, <1>6 DEF Next, Handle, Finished

\* The steps that stay within a command and leave it as it is.
InCommand ==
  Touch \/ PressYes \/ StartChoice \/ ChooseHdd \/ SkipDrive \/ DeleteDrive
    \/ (EndOfChoice /\ chosen = 1)

LEMMA InCommandIs ==
  ASSUME InCommand
  PROVE  Handling /\ Handling' /\ UNCHANGED <<text, cmds, k>>
<1>1. CASE Touch \/ PressYes \/ StartChoice
  BY <1>1 DEF Touch, PressYes, StartChoice, AtRow, Handling
<1>2. CASE ChooseHdd \/ SkipDrive
  BY <1>2 DEF ChooseHdd, SkipDrive, Found, NotFound, AtDrive, Handling
<1>3. CASE DeleteDrive
  BY <1>3 DEF DeleteDrive, Go, Found, AtDrive, Handling
<1>4. CASE EndOfChoice /\ chosen = 1
  BY <1>4 DEF EndOfChoice, Handling
<1> QED
  BY <1>1, <1>2, <1>3, <1>4 DEF InCommand

\* Giving a command up disables no other.
LEMMA RejectStep ==
  ASSUME IInv, FillInv, RejectInv, [Next]_vars, faults' = 0
  PROVE  RejectInv'
<1> USE DEF IInv
<1>1. cmds \in Seq(Command) /\ k \in 1..(Len(cmds) + 1) /\ Len(cmds) \in Nat
  <2>1. cmds \in Seq(Command) /\ k \in 1..(Len(cmds) + 1)
    BY DEF DriverInv
  <2> HIDE DEF Command
  <2> QED
    BY <2>1
<1>2. CASE ParseRaidCfgCmdString \/ CollectCfgCmdData \/ AllHandled
  BY <1>2 DEF ParseRaidCfgCmdString, CollectCfgCmdData, AllHandled, RejectInv, Handling
<1>3. CASE ExamineBasicForCmdRequire
  <2>1. pc' = "next" /\ k' = 1
    BY <1>3 DEF ExamineBasicForCmdRequire, FlowInv
  <2>2. \A n \in 1..Len(cmds') : Rejected(cmds'[n])
    BY <1>1, <1>3, ExamineStep
  <2> QED
    BY <2>1, <2>2 DEF RejectInv, Handling
<1>4. CASE SkipCmd \/ StartCmd
  <2>1. pc = "next" /\ cmds' = cmds /\ ((pc' = "next" /\ k' = k + 1) \/ (pc' = "row" /\ k' = k))
    BY <1>4 DEF SkipCmd, StartCmd
  <2>2. \A n \in (k + 1)..Len(cmds) : n \in k..Len(cmds)
    BY <1>1
  <2>3. \A n \in (k + 1)..Len(cmds) : Rejected(cmds[n])
    BY <2>1, <2>2 DEF RejectInv
  <2> QED
    BY <2>1, <2>3 DEF RejectInv, Handling
<1>5. CASE InCommand
  BY <1>5, InCommandIs DEF RejectInv, Handling
<1>6. CASE EndOfTable
  <2>1. Handling /\ cmds' = cmds /\ ((pc' = "next" /\ k' = k + 1) \/ (pc' # "next" /\ k' = k))
    BY <1>6, EndsWith, Follows DEF Handling
  <2> QED
    BY <2>1 DEF RejectInv, Handling
<1>7. CASE GivesUp
  <2>1. Handling /\ Fails
    BY <1>7, GivenUp
  <2>2. (pc' = "next" /\ k' = k + 1) \/ (pc' = "row" /\ k' = k)
    BY <2>1, FailsIs
  <2>3. cmds' = [cmds EXCEPT ![k].enable = 0]
    BY <2>1 DEF Fails
  <2>4. Len(cmds') = Len(cmds) /\ \A n \in (k + 1)..Len(cmds) : cmds'[n] = cmds[n]
    <3>1. \A n \in (k + 1)..Len(cmds) : n \in 1..Len(cmds) /\ n # k
      BY <1>1
    <3> HIDE DEF Command
    <3> QED
      BY <1>1, <2>3, <3>1
  <2> QED
    BY <2>1, <2>2, <2>4 DEF RejectInv, Handling
<1>8. CASE UNCHANGED vars
  BY <1>8 DEF vars, RejectInv, Handling
<1> QED
  BY <1>2, <1>3, <1>4, <1>5, <1>6, <1>7, <1>8, FaultlessKinds DEF InCommand

\* A command that has no effect leaves what the drives are.
LEMMA CarriedOut ==
  ASSUME IInv, EffectInv, pc \notin {"parse", "collect"}, k \in 1..Len(cmds),
         Carried = k - 1, drives' = After(drives, k), text' = text
  PROVE  drives' = Effect'[k]
<1>1. Effect' = Effect
  BY EffectSame
<1>2. Len(Parsed) \in Nat /\ k \in 1..Len(Parsed)
  BY TextOf
<1>3. Effect[k] = After(Effect[k - 1], k)
  BY <1>2, EffectIs
<1>4. drives = Effect[k - 1]
  BY DEF EffectInv
<1> QED
  BY <1>1, <1>3, <1>4

\* A step that leaves the drives and carries no command out.
LEMMA CarriedNone ==
  ASSUME EffectInv, UNCHANGED card, text' = text, Carried' = Carried,
         pc' = "done" => k' = Len(cmds') + 1
  PROVE  EffectInv'
<1>1. Effect' = Effect
  BY EffectSame
<1>2. drives' = drives
  BY DEF card, drives
<1> QED
  BY <1>1, <1>2 DEF EffectInv

\* The first row is within its table.
LEMMA WithinFirst ==
  ASSUME NEW t \in DOMAIN Tables
  PROVE  ~(1 > Len(Tables[t]))
<1> DEFINE n == Len(Tables[t])
<1>1. n \in Nat /\ n >= 1
  BY TableLen
<1> HIDE DEF n
<1>2. ~(1 > n)
  BY <1>1
<1> QED
  BY <1>2 DEF n

\* A row within a table is not behind its end.
LEMMA NotOver ==
  ASSUME IInv, row <= Len(Tables[table]), table \notin {"clearB", "clearD"}
  PROVE  ~Over /\ Carried = k - 1
<1>1. table \in DOMAIN Tables /\ row \in Int
  BY DEF IInv, DriverInv
<1>2. Len(Tables[table]) \in Nat
  BY <1>1, TableLen
<1>3. ~(row > Len(Tables[table]))
  BY <1>1, <1>2
<1> QED
  BY <1>3 DEF Over, Carried

\* A command that is passed over has no effect.
LEMMA IdleEffect ==
  ASSUME IInv, RejectInv, pc = "next", k \in 1..Len(cmds), Idle(cmd)
  PROVE  After(drives, k) = drives
<1> DEFINE N == IF cmd.groups = <<>> THEN {} ELSE Names(cmd.groups[1])
<1>1. /\ cmd \in Command /\ Parsed[k] \in Sections /\ CommandOf(cmd, Parsed[k]) /\ LookedUp(cmd)
      /\ Len(cmds) \in Nat
  BY TextOf DEF cmd
<1>2. cmd.specie \in {"B", "D", "O"} /\ cmd.jbod \in {"make", "unconfig", None}
  BY <1>1 DEF Command
<1>3. Rejected(cmd)
  <2>1. k \in k..Len(cmds)
    BY <1>1
  <2> QED
    BY <2>1 DEF RejectInv, cmd
<1>4. /\ cmd.specie = "D" \/ (cmd.specie = "O" /\ cmd.jbod = None) => After(drives, k) = drives
      /\ cmd.specie = "B" /\ ~Buildable(drives, Parsed[k]) => After(drives, k) = drives
      /\ cmd.specie = "O" /\ cmd.jbod = "make" =>
           After(drives, k) = [good |-> good \ N, jbod |-> jbod \cup (N \cap good), built |-> built]
      /\ cmd.specie = "O" /\ cmd.jbod = "unconfig" =>
           After(drives, k) = [good |-> good \cup (N \cap jbod), jbod |-> jbod \ N, built |-> built]
  BY AfterIs DEF cmd
<1>5. CASE cmd.specie = "D" \/ (cmd.specie = "O" /\ cmd.jbod = None)
  BY <1>4, <1>5
<1>6. CASE ~(cmd.specie = "D" \/ (cmd.specie = "O" /\ cmd.jbod = None))
  <2>1. ~Examined(cmd)
    BY <1>2, <1>3, <1>6 DEF Idle, Rejected, ToExamine
  <2>2. CASE cmd.specie = "B"
    BY <1>1, <1>4, <2>1, <2>2, BuildNeeds
  <2>3. CASE cmd.specie = "O"
    <3>1. cmd.groups = <<>>
      BY <2>1, <2>3 DEF Examined, ExamineForCmdGroup
    <3>2. N = {}
      BY <3>1
    <3> HIDE DEF N
    <3>3. good \ N = good /\ good \cup (N \cap jbod) = good /\ jbod \ N = jbod
          /\ jbod \cup (N \cap good) = jbod
      BY <3>2
    <3> QED
      BY <1>2, <1>4, <1>6, <2>3, <3>3 DEF drives
  <2> QED
    BY <1>2, <1>6, <2>2, <2>3
<1> QED
  BY <1>5, <1>6

\* A command that is given up has no effect.
LEMMA GivenUpEffect ==
  ASSUME IInv, BInv, FillInv, GivesUp
  PROVE  After(drives, k) = drives
<1> DEFINE N == Names(cmd.groups[1])
<1>1. Handling /\ pc \notin {"parse", "collect"}
  BY GivenUp DEF Handling
<1>2. k \in 1..Len(cmds) /\ cmd \in Command /\ cmd.groups # <<>> /\ ToExamine(cmd)
  BY <1>1, AtCommand DEF IInv
<1>3. cmd.specie \in {"B", "D", "O"} /\ cmd.jbod \in {"make", "unconfig", None}
  BY <1>2 DEF Command
<1>4. /\ cmd.specie = "D" => After(drives, k) = drives
      /\ cmd.specie = "B" /\ ~Buildable(drives, Parsed[k]) => After(drives, k) = drives
      /\ cmd.specie = "O" /\ cmd.jbod = "make" =>
           After(drives, k) = [good |-> good \ N, jbod |-> jbod \cup (N \cap good), built |-> built]
      /\ cmd.specie = "O" /\ cmd.jbod = "unconfig" =>
           After(drives, k) = [good |-> good \cup (N \cap jbod), jbod |-> jbod \ N, built |-> built]
  BY <1>1, <1>2, AfterIs DEF cmd
<1>5. CASE cmd.specie = "D"
  BY <1>4, <1>5
<1>6. CASE cmd.specie = "B"
  BY <1>1, <1>4, <1>6, FailedBuild
<1>7. CASE cmd.specie = "O"
  <2>1. N \cap Pool = {}
    BY <1>1, <1>7, FailedJbod
  <2>2. cmd.jbod = table /\ table \in {"make", "unconfig"}
    <3>1. table \in TablesOf(cmd)
      BY <1>1, AtCommand DEF IInv
    <3>2. table \in {"make", "unconfig"}
      BY <1>1, <1>7, WhoseTable DEF IInv
    <3> QED
      BY <1>7, <3>1, <3>2 DEF TablesOf
  <2> HIDE DEF N
  <2>3. CASE table = "make"
    <3>1. good \ N = good /\ jbod \cup (N \cap good) = jbod
      BY <2>1, <2>3 DEF Pool
    <3> QED
      BY <1>4, <1>7, <2>2, <2>3, <3>1 DEF drives
  <2>4. CASE table = "unconfig"
    <3>1. jbod \ N = jbod /\ good \cup (N \cap jbod) = good
      BY <2>1, <2>4 DEF Pool
    <3> QED
      BY <1>4, <1>7, <2>2, <2>4, <3>1 DEF drives
  <2> QED
    BY <2>2, <2>3, <2>4
<1> QED
  BY <1>3, <1>5, <1>6, <1>7

\* A build that is saved can be carried out, and is.
LEMMA SaveEffect ==
  ASSUME IInv, BInv, FillInv, PressYes, table \in {"single", "fifth"}
  PROVE  drives' = After(drives, k)
<1> DEFINE t == Parsed[k]
           u == Used(t)
           w == UsedGroups(cmd)
           s == menu.spans
           H == OfType("HDG")
<1>1. /\ AtRow /\ arg = "yes" /\ Done(menu) /\ Handling /\ pc \notin {"parse", "collect"}
      /\ row <= Len(Tables[table])
  BY DEF PressYes, AtRow, Handling
<1>2. k \in 1..Len(cmds) /\ cmd \in Command /\ cmd.groups # <<>> /\ Examined(cmd)
  BY <1>1, AtCommand DEF IInv
<1>3. /\ menu.warn = "save" /\ DOMAIN s = 1..Len(u)
      /\ [cmd |-> k, spans |-> s, level |-> menu.level, size |-> menu.size] = Described(k)
      /\ \A n \in 1..Len(u) : s[n] \subseteq good
  BY <1>1, SavedIs DEF BInv
<1>4. s = [g \in 1..Len(u) |-> Named(u[g])]
  <2>1. [cmd |-> k, spans |-> s, level |-> menu.level, size |-> menu.size].spans
          = [g \in 1..Len(u) |-> Named(u[g])]
    BY <1>3 DEF Described
  <2> QED
    BY <2>1
<1>5. s \in Seq(SUBSET Drive) /\ menu.level \in Level
  BY DEF IInv, CardInv, Menu
<1>6. cmd.specie = "B"
  BY <1>1, WhoseTable DEF IInv, BuildTables
<1>7. /\ Len(u) \in Nat
      /\ \A g \in 1..Len(u) : Names(cmd.groups[g]) = Named(u[g])
  BY <1>1, <1>6, UsedDrives
<1>8. t \in Sections /\ CommandOf(cmd, t) /\ LookedUp(cmd)
  BY <1>1, <1>2, TextOf DEF cmd
<1>9. Len(w) = Len(u) /\ \A g \in 1..Len(u) : w[g] = cmd.groups[g]
  BY <1>2, <1>8, UsedAlike
<1>10. Len(s) = Len(u)
  <2> DEFINE S == SUBSET Drive
  <2>1. s \in Seq(S)
    BY <1>5
  <2> HIDE DEF S, s, u
  <2>2. DOMAIN s = 1..Len(s) /\ Len(s) \in Nat
    BY <2>1
  <2> QED
    BY <1>3, <1>7, <2>2
<1>11. (table = "single" /\ row = 10) \/ (table = "fifth" /\ row = 5)
  <2>1. table \in DOMAIN Tables /\ row \in 1..Len(Tables[table])
    BY <1>1, NextRow DEF IInv, DriverInv
  <2> QED
    BY <1>1, <2>1, Rows DEF At
<1>12. \A n \in 1..Len(s) : s[n] \subseteq H
  BY <1>1, <1>11 DEF FillInv, HdgInv, Filling, In
<1>13. cmd.level \in Level \cup {None}
  <2>1. menu.level = LevelOf(cmd)
    BY <1>1, <1>11 DEF BInv, FormInv, FormIs, In
  <2> QED
    BY <1>5, <2>1 DEF LevelOf
<1>14. \A g \in 1..Len(w) : \A h \in 1..Len(w[g]) : w[g][h].name \in drives.good \cap H
  <2> SUFFICES ASSUME NEW g \in 1..Len(w), NEW h \in 1..Len(w[g])
               PROVE  w[g][h].name \in drives.good \cap H
    OBVIOUS
  <2>1. g \in 1..Len(u) /\ g \in 1..Len(s) /\ w[g] = cmd.groups[g]
    BY <1>9, <1>10
  <2>2. w[g][h].name \in Names(cmd.groups[g])
    BY <2>1 DEF Names
  <2>3. Names(cmd.groups[g]) = s[g]
    <3> HIDE DEF u, s
    <3> QED
      BY <1>4, <1>7, <2>1
  <2>4. s[g] \subseteq good /\ s[g] \subseteq H
    BY <1>3, <1>12, <2>1
  <2>5. drives.good = good
    BY DEF drives
  <2> HIDE DEF H, s, w
  <2> QED
    BY <2>2, <2>3, <2>4, <2>5
<1>15. Buildable(drives, t)
  BY <1>2, <1>6, <1>8, <1>13, <1>14, BuildNeeds
<1>16. After(drives, k) = [good |-> good \ UNION {Named(u[j]) : j \in 1..Len(u)},
                           jbod |-> jbod, built |-> built \cup {Described(k)}]
  BY <1>1, <1>2, <1>6, <1>15, AfterIs DEF cmd
<1>17. /\ good' = good \ UNION {s[n] : n \in 1..Len(s)} /\ jbod' = jbod
       /\ built' = built \cup {Described(k)}
  BY <1>1, <1>3 DEF Done
<1>18. {s[n] : n \in 1..Len(s)} = {Named(u[j]) : j \in 1..Len(u)}
  <2> HIDE DEF s, u
  <2> QED
    BY <1>4, <1>10
<1> QED
  BY <1>16, <1>17, <1>18 DEF drives

\* A JBOD command that is confirmed takes the drives of its group that are listed.
LEMMA JbodEffect ==
  ASSUME IInv, BInv, FillInv, PressYes, table \in {"make", "unconfig"}
  PROVE  drives' = After(drives, k)
<1> DEFINE N == Names(cmd.groups[1])
<1>1. /\ pc = "row" /\ arg = "yes" /\ Done(menu) /\ Handling /\ pc \notin {"parse", "collect"}
      /\ row <= Len(Tables[table])
  BY DEF PressYes, AtRow, Handling
<1>2. k \in 1..Len(cmds) /\ cmd \in Command /\ cmd.groups # <<>> /\ table \in TablesOf(cmd)
  BY <1>1, AtCommand DEF IInv
<1>3. cmd.specie = "O" /\ cmd.jbod = table
  <2>1. cmd.specie = "O"
    BY <1>1, WhoseTable DEF IInv
  <2> QED
    BY <1>2, <2>1 DEF TablesOf
<1>4. /\ cmd.jbod = "make" =>
           After(drives, k) = [good |-> good \ N, jbod |-> jbod \cup (N \cap good), built |-> built]
      /\ cmd.jbod = "unconfig" =>
           After(drives, k) = [good |-> good \cup (N \cap jbod), jbod |-> jbod \ N, built |-> built]
  BY <1>1, <1>2, <1>3, AfterIs DEF cmd
<1>5. row = 5
  <2>1. table \in DOMAIN Tables /\ row \in 1..Len(Tables[table])
    BY <1>1, NextRow DEF IInv, DriverInv
  <2> QED
    BY <1>1, <2>1, Rows DEF At
<1>6. menu.warn = table
  BY <1>1, <1>5 DEF BInv, FormInv, FormIs, In
<1>7. menu.sel = N \cap Pool
  BY <1>1, <1>5 DEF FillInv, JbodInv, In
<1> HIDE DEF N
<1>8. CASE table = "make"
  <2>1. good' = good \ menu.sel /\ jbod' = jbod \cup menu.sel /\ built' = built
    BY <1>1, <1>6, <1>8 DEF Done
  <2>2. menu.sel = N \cap good
    BY <1>7, <1>8 DEF Pool
  <2>3. good \ menu.sel = good \ N
    BY <2>2
  <2> QED
    BY <1>3, <1>4, <1>8, <2>1, <2>2, <2>3 DEF drives
<1>9. CASE table = "unconfig"
  <2>1. good' = good \cup menu.sel /\ jbod' = jbod \ menu.sel /\ built' = built
    BY <1>1, <1>6, <1>9 DEF Done
  <2>2. menu.sel = N \cap jbod
    BY <1>7, <1>9 DEF Pool
  <2>3. jbod \ menu.sel = jbod \ N
    BY <2>2
  <2> QED
    BY <1>3, <1>4, <1>9, <2>1, <2>2, <2>3 DEF drives
<1> QED
  BY <1>8, <1>9

\* The drives are what the commands that were carried out say, after every step.
LEMMA EffectStep ==
  ASSUME IInv, BInv, FillInv, RejectInv, EffectInv, [Next]_vars, faults' = 0
  PROVE  EffectInv'
<1> USE DEF IInv
<1>1. /\ cmds \in Seq(Command) /\ k \in 1..(Len(cmds) + 1) /\ Len(cmds) \in Nat
      /\ table \in DOMAIN Tables /\ row \in Int
  <2>1. cmds \in Seq(Command) /\ k \in 1..(Len(cmds) + 1) /\ table \in DOMAIN Tables /\ row \in Int
    BY DEF DriverInv
  <2> HIDE DEF Command
  <2> QED
    BY <2>1
<1>2. text' = text /\ Effect' = Effect
  BY CardMoves, EffectSame
<1>3. Len(Tables[table]) \in Nat
  BY <1>1, TableLen
<1>4. CASE ParseRaidCfgCmdString \/ CollectCfgCmdData \/ ExamineBasicForCmdRequire \/ AllHandled
  <2>1. /\ ~Handling /\ ~Handling' /\ UNCHANGED <<k, card>>
        /\ pc' = "done" => AllHandled
    BY <1>4 DEF ParseRaidCfgCmdString, CollectCfgCmdData, ExamineBasicForCmdRequire, AllHandled,
                Handling
  <2>2. AllHandled => k' = Len(cmds') + 1
    BY <1>1 DEF AllHandled
  <2>3. Carried' = Carried
    BY <2>1 DEF Carried
  <2> QED
    BY <1>2, <2>1, <2>2, <2>3, CarriedNone
<1>5. CASE SkipCmd
  <2>1. /\ pc = "next" /\ pc' = "next" /\ k <= Len(cmds) /\ Idle(cmd) /\ k' = k + 1
        /\ UNCHANGED card
    BY <1>5 DEF SkipCmd
  <2>2. k \in 1..Len(cmds) /\ k' - 1 = k
    BY <1>1, <2>1
  <2>3. After(drives, k) = drives
    BY <2>1, <2>2, IdleEffect
  <2>4. drives' = drives
    BY <2>1 DEF card, drives
  <2>5. Carried = k - 1 /\ Carried' = k
    BY <2>1, <2>2 DEF Carried, Handling
  <2>6. drives' = Effect'[k]
    BY <1>2, <2>1, <2>2, <2>3, <2>4, <2>5, CarriedOut
  <2> QED
    BY <2>1, <2>5, <2>6 DEF EffectInv
<1>6. CASE StartCmd
  <2>1. /\ row' = 1 /\ pc = "next" /\ pc' = "row" /\ k' = k /\ UNCHANGED card
        /\ table' \in {"first", "single", "delete", "make", "unconfig"}
    BY <1>6, StartsWith DEF StartCmd
  <2>2. ~(1 > Len(Tables[table']))
    BY <2>1, TableNames, WithinFirst
  <2>3. ~Over'
    BY <2>1, <2>2 DEF Over
  <2>4. Carried' = Carried
    BY <2>1, <2>3 DEF Carried, Handling
  <2> QED
    BY <1>2, <2>1, <2>4, CarriedNone
<1>7. CASE Touch
  <2>1. /\ pc = "row" /\ pc' = "row" /\ row' = row + 1 /\ table' = table /\ k' = k
        /\ row <= Len(Tables[table]) /\ arg # "yes" /\ UNCHANGED card
    BY <1>7 DEF Touch, AtRow
  <2>2. row \in 1..Len(Tables[table])
    BY <2>1, NextRow
  <2>3. (table = "single" => row # 10) /\ (table \in {"fifth", "make", "unconfig"} => row # 5)
    BY <1>1, <2>1, <2>2, Rows DEF At
  <2>4. /\ table = "single" => Len(Tables[table]) = 10
        /\ table \in {"fifth", "make", "unconfig"} => Len(Tables[table]) = 5
    BY TableNames
  <2>5. table \in {"single", "fifth", "make", "unconfig"} =>
          ~(row > Len(Tables[table])) /\ ~(row + 1 > Len(Tables[table]))
    <3> DEFINE n == Len(Tables[table])
    <3>1. n \in Nat /\ row <= n
      BY <1>3, <2>1
    <3>2. table \in {"single", "fifth", "make", "unconfig"} => row # n
      BY <2>3, <2>4
    <3> HIDE DEF n
    <3>3. table \in {"single", "fifth", "make", "unconfig"} => ~(row > n) /\ ~(row + 1 > n)
      BY <1>1, <3>1, <3>2
    <3> QED
      BY <3>3 DEF n
  <2>6. Over' <=> Over
    BY <2>1, <2>5 DEF Over
  <2>7. Carried' = Carried
    BY <2>1, <2>6 DEF Carried, Handling
  <2> QED
    BY <1>2, <2>1, <2>7, CarriedNone
<1>8. CASE PressYes
  <2>1. /\ pc = "row" /\ pc' = "row" /\ row' = row + 1 /\ table' = table /\ k' = k
        /\ row <= Len(Tables[table]) /\ arg = "yes" /\ Done(menu)
    BY <1>8 DEF PressYes, AtRow
  <2>2. row \in 1..Len(Tables[table])
    BY <2>1, NextRow
  <2>3. \/ (table = "raidRef" /\ row = 5)
        \/ table \in {"single", "fifth", "make", "unconfig"}
    BY <1>1, <2>1, <2>2, Rows DEF At
  <2>4. row = Len(Tables[table])
    BY <1>1, <2>1, <2>2, RowTables
  <2>5. k \in 1..Len(cmds)
    BY <2>1, AtCommand DEF Handling
  <2>6. CASE table = "raidRef"
    <3>1. menu.warn = "delete"
      BY <2>1, <2>3, <2>6 DEF BInv, FormInv, FormIs, In, Handling
    <3>2. UNCHANGED <<good, jbod, built>>
      BY <2>1, <3>1 DEF Done
    <3>3. drives' = drives
      BY <3>2 DEF drives
    <3>4. Carried' = Carried
      BY <2>1, <2>6 DEF Carried, Over, Handling
    <3> QED
      BY <1>2, <2>1, <3>3, <3>4 DEF EffectInv
  <2>7. CASE table \in {"single", "fifth", "make", "unconfig"}
    <3>1. drives' = After(drives, k)
      BY <1>8, <2>7, SaveEffect, JbodEffect
    <3>2. Carried = k - 1
      BY <2>1, <2>7, NotOver
    <3>3. drives' = Effect'[k]
      BY <1>2, <2>1, <2>5, <3>1, <3>2, CarriedOut
    <3>4. row' > Len(Tables[table])
      BY <1>1, <1>3, <2>1, <2>4
    <3>5. Carried' = k
      BY <2>1, <2>7, <3>4 DEF Carried, Over, Handling
    <3> QED
      BY <2>1, <3>3, <3>5 DEF EffectInv
  <2> QED
    BY <2>3, <2>6, <2>7
<1>9. CASE EndOfTable
  <2>1. pc = "row" /\ row > Len(Tables[table]) /\ UNCHANGED card
    BY <1>9, Follows
  <2>2. k \in 1..Len(cmds)
    BY <2>1, AtCommand DEF Handling
  <2>3. CASE /\ k' = k /\ pc' = "row" /\ row' = 1
             /\ table \in {"first", "second", "third", "forth"}
             /\ table' \in {"second", "third", "forth", "fifth"}
    <3>1. ~(1 > Len(Tables[table']))
      BY <2>3, TableNames, WithinFirst
    <3>2. Carried' = Carried
      BY <2>3, <3>1 DEF Carried, Over
    <3> QED
      BY <1>2, <2>1, <2>3, <3>2, CarriedNone
  <2>4. CASE k' = k /\ pc' = "row" /\ table \in {"single", "fifth"} /\ table' = "clearB"
    <3>1. Carried' = Carried
      BY <2>1, <2>4 DEF Carried, Over, Handling
    <3> QED
      BY <1>2, <2>1, <2>4, <3>1, CarriedNone
  <2>5. CASE k' = k /\ pc' = "row" /\ table = "delete" /\ table' = "clearD"
    <3>1. Carried = k - 1 /\ Carried' = k
      BY <2>5 DEF Carried, Over, Handling
    <3>2. cmd.specie = "D"
      BY <2>1, <2>5, WhoseTable DEF Handling
    <3>3. After(drives, k) = drives
      BY <2>1, <2>2, <3>2, AfterIs DEF cmd
    <3>4. drives' = drives
      BY <2>1 DEF card, drives
    <3>5. drives' = Effect'[k]
      BY <1>2, <2>1, <2>2, <3>1, <3>3, <3>4, CarriedOut
    <3> QED
      BY <2>5, <3>1, <3>5 DEF EffectInv
  <2>6. CASE k' = k /\ pc' = "choose" /\ table = "raidRef" /\ table' = "delete"
    <3>1. Carried' = Carried
      BY <2>6 DEF Carried, Over
    <3> QED
      BY <1>2, <2>1, <2>6, <3>1, CarriedNone
  <2>7. CASE k' = k + 1 /\ pc' = "next" /\ table \in {"clearB", "clearD", "make", "unconfig"}
    <3>1. Carried = k
      BY <2>1, <2>7 DEF Carried, Over, Handling
    <3>2. Carried' = k' - 1
      <4>1. ~Handling'
        BY <2>7 DEF Handling
      <4> QED
        BY <4>1 DEF Carried
    <3>3. Carried' = Carried
      BY <1>1, <2>7, <3>1, <3>2
    <3> QED
      BY <1>2, <2>1, <2>7, <3>3, CarriedNone
  <2> QED
    BY <1>9, <2>3, <2>4, <2>5, <2>6, <2>7, EndsWith
<1>10. CASE StartChoice \/ ChooseHdd \/ SkipDrive
  <2>1. Handling /\ Handling' /\ UNCHANGED <<table, row, k, card>>
    BY <1>10, Stays DEF CardInv
  <2>2. Carried' = Carried /\ pc' # "done"
    BY <2>1 DEF Carried, Over, Handling
  <2> QED
    BY <1>2, <2>1, <2>2, CarriedNone
<1>11. CASE DeleteDrive
  <2>1. /\ Handling /\ table = "delete" /\ table' = "raidRef" /\ pc' = "row" /\ k' = k
        /\ UNCHANGED card
    BY <1>11 DEF DeleteDrive, Go, Found, AtDrive, Handling
  <2>2. Carried' = Carried
    BY <2>1 DEF Carried, Over
  <2> QED
    BY <1>2, <2>1, <2>2, CarriedNone
<1>12. CASE EndOfChoice /\ chosen = 1
  <2>1. /\ Handling /\ pc' = "row" /\ row' = row + 1 /\ UNCHANGED <<table, k, card>>
        /\ \/ (table = "single" /\ row = 4) \/ (table = "forth" /\ row = 1)
           \/ (table \in {"delete", "make", "unconfig"} /\ row = 2)
    BY <1>12, Chosen
  <2>2. ~Over /\ ~Over'
    <3> DEFINE n == Len(Tables[table])
    <3>1. (table = "single" => n = 10) /\ (table \in {"make", "unconfig"} => n = 5)
      BY TableNames
    <3>2. (Over => table \in {"single", "make", "unconfig"} /\ row > n)
          /\ (Over' => table \in {"single", "make", "unconfig"} /\ row + 1 > n)
      BY <2>1 DEF Over
    <3> HIDE DEF n
    <3> QED
      BY <2>1, <3>1, <3>2
  <2>3. Carried' = Carried
    BY <2>1, <2>2 DEF Carried
  <2> QED
    BY <1>2, <2>1, <2>3, CarriedNone
<1>13. CASE GivesUp
  <2>1. /\ Handling /\ Fails /\ row <= Len(Tables[table]) /\ table \notin {"clearB", "clearD"}
        /\ UNCHANGED card
    BY <1>13, GivenUp
  <2>2. k \in 1..Len(cmds) /\ k + 1 - 1 = k /\ pc \notin {"parse", "collect"}
    BY <1>1, <2>1, AtCommand DEF Handling
  <2>3. After(drives, k) = drives
    BY <1>13, GivenUpEffect
  <2>4. drives' = drives
    BY <2>1 DEF card, drives
  <2>5. Carried = k - 1
    BY <2>1, NotOver
  <2>6. drives' = Effect'[k]
    BY <1>2, <2>2, <2>3, <2>4, <2>5, CarriedOut
  <2>7. \/ pc' = "row" /\ k' = k /\ table' \in {"clearB", "clearD"}
        \/ pc' = "next" /\ k' = k + 1
    BY <2>1, FailsIs
  <2>8. Carried' = k /\ pc' # "done"
    BY <2>2, <2>7 DEF Carried, Over, Handling
  <2> QED
    BY <2>6, <2>8 DEF EffectInv
<1>14. CASE UNCHANGED vars
  <2>1. UNCHANGED <<pc, k, table, row, card, cmds>>
    BY <1>14 DEF vars, control
  <2>2. Carried' = Carried
    BY <2>1 DEF Carried, Over, Handling
  <2>3. pc' = "done" => k' = Len(cmds') + 1
    BY <2>1 DEF EffectInv
  <2> QED
    BY <1>2, <2>1, <2>2, <2>3, CarriedNone
<1> QED
  BY <1>4, <1>5, <1>6, <1>7, <1>8, <1>9, <1>10, <1>11, <1>12, <1>13, <1>14, FaultlessKinds

\* A virtual drive that is gone stays so.
LEMMA GoneKept ==
  ASSUME [Next]_vars
  PROVE  /\ Parsed' = Parsed /\ vds' \subseteq vds
         /\ \A n : FirstGone(n) => FirstGone(n)'
<1>1. Parsed' = Parsed
  BY CardMoves, TextSame
<1>2. vds' \subseteq vds
  BY CardMoves DEF card, Done
<1> QED
  BY <1>1, <1>2 DEF FirstGone

\* A command that deletes nothing has nothing to be gone.
LEMMA GoneVacuous ==
  ASSUME IInv, pc \notin {"parse", "collect"}, k \in 1..Len(cmds),
         cmd.specie # "D" \/ cmd.groups = <<>>
  PROVE  FirstGone(k)
<1>1. cmd \in Command /\ Parsed[k] \in Sections /\ CommandOf(cmd, Parsed[k]) /\ LookedUp(cmd)
  BY TextOf DEF cmd
<1>2. cmd.specie = Parsed[k].specie
  BY <1>1 DEF CommandOf
<1>3. cmd.groups = <<>> <=> ParsedGroups(Parsed[k]) = <<>>
  BY <1>1, UsedAlike
<1> QED
  BY <1>2, <1>3 DEF FirstGone

\* The drives of a delete command and their numbers in the text: those that the card
\* has are virtual drives.
LEMMA DeleteDrives ==
  ASSUME IInv, Handling, cmd.specie = "D"
  PROVE  LET g == Parsed[k].groups[1] IN
         /\ Len(g) = Len(cmd.groups[1]) /\ Len(g) \in Nat
         /\ \A h \in 1..Len(g) :
              LET x == cmd.groups[1][h].name IN
              /\ x \in vds => IsRdg(g[h])
              /\ IsRdg(g[h]) => x = Items[g[h]].name
<1> DEFINE t == Parsed[k]
           g == t.groups[1]
           G == cmd.groups[1]
           p == ParsedGroups(t)
<1>1. /\ k \in 1..Len(cmds) /\ cmd \in Command /\ cmd.groups # <<>> /\ pc \notin {"parse", "collect"}
      /\ Len(cmd.groups) \in Nat /\ Len(cmd.groups) >= 1
  BY AtCommand DEF IInv, Handling
<1>2. t \in Sections /\ CommandOf(cmd, t) /\ LookedUp(cmd)
  BY <1>1, TextOf DEF cmd
<1>3. /\ Len(p) \in Nat /\ \A j \in 1..Len(p) : p[j] \in Seq(Nat) /\ p[j] = t.groups[j]
  <2> HIDE DEF Sections
  <2> QED
    BY <1>2, GroupsOf
<1>4. /\ Len(cmd.groups) = Len(p) /\ Len(G) = Len(p[1])
      /\ \A h \in 1..Len(G) : G[h] = Collected(cmd, p[1][h])
  BY <1>1, <1>2 DEF CommandOf, LookedUp
<1>5. g = p[1] /\ g \in Seq(Nat)
  BY <1>1, <1>3, <1>4
<1>6. Len(G) = Len(g) /\ Len(g) \in Nat /\ \A h \in 1..Len(g) : G[h] = Collected(cmd, g[h])
  BY <1>4, <1>5
<1> HIDE DEF g, G
<1>7. ASSUME NEW h \in 1..Len(g) PROVE /\ G[h].name \in vds => IsRdg(g[h])
                                       /\ IsRdg(g[h]) => G[h].name = Items[g[h]].name
  <2>1. /\ g[h] \in 1..Len(Items) => G[h].name = Items[g[h]].name
        /\ g[h] \notin 1..Len(Items) => G[h].name = None
    BY <1>6, NameOf
  <2>2. ASSUME G[h].name \in vds PROVE IsRdg(g[h])
    <3>1. vds \subseteq OfType("RDG") /\ OfType("RDG") \subseteq Drive /\ None \notin Drive
      BY OfTypeDrives, RaidCommandsAssumption DEF IInv, CardInv
    <3>2. g[h] \in 1..Len(Items) /\ G[h].name = Items[g[h]].name
      BY <2>1, <2>2, <3>1
    <3>3. PICK m \in 1..Len(Items) : Items[m].type = "RDG" /\ Items[g[h]].name = Items[m].name
      BY <2>2, <3>1, <3>2 DEF OfType
    <3>4. m = g[h]
      BY <3>2, <3>3, RaidCommandsAssumption
    <3> QED
      BY <3>2, <3>3, <3>4 DEF IsRdg
  <2>3. IsRdg(g[h]) => G[h].name = Items[g[h]].name
    BY <2>1 DEF IsRdg
  <2> QED
    BY <2>2, <2>3
<1> QED
  BY <1>6, <1>7 DEF g, G

\* When no number before the one at hand is that of a virtual drive, the first is the
\* one at hand or none.
LEMMA FirstIs ==
  ASSUME IInv, Handling, cmd.specie = "D", NoneBefore, text' = text, k' = k,
         hdd > Len(cmd.groups[1]) \/ (IsRdg(Parsed[k].groups[1][hdd]) /\ Entered \notin vds')
  PROVE  FirstGone(k)'
<1> DEFINE g == Parsed[k].groups[1]
<1> SUFFICES ASSUME NEW h \in 1..Len(g), IsRdg(g[h]), \A m \in 1..(h - 1) : ~IsRdg(g[m])
             PROVE  Items[g[h]].name \notin vds'
  <2>1. Parsed' = Parsed
    BY TextSame
  <2> QED
    BY <2>1 DEF FirstGone
<1>1. /\ Len(g) = Len(cmd.groups[1]) /\ Len(g) \in Nat
      /\ \A m \in 1..Len(g) : IsRdg(g[m]) => cmd.groups[1][m].name = Items[g[m]].name
  BY DeleteDrives
<1>2. hdd \in Nat \ {0}
  BY DEF IInv, DriverInv
<1>3. \A m \in 1..(hdd - 1) : ~IsRdg(g[m])
  BY DEF NoneBefore
<1>4. (hdd > Len(g)) \/ (IsRdg(g[hdd]) /\ Entered \notin vds')
  BY <1>1
<1> HIDE DEF g
<1>5. ~(h < hdd)
  BY <1>1, <1>2, <1>3
<1>6. hdd <= Len(g)
  BY <1>1, <1>2, <1>5
<1>7. IsRdg(g[hdd]) /\ Entered \notin vds'
  BY <1>1, <1>2, <1>4, <1>6
<1>8. h = hdd
  <2>1. ~(hdd < h)
    BY <1>2, <1>7
  <2> QED
    BY <1>1, <1>2, <1>5, <2>1
<1>9. Items[g[h]].name = Entered
  BY <1>1, <1>8 DEF Entered
<1> QED
  BY <1>7, <1>9

\* A step that does not lead to the tables of a delete command.
LEMMA GoneElsewhere ==
  ASSUME [Next]_vars, GoneInv, k' = k, Handling' => table' \notin {"clearD", "delete", "raidRef"}
  PROVE  GoneInv'
<1>1. \A n \in 1..(k' - 1) : FirstGone(n)'
  BY GoneKept DEF GoneInv
<1> QED
  BY <1>1 DEF GoneInv, Handling, In

\* The virtual drive in the form.
LEMMA TouchedVd ==
  ASSUME table \in DOMAIN Tables, row \in 1..Len(Tables[table]), menu \in Menu, table = "raidRef"
  PROVE  /\ row = 1 => Touched.vd = Entered
         /\ row > 1 => Touched.vd = menu.vd
<1>1. \/ At("raidRef", 1, "enter", "drive") \/ At("raidRef", 2, "set", "delete")
      \/ At("raidRef", 3, "enter", "go") \/ At("raidRef", 4, "confirm", "warning")
      \/ At("raidRef", 5, "press", "yes")
  BY Rows DEF At
<1>2. CASE At("raidRef", 1, "enter", "drive")
  <2>1. Touched = [menu EXCEPT !.vd = Entered, !.confirm = 0]
    BY <1>2 DEF At, Touched, Entered
  <2> DEFINE e == Entered
  <2> HIDE DEF e
  <2>2. [menu EXCEPT !.vd = e, !.confirm = 0].vd = e
    BY DEF Menu
  <2> QED
    BY <1>2, <2>1, <2>2 DEF At, e
<1>3. CASE At("raidRef", 2, "set", "delete")
  BY <1>3 DEF At, Touched
<1>4. CASE At("raidRef", 3, "enter", "go")
  <2>1. Touched = [menu EXCEPT !.warn = "delete", !.confirm = 0]
    BY <1>4 DEF At, Touched
  <2>2. Touched.vd = menu.vd
    BY <2>1 DEF Menu
  <2> QED
    BY <1>4, <2>2 DEF At
<1>5. CASE At("raidRef", 4, "confirm", "warning")
  BY <1>5 DEF At, Touched, Menu
<1>6. CASE At("raidRef", 5, "press", "yes")
  BY <1>6 DEF At, Touched
<1> QED
  BY <1>1, <1>2, <1>3, <1>4, <1>5, <1>6

\* The first virtual drive of every delete command is gone when the command is over.
LEMMA GoneStep ==
  ASSUME IInv, BInv, FillInv, RejectInv, GoneInv, [Next]_vars, faults' = 0
  PROVE  GoneInv'
<1> USE DEF IInv
<1>1. /\ cmds \in Seq(Command) /\ k \in 1..(Len(cmds) + 1) /\ Len(cmds) \in Nat
      /\ table \in DOMAIN Tables /\ row \in Int /\ menu \in Menu /\ hdd \in Nat \ {0}
  <2>1. /\ cmds \in Seq(Command) /\ k \in 1..(Len(cmds) + 1) /\ table \in DOMAIN Tables
        /\ row \in Int /\ menu \in Menu /\ hdd \in Nat \ {0}
    BY DEF DriverInv, CardInv
  <2> HIDE DEF Command
  <2> QED
    BY <2>1
<1>2. /\ text' = text /\ Parsed' = Parsed /\ vds' \subseteq vds
      /\ \A n : FirstGone(n) => FirstGone(n)'
  BY CardMoves, GoneKept
<1>3. \A n \in 1..(k - 1) : FirstGone(n)'
  BY <1>2 DEF GoneInv
<1>4. ASSUME k' = k + 1, FirstGone(k), ~Handling' PROVE GoneInv'
  <2>1. \A n \in 1..(k' - 1) : n \in 1..(k - 1) \/ n = k
    BY <1>1, <1>4
  <2>2. \A n \in 1..(k' - 1) : FirstGone(n)
    BY <1>4, <2>1 DEF GoneInv
  <2>3. \A n \in 1..(k' - 1) : FirstGone(n)'
    BY <1>2, <2>2
  <2> QED
    BY <1>4, <2>3 DEF GoneInv, Handling
<1>5. CASE ParseRaidCfgCmdString \/ CollectCfgCmdData \/ ExamineBasicForCmdRequire \/ AllHandled
  <2>1. ~Handling' /\ k' = k
    BY <1>5 DEF ParseRaidCfgCmdString, CollectCfgCmdData, ExamineBasicForCmdRequire, AllHandled,
                Handling
  <2> QED
    BY <2>1, GoneElsewhere
<1>6. CASE SkipCmd
  <2>1. pc = "next" /\ pc' = "next" /\ k <= Len(cmds) /\ Idle(cmd) /\ k' = k + 1
    BY <1>6 DEF SkipCmd
  <2>2. k \in 1..Len(cmds) /\ k \in k..Len(cmds)
    BY <1>1, <2>1
  <2>3. Rejected(cmd)
    BY <2>1, <2>2 DEF RejectInv, cmd
  <2>4. cmd.specie # "D" \/ cmd.groups = <<>>
    BY <2>1, <2>3 DEF Idle, Rejected, ToExamine, Examined, ExamineForCmdGroup
  <2>5. FirstGone(k)
    BY <2>1, <2>2, <2>4, GoneVacuous
  <2> QED
    BY <1>4, <2>1, <2>5 DEF Handling
<1>7. CASE StartCmd
  <2>1. /\ row' = 1 /\ pc' = "row" /\ k' = k
        /\ table' \in {"first", "single", "delete", "make", "unconfig"}
    BY <1>7, StartsWith
  <2> QED
    BY <1>3, <2>1 DEF GoneInv, In
<1>8. CASE Touch
  <2>1. /\ pc = "row" /\ pc' = "row" /\ row' = row + 1 /\ op # "choose" /\ arg # "yes"
        /\ menu' = Touched /\ row <= Len(Tables[table])
        /\ UNCHANGED <<cmds, k, table, hdd, vds>>
    BY <1>8 DEF Touch, AtRow, card
  <2>2. row \in 1..Len(Tables[table])
    BY <2>1, NextRow
  <2>3. CASE table \notin {"clearD", "delete", "raidRef"}
    BY <2>1, <2>3, GoneElsewhere
  <2>4. CASE table = "clearD"
    <3>1. FirstGone(k)
      BY <2>1, <2>4 DEF GoneInv, Handling
    <3> QED
      BY <1>2, <1>3, <2>1, <2>4, <3>1 DEF GoneInv, In
  <2>5. CASE table = "delete"
    <3>1. row = 1
      BY <1>1, <2>1, <2>2, <2>5, Rows DEF At
    <3> QED
      BY <1>3, <2>1, <2>5, <3>1 DEF GoneInv, In
  <2>6. CASE table = "raidRef"
    <3>1. row \in {1, 2, 3, 4}
      BY <1>1, <2>1, <2>2, <2>6, Rows DEF At
    <3>2. FirstGone(k) \/ (NoneBefore /\ Entered \in vds /\ (row >= 2 => menu.vd = Entered))
      BY <2>1, <2>6, <3>1 DEF GoneInv, In
    <3>3. menu'.vd = IF row = 1 THEN Entered ELSE menu.vd
      BY <1>1, <2>1, <2>2, <2>6, <3>1, TouchedVd
    <3>4. Entered' = Entered /\ (NoneBefore' <=> NoneBefore)
      BY <1>2, <2>1 DEF Entered, cmd, NoneBefore
    <3>5. FirstGone(k)' \/ (NoneBefore' /\ Entered' \in vds' /\ menu'.vd = Entered')
      BY <1>2, <2>1, <3>1, <3>2, <3>3, <3>4
    <3>6. ~In("raidRef", 6, 6)'
      BY <2>1, <3>1 DEF In
    <3> QED
      BY <1>3, <2>1, <2>6, <3>5, <3>6 DEF GoneInv, In
  <2> QED
    BY <2>3, <2>4, <2>5, <2>6
<1>9. CASE PressYes
  <2>1. /\ pc = "row" /\ pc' = "row" /\ row' = row + 1 /\ arg = "yes" /\ Done(menu)
        /\ row <= Len(Tables[table]) /\ UNCHANGED <<cmds, k, table, hdd>>
    BY <1>9 DEF PressYes, AtRow
  <2>2. row \in 1..Len(Tables[table])
    BY <2>1, NextRow
  <2>3. (table = "raidRef" /\ row = 5) \/ table \in {"single", "fifth", "make", "unconfig"}
    BY <1>1, <2>1, <2>2, Rows DEF At
  <2>4. CASE table \in {"single", "fifth", "make", "unconfig"}
    BY <2>1, <2>4, GoneElsewhere
  <2>5. CASE table = "raidRef" /\ row = 5
    <3>1. FirstGone(k) \/ (NoneBefore /\ Entered \in vds /\ menu.vd = Entered)
      BY <2>1, <2>5 DEF GoneInv, In
    <3>2. CASE FirstGone(k)
      BY <1>2, <1>3, <2>1, <2>5, <3>2 DEF GoneInv, In
    <3>3. CASE NoneBefore /\ Entered \in vds /\ menu.vd = Entered
      <4>1. menu.warn = "delete"
        BY <2>1, <2>5 DEF BInv, FormInv, FormIs, In, Handling
      <4>2. Entered \notin vds'
        BY <2>1, <3>3, <4>1 DEF Done
      <4>3. Handling /\ cmd.specie = "D"
        BY <2>1, <2>5, WhoseTable DEF Handling
      <4>4. hdd <= Len(cmd.groups[1])
        BY <2>1, <2>5 DEF FlowInv
      <4>5. /\ Len(Parsed[k].groups[1]) = Len(cmd.groups[1]) /\ Len(cmd.groups[1]) \in Nat
            /\ \A h \in 1..Len(Parsed[k].groups[1]) :
                 cmd.groups[1][h].name \in vds => IsRdg(Parsed[k].groups[1][h])
        BY <4>3, DeleteDrives
      <4>6. hdd \in 1..Len(cmd.groups[1])
        BY <1>1, <4>4, <4>5
      <4>7. IsRdg(Parsed[k].groups[1][hdd])
        BY <3>3, <4>5, <4>6 DEF Entered
      <4>8. FirstGone(k)'
        BY <1>2, <2>1, <3>3, <4>2, <4>3, <4>7, FirstIs
      <4> QED
        BY <1>3, <2>1, <2>5, <4>8 DEF GoneInv, In
    <3> QED
      BY <3>1, <3>2, <3>3
  <2> QED
    BY <2>3, <2>4, <2>5
<1>10. CASE EndOfTable
  <2>1. pc = "row" /\ row > Len(Tables[table])
    BY <1>10, Follows
  <2>2. k \in 1..Len(cmds)
    BY <2>1, AtCommand DEF Handling
  <2>3. /\ table = "delete" => row = 3
        /\ table = "raidRef" => row = 6
    <3> DEFINE n == Len(Tables[table])
    <3>1. (table = "delete" => n = 2) /\ (table = "raidRef" => n = 5) /\ row \in 1..(n + 1) /\ row > n
      BY <2>1, TableNames DEF DriverInv
    <3> HIDE DEF n
    <3> QED
      BY <3>1
  <2>4. CASE k' = k /\ table' \notin {"clearD", "delete", "raidRef"}
    BY <2>4, GoneElsewhere
  <2>5. CASE k' = k /\ pc' = "row" /\ table = "delete" /\ table' = "clearD"
    <3>1. FirstGone(k)
      BY <2>1, <2>3, <2>5 DEF GoneInv, In, Handling
    <3> QED
      BY <1>2, <1>3, <2>5, <3>1 DEF GoneInv, In
  <2>6. CASE k' = k /\ pc' = "choose" /\ table = "raidRef" /\ table' = "delete" /\ row' = 2
    <3>1. FirstGone(k)
      BY <2>1, <2>3, <2>6 DEF GoneInv, In, Handling
    <3> QED
      BY <1>2, <1>3, <2>6, <3>1 DEF GoneInv, In
  <2>7. CASE k' = k + 1 /\ pc' = "next" /\ table \in {"clearB", "clearD", "make", "unconfig"}
    <3>1. CASE table = "clearD"
      <4>1. FirstGone(k)
        BY <2>1, <3>1 DEF GoneInv, Handling
      <4> QED
        BY <1>4, <2>7, <4>1 DEF Handling
    <3>2. CASE table # "clearD"
      <4>1. cmd.specie # "D"
        BY <2>1, <2>7, <3>2, WhoseTable DEF Handling
      <4>2. FirstGone(k)
        BY <2>1, <2>2, <4>1, GoneVacuous
      <4> QED
        BY <1>4, <2>7, <4>2 DEF Handling
    <3> QED
      BY <3>1, <3>2
  <2> QED
    BY <1>10, <2>4, <2>5, <2>6, <2>7, EndsWith
<1>11. CASE StartChoice
  <2>1. /\ pc = "row" /\ row <= Len(Tables[table]) /\ op = "choose" /\ list' = Listed
        /\ alive' = 1 /\ hdd' = 1 /\ pc' = "choose" /\ UNCHANGED <<k, table, row, vds>>
    BY <1>11 DEF StartChoice, AtRow, card
  <2>2. row \in 1..Len(Tables[table])
    BY <2>1, NextRow
  <2>3. table \in {"single", "forth", "delete", "make", "unconfig"} /\ (table = "delete" => row = 2)
    BY <1>1, <2>1, <2>2, Rows DEF At
  <2>4. CASE table # "delete"
    BY <2>1, <2>3, <2>4, GoneElsewhere
  <2>5. CASE table = "delete"
    <3>1. list' = vds'
      BY <2>1, <2>5 DEF Listed
    <3>2. NoneBefore'
      BY <2>1 DEF NoneBefore
    <3> QED
      BY <1>3, <2>1, <2>3, <2>5, <3>1, <3>2 DEF GoneInv, In
  <2> QED
    BY <2>4, <2>5
<1>12. ASSUME pc = "choose"
       PROVE  /\ table \in {"single", "forth", "delete", "make", "unconfig"} /\ (table = "delete" => row = 2)
              /\ table = "delete" =>
                   /\ cmd.specie = "D" /\ group = cmd.groups[1] /\ Len(group) \in Nat
                   /\ FirstGone(k) \/ (alive = 1 /\ list = vds /\ NoneBefore)
  <2>1. row <= Len(Tables[table]) /\ op = "choose"
    BY <1>12 DEF FlowInv
  <2>2. row \in 1..Len(Tables[table])
    BY <2>1, NextRow
  <2>3. table \in {"single", "forth", "delete", "make", "unconfig"} /\ (table = "delete" => row = 2)
    BY <1>1, <2>1, <2>2, Rows DEF At
  <2>4. ASSUME table = "delete" PROVE cmd.specie = "D" /\ group = cmd.groups[1] /\ Len(group) \in Nat
    BY <1>12, <2>4, WhoseTable, DriveAt DEF Handling, group
  <2> QED
    BY <1>12, <2>3, <2>4 DEF GoneInv
<1>13. CASE ChooseHdd
  <2>1. pc = "choose" /\ table # "delete" /\ UNCHANGED <<k, table>>
    BY <1>13 DEF ChooseHdd, Found, AtDrive
  <2> QED
    BY <1>12, <2>1, GoneElsewhere
<1>14. CASE SkipDrive
  <2>1. /\ pc = "choose" /\ pc' = "choose" /\ hdd <= Len(group) /\ (d.name \notin list \/ alive = 0)
        /\ hdd' = hdd + 1 /\ UNCHANGED <<cmds, k, table, row, list, alive, vds>>
    BY <1>14 DEF SkipDrive, NotFound, AtDrive, card
  <2>2. CASE table # "delete"
    BY <1>12, <2>1, <2>2, GoneElsewhere
  <2>3. CASE table = "delete"
    <3>1. /\ row = 2 /\ cmd.specie = "D" /\ group = cmd.groups[1] /\ Len(group) \in Nat
          /\ FirstGone(k) \/ (alive = 1 /\ list = vds /\ NoneBefore)
      BY <1>12, <2>1, <2>3
    <3>2. CASE FirstGone(k)
      BY <1>2, <1>3, <2>1, <2>3, <3>1, <3>2 DEF GoneInv, In
    <3>3. CASE alive = 1 /\ list = vds /\ NoneBefore
      <4>1. Entered \notin vds'
        BY <2>1, <3>1, <3>3 DEF d, Entered
      <4>2. CASE IsRdg(Parsed[k].groups[1][hdd])
        <5>1. FirstGone(k)'
          BY <1>2, <2>1, <3>1, <3>3, <4>1, <4>2, FirstIs DEF Handling
        <5> QED
          BY <1>3, <2>1, <2>3, <3>1, <5>1 DEF GoneInv, In
      <4>3. CASE ~IsRdg(Parsed[k].groups[1][hdd])
        <5>1. \A h \in 1..(hdd' - 1) : h \in 1..(hdd - 1) \/ h = hdd
          BY <1>1, <2>1
        <5>2. NoneBefore'
          BY <1>2, <2>1, <3>3, <4>3, <5>1 DEF NoneBefore
        <5> QED
          BY <1>3, <2>1, <2>3, <3>1, <3>3, <5>2 DEF GoneInv, In
      <4> QED
        BY <4>2, <4>3
    <3> QED
      BY <3>1, <3>2, <3>3
  <2> QED
    BY <2>2, <2>3
<1>15. CASE DeleteDrive
  <2>1. /\ pc = "choose" /\ pc' = "row" /\ (d.name \in list \/ alive = 0) /\ table = "delete"
        /\ table' = "raidRef" /\ row' = 1 /\ UNCHANGED <<cmds, k, hdd, vds>>
    BY <1>15 DEF DeleteDrive, Go, Found, AtDrive, card
  <2>2. group = cmd.groups[1] /\ (FirstGone(k) \/ (alive = 1 /\ list = vds /\ NoneBefore))
    BY <1>12, <2>1
  <2>3. Entered' = Entered /\ (NoneBefore' <=> NoneBefore) /\ Entered = d.name
    BY <1>2, <2>1, <2>2 DEF Entered, cmd, NoneBefore, d
  <2>4. FirstGone(k)' \/ (NoneBefore' /\ Entered' \in vds')
    BY <1>2, <2>1, <2>2, <2>3
  <2> QED
    BY <1>3, <2>1, <2>4 DEF GoneInv, In
<1>16. ASSUME EndOfChoice, table = "delete", k' = k PROVE FirstGone(k)'
  <2>1. pc = "choose" /\ hdd > Len(group)
    BY <1>16 DEF EndOfChoice
  <2>2. /\ cmd.specie = "D" /\ group = cmd.groups[1]
        /\ FirstGone(k) \/ NoneBefore
    BY <1>12, <1>16, <2>1
  <2>3. CASE FirstGone(k)
    BY <1>2, <1>16, <2>3
  <2>4. CASE NoneBefore
    BY <1>2, <1>16, <2>1, <2>2, <2>4, FirstIs DEF Handling
  <2> QED
    BY <2>2, <2>3, <2>4
<1>17. CASE EndOfChoice /\ chosen = 1
  <2>1. pc = "choose" /\ pc' = "row" /\ row' = row + 1 /\ UNCHANGED <<k, table>>
    BY <1>17, Chosen
  <2>2. CASE table # "delete"
    BY <1>12, <2>1, <2>2, GoneElsewhere
  <2>3. CASE table = "delete"
    <3>1. FirstGone(k)'
      BY <1>16, <1>17, <2>1, <2>3
    <3> QED
      BY <1>3, <2>1, <2>3, <3>1 DEF GoneInv, In
  <2> QED
    BY <2>2, <2>3
<1>18. CASE GivesUp
  <2>1. /\ Handling /\ Fails /\ row <= Len(Tables[table]) /\ table \notin {"clearB", "clearD"}
        /\ vds' = vds
    BY <1>18, GivenUp DEF card
  <2>2. k \in 1..Len(cmds) /\ pc \notin {"parse", "collect"}
    BY <2>1, AtCommand DEF Handling
  <2>3. CASE table \in BuildTables
    <3>1. k' = k /\ table' = "clearB"
      BY <2>1, <2>3, FailsIs DEF BuildTables
    <3> QED
      BY <3>1, GoneElsewhere
  <2>4. CASE table \in {"make", "unconfig"}
    <3>1. k' = k + 1 /\ pc' = "next"
      BY <2>1, <2>4, FailsIs DEF BuildTables
    <3>2. cmd.specie # "D"
      BY <2>1, <2>4, WhoseTable
    <3>3. FirstGone(k)
      BY <2>2, <3>2, GoneVacuous
    <3> QED
      BY <1>4, <3>1, <3>3 DEF Handling
  <2>5. CASE table \in {"delete", "raidRef"}
    <3>1. pc' = "row" /\ k' = k /\ table' = "clearD" /\ row' = 1
      BY <2>1, <2>5, FailsIs DEF BuildTables
    <3>2. cmd.specie = "D"
      BY <2>1, <2>5, WhoseTable
    <3>3. FirstGone(k)'
      <4>1. CASE RowRefused
        <5>1. table = "raidRef" /\ row = 1 /\ Entered \notin vds /\ pc = "row"
          BY <2>5, <4>1, RefusedAt DEF RowRefused, AtRow
        <5> QED
          BY <1>2, <3>1, <5>1 DEF GoneInv, In
      <4>2. CASE NothingListed
        <5>1. pc = "row" /\ op = "choose" /\ Listed = {}
          BY <4>2 DEF NothingListed, AtRow
        <5>2. table = "delete"
          BY <1>1, <2>1, <2>5, <5>1, NextRow, RowTables
        <5>3. vds' = {}
          BY <2>1, <5>1, <5>2 DEF Listed
        <5> QED
          BY <5>3 DEF FirstGone
      <4>3. CASE WrongType \/ DriveMissing
        BY <3>2, <4>3 DEF WrongType, DriveMissing
      <4>4. CASE EndOfChoice /\ chosen # 1
        <5>1. table = "delete"
          BY <1>12, <2>5, <4>4 DEF EndOfChoice
        <5> QED
          BY <1>16, <3>1, <4>4, <5>1
      <4> QED
        BY <1>18, <4>1, <4>2, <4>3, <4>4 DEF GivesUp
    <3> QED
      BY <1>3, <3>1, <3>3 DEF GoneInv, In
  <2> QED
    BY <1>1, <2>1, <2>3, <2>4, <2>5, TableNames DEF BuildTables
<1>19. CASE UNCHANGED vars
  <2>1. UNCHANGED <<pc, cmds, k, table, row, hdd, list, alive, menu, vds>>
    BY <1>19 DEF vars, control, card
  <2>2. Entered' = Entered /\ (NoneBefore' <=> NoneBefore)
    BY <1>2, <2>1 DEF Entered, cmd, NoneBefore
  <2> QED
    BY <1>2, <1>3, <2>1, <2>2 DEF GoneInv, In, Handling
<1> QED
  BY <1>5, <1>6, <1>7, <1>8, <1>9, <1>10, <1>11, <1>13, <1>14, <1>15, <1>17, <1>18, <1>19,
     FaultlessKinds

\* As long as no row fails, the commands are carried out one by one: those before the
\* one at hand have had their effect, and the others none.
THEOREM MeaningInvariance == Spec => []MeaningInv
<1>1. Init => MeaningInv
  <2> SUFFICES ASSUME Init PROVE RejectInv /\ EffectInv /\ GoneInv
    BY DEF MeaningInv
  <2>1. /\ pc = "parse" /\ k = 1 /\ drives = Start
    BY DEF Init, drives, Start
  <2>2. Len(Parsed) \in Nat
    <3>1. text \in Seq(Text)
      BY RaidCommandsAssumption DEF Init
    <3>2. Parsed \in Seq(Sections)
      BY <3>1, ParsedType
    <3> HIDE DEF Sections
    <3> QED
      BY <3>2
  <2>3. Effect[0] = Start
    BY <2>2, EffectIs
  <2>4. Carried = 0
    BY <2>1 DEF Carried, Handling
  <2> QED
    BY <2>1, <2>3, <2>4 DEF RejectInv, EffectInv, GoneInv, Handling
<1>2. IInv /\ BInv /\ FillInv /\ MeaningInv /\ [Next]_vars => MeaningInv'
  <2> SUFFICES ASSUME IInv, BInv, FillInv, MeaningInv, [Next]_vars, faults' = 0
               PROVE  RejectInv' /\ EffectInv' /\ GoneInv'
    BY DEF MeaningInv
  <2>1. RejectInv /\ EffectInv /\ GoneInv
    BY FaultlessKinds DEF MeaningInv
  <2> QED
    BY <2>1, RejectStep, EffectStep, GoneStep
<1> QED
  BY <1>1, <1>2, Invariance, BuildInvariance, FillInvariance, PTL DEF Spec

\* When no row fails, the commands of the variable take effect one after the other, each
\* with the sections that the parsers have left of it; those whose sections cannot be
\* carried out have none, and of each delete command the first virtual drive is gone.
THEOREM CommandsMean == Spec => []CommandsMeaning
<1>1. IInv /\ MeaningInv => CommandsMeaning
  <2> SUFFICES ASSUME IInv, MeaningInv, pc = "done", faults = 0
               PROVE  drives = Effect[Len(Parsed)] /\ \A n \in 1..Len(Parsed) : FirstGone(n)
    BY DEF CommandsMeaning
  <2>1. EffectInv /\ GoneInv
    BY DEF MeaningInv
  <2>2. Len(cmds) = Len(Parsed) /\ k = Len(cmds) + 1
    BY <2>1 DEF IInv, ParsedInv, EffectInv
  <2>3. Len(cmds) \in Nat
    <3>1. cmds \in Seq(Command)
      BY DEF IInv, DriverInv
    <3> HIDE DEF Command
    <3> QED
      BY <3>1
  <2>4. k - 1 = Len(Parsed)
    BY <2>2, <2>3
  <2>5. Carried = k - 1
    BY DEF Carried, Handling
  <2> QED
    BY <2>1, <2>4, <2>5 DEF EffectInv, GoneInv
<1> QED
  BY <1>1, Invariance, MeaningInvariance, PTL

-----------------------------------------------------------------------------
(* Every step leaves less to do.                                           *)

\* What is left to do: the functions before the first command, and the commands, of
\* which one is left to start when pc is "next".
PassesLeft   == CASE pc = "parse" -> 3 [] pc = "collect" -> 2 [] pc = "examine" -> 1 [] OTHER -> 0
CommandsLeft == 2 * (Len(cmds) + 1 - k) + (IF pc = "next" THEN 1 ELSE 0)

\* The tables of the command at hand.
TablesLeft ==
  LET spans == Len(cmd.groups) - grp IN
  IF pc \notin {"row", "choose"} THEN 0
  ELSE CASE table = "first"  -> 3 * spans + 5
         [] table = "second" -> 3 * spans + 4
         [] table = "third"  -> 3 * spans + 3
         [] table = "forth"  -> 3 * spans + 2
         [] table \in {"single", "fifth", "delete", "raidRef"} -> 1
         [] OTHER -> 0

\* The drives of the choice at hand or ahead: the table of a drive is one half of its
\* turn in the loop.
DrivesLeft ==
  LET ahead == IF hdd <= Len(group) THEN Len(group) - hdd + 1 ELSE 0 IN
  CASE pc = "choose" -> 2 * ahead + 1
    [] pc = "row" /\ table = "raidRef" -> 2 * ahead
    [] /\ pc = "row" /\ table # "raidRef"
       /\ \E r \in row..Len(Tables[table]) : Tables[table][r][1] = "choose" -> 2 * Len(group) + 2
    [] OTHER -> 0

RowsLeft == Len(Tables[table]) + 1 - row

Left == <<PassesLeft, CommandsLeft, TablesLeft, DrivesLeft, RowsLeft>>

\* HandleRaidCfgCmdString, HandleRaidCmdSub and HandleRaidCmdSub_ChoiceHdds: the loop
\* over the drives runs the table of a drive within a row of another table, and a
\* build goes back to its second table. Every step leaves less to do: of the numbers
\* that are left, the first that changes is smaller.
LessLeft ==
  [][\E i \in 1..5 : /\ Left'[i] < Left[i] /\ \A j \in 1..5 : Left'[j] \in Nat
                     /\ \A j \in 1..(i - 1) : Left'[j] = Left[j]]_vars

\* A row with the choice of drives is behind the others of its table.
LEMMA ChoiceRow ==
  ASSUME NEW t \in {"single", "forth", "delete", "make", "unconfig"},
         NEW r \in 1..Len(Tables[t]), Tables[t][r][1] = "choose"
  PROVE  r <= IF t = "single" THEN 4 ELSE IF t = "forth" THEN 1 ELSE 2
<1>1. CASE t = "single"
  <2>1. r \in 1..10
    BY <1>1, TableNames
  <2>2. /\ Tables["single"][5] = <<"enter", "apply">> /\ Tables["single"][6] = <<"set", "unit">>
        /\ Tables["single"][7] = <<"set", "size">> /\ Tables["single"][8] = <<"enter", "save">>
        /\ Tables["single"][9] = <<"confirm", "warning">> /\ Tables["single"][10] = <<"press", "yes">>
    BY DEF Tables, Enter, Set, Press, Choose, Confirm
  <2> QED
    BY <1>1, <2>1, <2>2
<1>2. CASE t = "forth"
  <2>1. r \in 1..3
    BY <1>2, TableNames
  <2>2. Tables["forth"][2] = <<"enter", "apply">> /\ Tables["forth"][3] = <<"test", "success">>
    BY DEF Tables, Enter, Choose
  <2> QED
    BY <1>2, <2>1, <2>2
<1>3. CASE t = "delete"
  BY <1>3, TableNames
<1>4. CASE t = "make"
  <2>1. r \in 1..5
    BY <1>4, TableNames
  <2>2. /\ Tables["make"][3] = <<"enter", "ok">> /\ Tables["make"][4] = <<"confirm", "warning">>
        /\ Tables["make"][5] = <<"press", "yes">>
    BY DEF Tables, Enter, Press, Choose, Confirm
  <2> QED
    BY <1>4, <2>1, <2>2
<1>5. CASE t = "unconfig"
  <2>1. r \in 1..5
    BY <1>5, TableNames
  <2>2. /\ Tables["unconfig"][3] = <<"enter", "ok">> /\ Tables["unconfig"][4] = <<"confirm", "warning">>
        /\ Tables["unconfig"][5] = <<"press", "yes">>
    BY DEF Tables, Enter, Press, Choose, Confirm
  <2> QED
    BY <1>5, <2>1, <2>2
<1> QED
  BY <1>1, <1>2, <1>3, <1>4, <1>5

\* A choice is ahead in the table.
Ahead == \E r \in row..Len(Tables[table]) : Tables[table][r][1] = "choose"

\* The drives that are left in the group.
Turns == IF hdd <= Len(group) THEN Len(group) - hdd + 1 ELSE 0

\* What is left, by the place in the tables.
LEMMA LeftIs ==
  /\ ~Handling => TablesLeft = 0 /\ DrivesLeft = 0
  /\ pc = "choose" => DrivesLeft = 2 * Turns + 1
  /\ pc = "row" /\ table = "raidRef" => DrivesLeft = 2 * Turns
  /\ pc = "row" /\ table # "raidRef" /\ Ahead => DrivesLeft = 2 * Len(group) + 2
  /\ pc = "row" /\ table # "raidRef" /\ ~Ahead => DrivesLeft = 0
  /\ Handling => TablesLeft =
       CASE table = "first"  -> 3 * (Len(cmd.groups) - grp) + 5
         [] table = "second" -> 3 * (Len(cmd.groups) - grp) + 4
         [] table = "third"  -> 3 * (Len(cmd.groups) - grp) + 3
         [] table = "forth"  -> 3 * (Len(cmd.groups) - grp) + 2
         [] table \in {"single", "fifth", "delete", "raidRef"} -> 1
         [] OTHER -> 0
  /\ pc \in {"next", "row", "choose", "done"} => PassesLeft = 0
BY DEF TablesLeft, DrivesLeft, PassesLeft, Handling, Turns, Ahead

\* All of it is numbers.
LEMMA LeftType ==
  ASSUME IInv
  PROVE  /\ PassesLeft \in Nat /\ CommandsLeft \in Nat /\ TablesLeft \in Nat /\ DrivesLeft \in Nat
         /\ RowsLeft \in Nat /\ Len(cmds) \in Nat /\ k \in Nat
         /\ Handling => Turns \in Nat /\ Len(group) \in Nat
<1> USE DEF IInv
<1>1. PassesLeft \in Nat
  BY DEF PassesLeft
<1>2. Len(cmds) \in Nat /\ k \in 1..(Len(cmds) + 1)
  <2>1. cmds \in Seq(Command) /\ k \in 1..(Len(cmds) + 1)
    BY DEF DriverInv
  <2> HIDE DEF Command
  <2> QED
    BY <2>1
<1>3. CommandsLeft \in Nat
  BY <1>2 DEF CommandsLeft
<1>4. RowsLeft \in Nat
  <2> DEFINE n == Len(Tables[table])
  <2>1. n \in Nat /\ row \in 1..(n + 1)
    BY TableLen DEF DriverInv
  <2> HIDE DEF n
  <2>2. n + 1 - row \in Nat
    BY <2>1
  <2> QED
    BY <2>2 DEF RowsLeft, n
<1>5. CASE ~Handling
  BY <1>1, <1>2, <1>3, <1>4, <1>5, LeftIs
<1>6. CASE Handling
  <2>1. Len(group) \in Nat /\ hdd \in Nat \ {0} /\ Len(cmd.groups) \in Nat /\ grp \in Nat
    BY <1>6, DriveAt, AtCommand DEF DriverInv
  <2>2. table \in {"first", "second", "third", "forth"} => grp <= Len(cmd.groups)
    BY <1>6 DEF FlowInv
  <2>3. Turns \in Nat
    BY <2>1 DEF Turns
  <2>4. DrivesLeft \in Nat
    <3>1. DrivesLeft \in {2 * Turns + 1, 2 * Turns, 2 * Len(group) + 2, 0}
      BY <1>6, LeftIs DEF Handling
    <3> QED
      BY <2>1, <2>3, <3>1
  <2>5. TablesLeft \in Nat
    <3> DEFINE m == Len(cmd.groups) - grp
    <3>1. table \in {"first", "second", "third", "forth"} => m \in Nat
      BY <2>1, <2>2
    <3>2. \/ table \in {"first", "second", "third", "forth"}
               /\ TablesLeft \in {3 * m + 5, 3 * m + 4, 3 * m + 3, 3 * m + 2}
          \/ TablesLeft \in {0, 1}
      BY <1>6, LeftIs
    <3> HIDE DEF m
    <3> QED
      BY <3>1, <3>2
  <2> QED
    BY <1>1, <1>2, <1>3, <1>4, <2>1, <2>3, <2>4, <2>5
<1> QED
  BY <1>5, <1>6

\* The step leaves less to do.
Less ==
  \/ PassesLeft' < PassesLeft
  \/ PassesLeft' = PassesLeft /\ CommandsLeft' < CommandsLeft
  \/ PassesLeft' = PassesLeft /\ CommandsLeft' = CommandsLeft /\ TablesLeft' < TablesLeft
  \/ /\ PassesLeft' = PassesLeft /\ CommandsLeft' = CommandsLeft /\ TablesLeft' = TablesLeft
     /\ DrivesLeft' < DrivesLeft
  \/ /\ PassesLeft' = PassesLeft /\ CommandsLeft' = CommandsLeft /\ TablesLeft' = TablesLeft
     /\ DrivesLeft' = DrivesLeft /\ RowsLeft' < RowsLeft

\* Going on to another command.
LEMMA LessCommands ==
  ASSUME IInv, IInv', Len(cmds') = Len(cmds), pc \in {"next", "row", "choose"},
         pc' \in {"next", "row", "choose", "done"},
         k' = k + 1 \/ (k' = k /\ pc = "next" /\ pc' # "next")
  PROVE  Less
<1>1. PassesLeft = 0 /\ PassesLeft' = 0
  BY DEF PassesLeft
<1>2. k \in Nat /\ Len(cmds) \in Nat
  BY LeftType
<1>3. CommandsLeft' < CommandsLeft
  BY <1>2 DEF CommandsLeft
<1> QED
  BY <1>1, <1>3 DEF Less

\* A step within a command.
LEMMA SameLeft ==
  ASSUME IInv, Handling, Handling', k' = k, Len(cmds') = Len(cmds)
  PROVE  PassesLeft' = PassesLeft /\ CommandsLeft' = CommandsLeft
BY DEF PassesLeft, CommandsLeft, Handling

\* A row that was carried out.
LEMMA LessRows ==
  ASSUME IInv, pc = "row", pc' = "row", row <= Len(Tables[table]), op # "choose", row' = row + 1,
         UNCHANGED <<cmds, k, table, grp, hdd>>
  PROVE  Less
<1> USE DEF IInv
<1> DEFINE n == Len(Tables[table])
<1>1. cmd' = cmd /\ group' = group /\ Turns' = Turns
  BY DEF cmd, group, Turns
<1>2. n \in Nat /\ row \in 1..n
  BY NextRow, TableLen DEF DriverInv
<1>3. Ahead' <=> Ahead
  <2>1. Tables[table][row][1] # "choose"
    BY DEF op
  <2>2. Ahead <=> \E r \in row..n : Tables[table][r][1] = "choose"
    BY DEF Ahead
  <2>3. Ahead' <=> \E r \in (row + 1)..n : Tables[table][r][1] = "choose"
    BY DEF Ahead
  <2>4. \A r : r \in row..n <=> r = row \/ r \in (row + 1)..n
    <3> HIDE DEF n
    <3> QED
      BY <1>2
  <2> HIDE DEF n
  <2> QED
    BY <2>1, <2>2, <2>3, <2>4
<1>4. PassesLeft' = PassesLeft /\ CommandsLeft' = CommandsLeft
  BY SameLeft DEF Handling
<1>5. TablesLeft' = TablesLeft
  BY <1>1 DEF TablesLeft
<1>6. DrivesLeft' = DrivesLeft
  <2>1. /\ table = "raidRef" => DrivesLeft = 2 * Turns /\ DrivesLeft' = 2 * Turns'
        /\ table # "raidRef" /\ Ahead => DrivesLeft = 2 * Len(group) + 2
        /\ table # "raidRef" /\ ~Ahead => DrivesLeft = 0
        /\ table # "raidRef" /\ Ahead' => DrivesLeft' = 2 * Len(group') + 2
        /\ table # "raidRef" /\ ~Ahead' => DrivesLeft' = 0
    BY DEF DrivesLeft, Ahead, Turns
  <2> QED
    BY <1>1, <1>3, <2>1
<1>7. RowsLeft' < RowsLeft
  <2>1. RowsLeft = n + 1 - row /\ RowsLeft' = n + 1 - (row + 1)
    BY DEF RowsLeft
  <2> HIDE DEF n
  <2> QED
    BY <1>2, <2>1
<1> QED
  BY <1>4, <1>5, <1>6, <1>7 DEF Less

\* A step of a choice, with the drives that are left.
LEMMA LessDrives ==
  ASSUME IInv, IInv', Handling, Handling', UNCHANGED <<cmds, k, grp>>,
         table' = table \/ {table, table'} = {"delete", "raidRef"},
         DrivesLeft' < DrivesLeft
  PROVE  Less
<1>1. PassesLeft' = PassesLeft /\ CommandsLeft' = CommandsLeft
  BY SameLeft
<1>2. cmd' = cmd
  BY DEF cmd
<1>3. TablesLeft' = TablesLeft
  BY <1>2 DEF TablesLeft, Handling
<1> QED
  BY <1>1, <1>3 DEF Less

\* A table that follows another of its command, or clears it.
LEMMA LessTables ==
  ASSUME IInv, IInv', Handling, Handling', k' = k, Len(cmds') = Len(cmds),
         TablesLeft' < TablesLeft
  PROVE  Less
BY SameLeft DEF Less

\* Leaving a command for its clearing table, or for the next command.
LEMMA FailsLess ==
  ASSUME IInv, IInv', Handling, Fails
  PROVE  Less
<1> USE DEF IInv
<1>1. Len(cmds') = Len(cmds)
  BY FailsIs DEF SameBut
<1>2. CASE pc' = "next" /\ k' = k + 1
  BY <1>1, <1>2, LessCommands DEF Handling
<1>3. CASE /\ table \in (BuildTables \ {"clearB"}) \cup {"delete", "raidRef"}
           /\ pc' = "row" /\ k' = k /\ table' \in {"clearB", "clearD"}
  <2>1. TablesLeft' = 0
    BY <1>3 DEF TablesLeft
  <2>2. TablesLeft # 0
    <3> DEFINE m == Len(cmd.groups) - grp
    <3>1. table \in {"first", "second", "third", "forth"} => m \in Nat
      <4>1. Len(cmd.groups) \in Nat /\ grp \in Nat
        BY AtCommand DEF DriverInv
      <4>2. table \in {"first", "second", "third", "forth"} => grp <= Len(cmd.groups)
        BY DEF FlowInv
      <4> QED
        BY <4>1, <4>2
    <3>2. \/ table \in {"first", "second", "third", "forth"}
               /\ TablesLeft \in {3 * m + 5, 3 * m + 4, 3 * m + 3, 3 * m + 2}
          \/ TablesLeft = 1
      BY <1>3, LeftIs DEF BuildTables
    <3> HIDE DEF m
    <3> QED
      BY <3>1, <3>2
  <2>3. TablesLeft \in Nat
    BY LeftType
  <2> QED
    BY <1>1, <1>3, <2>1, <2>2, <2>3, LessTables DEF Handling
<1> QED
  BY <1>2, <1>3, FailsIs

\* What follows a table.
LEMMA EndLess ==
  ASSUME IInv, IInv', EndOfTable
  PROVE  Less
<1> USE DEF IInv
<1>1. pc = "row" /\ cmds' = cmds /\ Handling
  BY Follows DEF Handling
<1> DEFINE G == Len(cmd.groups)
<1>2. G \in Nat /\ grp \in Nat /\ hdd \in Nat \ {0} /\ Len(group) \in Nat
  BY <1>1, AtCommand, DriveAt DEF DriverInv
<1>3. table \in {"first", "second", "third", "forth"} => grp <= G
  BY <1>1 DEF FlowInv
<1>4. Succeeds
  BY DEF EndOfTable
<1>5. CASE table \in {"first", "second", "third"}
  <2>1. /\ k' = k /\ grp' = grp /\ pc' = "row"
        /\ table' = IF table = "first" THEN "second" ELSE IF table = "second" THEN "third" ELSE "forth"
    BY <1>4, <1>5 DEF Succeeds, Go
  <2>2. cmd' = cmd
    BY <1>1, <2>1 DEF cmd
  <2>3. /\ TablesLeft = 3 * (G - grp) + (IF table = "first" THEN 5 ELSE IF table = "second" THEN 4 ELSE 3)
        /\ TablesLeft' = 3 * (G - grp) + (IF table = "first" THEN 4 ELSE IF table = "second" THEN 3 ELSE 2)
    BY <1>1, <1>5, <2>1, <2>2 DEF TablesLeft
  <2> HIDE DEF G
  <2>4. TablesLeft' < TablesLeft
    BY <1>2, <1>5, <2>3
  <2> QED
    BY <1>1, <2>1, <2>4, LessTables DEF Handling
<1>6. CASE table = "forth"
  <2>1. /\ k' = k /\ grp' = grp + 1 /\ pc' = "row"
        /\ table' = IF grp < G THEN "second" ELSE "fifth"
    BY <1>4, <1>6 DEF Succeeds, Go
  <2>2. cmd' = cmd
    BY <1>1, <2>1 DEF cmd
  <2>3. /\ TablesLeft = 3 * (G - grp) + 2
        /\ TablesLeft' = IF grp < G THEN 3 * (G - (grp + 1)) + 4 ELSE 1
    BY <1>1, <1>6, <2>1, <2>2 DEF TablesLeft
  <2> HIDE DEF G
  <2>4. TablesLeft' < TablesLeft
    BY <1>2, <1>3, <1>6, <2>3
  <2> QED
    BY <1>1, <2>1, <2>4, LessTables DEF Handling
<1>7. CASE table \in {"single", "fifth", "delete"}
  <2>1. k' = k /\ pc' = "row" /\ table' \in {"clearB", "clearD"}
    BY <1>4, <1>7 DEF Succeeds, Go
  <2>2. TablesLeft = 1 /\ TablesLeft' = 0
    BY <1>1, <1>7, <2>1 DEF TablesLeft
  <2> QED
    BY <1>1, <2>1, <2>2, LessTables DEF Handling
<1>8. CASE table = "raidRef"
  <2>1. k' = k /\ pc' = "choose" /\ table' = "delete" /\ hdd' = hdd + 1 /\ grp' = grp
    BY <1>4, <1>8 DEF Succeeds
  <2>2. group' = group /\ group = cmd.groups[1]
    BY <1>1, <1>8, <2>1 DEF group, cmd
  <2>3. hdd <= Len(group)
    BY <1>1, <1>8, <2>2 DEF FlowInv
  <2>4. Turns = Len(group) - hdd + 1
        /\ Turns' = IF hdd + 1 <= Len(group) THEN Len(group) - (hdd + 1) + 1 ELSE 0
    BY <2>1, <2>2, <2>3 DEF Turns
  <2>5. Turns' = Turns - 1 /\ Turns \in Nat
    BY <1>2, <2>3, <2>4
  <2>6. DrivesLeft = 2 * Turns /\ DrivesLeft' = 2 * Turns' + 1
    BY <1>1, <1>8, <2>1 DEF DrivesLeft, Turns
  <2>7. DrivesLeft' < DrivesLeft
    BY <2>5, <2>6
  <2> QED
    BY <1>1, <1>8, <2>1, <2>7, LessDrives DEF Handling
<1>9. CASE table \in {"clearB", "clearD", "make", "unconfig"}
  <2>1. k' = k + 1 /\ pc' = "next"
    BY <1>4, <1>9 DEF Succeeds, NextCmd
  <2> QED
    BY <1>1, <2>1, LessCommands
<1> QED
  BY <1>5, <1>6, <1>7, <1>8, <1>9, TableNames DEF DriverInv

\* The steps of a choice.
LEMMA ChoiceLess ==
  ASSUME IInv, IInv', StartChoice \/ ChooseHdd \/ SkipDrive \/ DeleteDrive
                        \/ (EndOfChoice /\ chosen = 1)
  PROVE  Less
<1> USE DEF IInv
<1>1. /\ Handling /\ Handling' /\ UNCHANGED <<cmds, k, grp>>
      /\ table' = table \/ {table, table'} = {"delete", "raidRef"}
  <2>1. CASE StartChoice
    BY <2>1 DEF StartChoice, AtRow, Handling
  <2>2. CASE ChooseHdd \/ SkipDrive
    BY <2>2 DEF ChooseHdd, SkipDrive, Found, NotFound, AtDrive, Handling
  <2>3. CASE DeleteDrive
    BY <2>3 DEF DeleteDrive, Go, Found, AtDrive, Handling
  <2>4. CASE EndOfChoice /\ chosen = 1
    BY <2>4 DEF EndOfChoice, Handling
  <2> QED
    BY <2>1, <2>2, <2>3, <2>4
<1>2. Len(group) \in Nat /\ hdd \in Nat \ {0} /\ table \in DOMAIN Tables
  BY <1>1, DriveAt DEF DriverInv
<1>3. CASE StartChoice
  <2>1. /\ pc = "row" /\ row <= Len(Tables[table]) /\ op = "choose" /\ pc' = "choose" /\ hdd' = 1
        /\ UNCHANGED <<cmds, k, table, grp>>
    BY <1>3 DEF StartChoice, AtRow
  <2>2. table # "raidRef" /\ Ahead
    <3>1. row \in 1..Len(Tables[table])
      BY <2>1, NextRow
    <3>2. row \in row..Len(Tables[table])
      <4> DEFINE n == Len(Tables[table])
      <4>1. n \in Nat /\ row \in 1..n
        BY <1>2, <3>1, TableLen
      <4> HIDE DEF n
      <4>2. row \in row..n
        BY <4>1
      <4> QED
        BY <4>2 DEF n
    <3> QED
      BY <1>2, <2>1, <3>1, <3>2, RowTables DEF Ahead, op
  <2>3. DrivesLeft = 2 * Len(group) + 2
    BY <2>1, <2>2, LeftIs
  <2>4. group' = group
    BY <2>1 DEF group, cmd
  <2>5. Turns' = (IF 1 <= Len(group) THEN Len(group) - 1 + 1 ELSE 0) /\ DrivesLeft' = 2 * Turns' + 1
    BY <2>1, <2>4 DEF Turns, DrivesLeft
  <2>6. DrivesLeft' < DrivesLeft
    BY <1>2, <2>3, <2>5
  <2> QED
    BY <1>1, <2>6, LessDrives
<1>4. CASE ChooseHdd \/ SkipDrive
  <2>1. /\ pc = "choose" /\ pc' = "choose" /\ hdd <= Len(group) /\ hdd' = hdd + 1
        /\ UNCHANGED <<cmds, k, table, grp>>
    BY <1>4 DEF ChooseHdd, SkipDrive, Found, NotFound, AtDrive
  <2>2. group' = group
    BY <2>1 DEF group, cmd
  <2>3. /\ Turns = Len(group) - hdd + 1 /\ DrivesLeft = 2 * Turns + 1
        /\ Turns' = (IF hdd + 1 <= Len(group) THEN Len(group) - (hdd + 1) + 1 ELSE 0)
        /\ DrivesLeft' = 2 * Turns' + 1
    BY <2>1, <2>2 DEF Turns, DrivesLeft
  <2>4. DrivesLeft' < DrivesLeft
    BY <1>2, <2>1, <2>3
  <2> QED
    BY <1>1, <2>4, LessDrives
<1>5. CASE DeleteDrive
  <2>1. /\ pc = "choose" /\ pc' = "row" /\ table = "delete" /\ table' = "raidRef"
        /\ UNCHANGED <<cmds, k, grp, hdd>>
    BY <1>5 DEF DeleteDrive, Go, Found, AtDrive
  <2>2. group' = group
    BY <2>1 DEF group, cmd
  <2>3. Turns' = Turns /\ DrivesLeft = 2 * Turns + 1 /\ DrivesLeft' = 2 * Turns'
    BY <2>1, <2>2 DEF Turns, DrivesLeft
  <2>4. Turns \in Nat
    BY <1>1, LeftType
  <2>5. DrivesLeft' < DrivesLeft
    BY <2>3, <2>4
  <2> QED
    BY <1>1, <2>5, LessDrives
<1>6. CASE EndOfChoice /\ chosen = 1
  <2>1. /\ pc = "choose" /\ pc' = "row" /\ row' = row + 1 /\ table' = table
        /\ \/ (table = "single" /\ row = 4) \/ (table = "forth" /\ row = 1)
           \/ (table \in {"delete", "make", "unconfig"} /\ row = 2)
    BY <1>6, Chosen
  <2>2. ~Ahead'
    <3> SUFFICES ASSUME NEW r \in (row + 1)..Len(Tables[table]), Tables[table][r][1] = "choose"
                 PROVE  FALSE
      BY <2>1 DEF Ahead
    <3>1. r \in 1..Len(Tables[table]) /\ row + 1 <= r /\ r \in Int
      BY <2>1
    <3>2. r <= IF table = "single" THEN 4 ELSE IF table = "forth" THEN 1 ELSE 2
      BY <2>1, <3>1, ChoiceRow
    <3> QED
      BY <2>1, <3>1, <3>2
  <2>3. DrivesLeft' = 0 /\ DrivesLeft = 2 * Turns + 1
    BY <2>1, <2>2 DEF DrivesLeft, Turns, Ahead
  <2>4. Turns \in Nat
    BY <1>1, LeftType
  <2>5. DrivesLeft' < DrivesLeft
    BY <2>3, <2>4
  <2> QED
    BY <1>1, <2>5, LessDrives
<1> QED
  BY <1>3, <1>4, <1>5, <1>6

\* Every step but stuttering leaves less to do.
LEMMA EveryLess ==
  ASSUME IInv, IInv', Handle
  PROVE  Less
<1> USE DEF IInv
<1>1. CASE ParseRaidCfgCmdString \/ CollectCfgCmdData \/ ExamineBasicForCmdRequire
  <2>1. PassesLeft' < PassesLeft
    BY <1>1 DEF ParseRaidCfgCmdString, CollectCfgCmdData, ExamineBasicForCmdRequire, PassesLeft
  <2> QED
    BY <2>1 DEF Less
<1>2. CASE SkipCmd \/ StartCmd \/ AllHandled
  <2>1. /\ pc = "next" /\ cmds' = cmds /\ pc' \in {"next", "row", "done"}
        /\ k' = k + 1 \/ (k' = k /\ pc' # "next")
    BY <1>2 DEF SkipCmd, StartCmd, AllHandled
  <2> QED
    BY <2>1, LessCommands
<1>3. CASE Touch
  <2>1. /\ pc = "row" /\ pc' = "row" /\ row <= Len(Tables[table]) /\ op # "choose" /\ row' = row + 1
        /\ UNCHANGED <<cmds, k, table, grp, hdd>>
    BY <1>3 DEF Touch, AtRow
  <2> QED
    BY <2>1, LessRows
<1>4. CASE PressYes
  <2>1. /\ pc = "row" /\ pc' = "row" /\ row <= Len(Tables[table]) /\ arg = "yes" /\ row' = row + 1
        /\ UNCHANGED <<cmds, k, table, grp, hdd>>
    BY <1>4 DEF PressYes, AtRow
  <2>2. table \in DOMAIN Tables /\ row \in 1..Len(Tables[table])
    BY <2>1, NextRow DEF DriverInv
  <2>3. op # "choose"
    BY <2>1, <2>2, RowTables
  <2> QED
    BY <2>1, <2>3, LessRows
<1>5. CASE EndOfTable
  BY <1>5, EndLess
<1>6. CASE RowRefused \/ RowFails \/ NothingListed
  BY <1>6, FailsLess DEF RowRefused, RowFails, NothingListed, AtRow, Handling
<1>7. CASE ChooseFails \/ WrongType \/ DriveMissing \/ (EndOfChoice /\ chosen # 1)
  BY <1>7, FailsLess DEF ChooseFails, WrongType, DriveMissing, EndOfChoice, Found, NotFound,
                         AtDrive, Handling
<1>8. CASE StartChoice \/ ChooseHdd \/ SkipDrive \/ DeleteDrive \/ (EndOfChoice /\ chosen = 1)
  BY <1>8, ChoiceLess
<1> QED
  BY <1>1, <1>2, <1>3, <1>4, <1>5, <1>6, <1>7, <1>8 DEF Handle

\* Every step of the driver leaves less to do, whatever the card answers: the loops
\* over commands, groups, drives and rows cannot run forever.
THEOREM LoopsEnd == Spec => LessLeft
<1> DEFINE Lower == \E i \in 1..5 : /\ Left'[i] < Left[i] /\ \A j \in 1..5 : Left'[j] \in Nat
                                    /\ \A j \in 1..(i - 1) : Left'[j] = Left[j]
           Numbers == /\ PassesLeft \in Nat /\ CommandsLeft \in Nat /\ TablesLeft \in Nat
                      /\ DrivesLeft \in Nat /\ RowsLeft \in Nat
<1>1. IInv => Numbers
  BY LeftType
<1>2. IInv' => Numbers'
  BY <1>1, PTL
<1>3. IInv /\ IInv' /\ [Next]_vars => [Lower]_vars
  <2> SUFFICES ASSUME IInv, IInv', Handle PROVE Lower
    BY DEF Next, Finished
  <2>1. Less
    BY EveryLess
  <2>2. /\ PassesLeft' \in Nat /\ CommandsLeft' \in Nat /\ TablesLeft' \in Nat /\ DrivesLeft' \in Nat
        /\ RowsLeft' \in Nat
    BY <1>2
  <2>3. /\ Left[1] = PassesLeft /\ Left[2] = CommandsLeft /\ Left[3] = TablesLeft
        /\ Left[4] = DrivesLeft /\ Left[5] = RowsLeft
    BY DEF Left
  <2>4. /\ Left'[1] = PassesLeft' /\ Left'[2] = CommandsLeft' /\ Left'[3] = TablesLeft'
        /\ Left'[4] = DrivesLeft' /\ Left'[5] = RowsLeft'
    BY DEF Left
  <2>5. \A j \in 1..5 : Left'[j] \in Nat
    BY <2>2, <2>4
  <2>6. \E i \in 1..5 : Left'[i] < Left[i] /\ \A j \in 1..(i - 1) : Left'[j] = Left[j]
    BY <2>1, <2>3, <2>4 DEF Less
  <2> QED
    BY <2>5, <2>6
<1> QED
  BY <1>3, Invariance, PTL DEF Spec, LessLeft
===============================================================================
