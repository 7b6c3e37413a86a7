---------------------------- MODULE RaidCommands ----------------------------
(***************************************************************************)
(* SmcLsiRaidOOBCmd.c: the RAID commands of one card. All commands of the  *)
(* command variable are parsed, the names of their drives are looked up,   *)
(* they are examined, and then they are carried out one after the other by *)
(* walking through the menus of the card as a user would: a table has one  *)
(* row for each form to enter, item to set and action to press. A row may  *)
(* fail, because its item is missing or the card answers with an error.    *)
(* The card itself is external: only what its menus do is modelled.        *)
(***************************************************************************)
EXTENDS Naturals, Sequences, SequencesExt, FiniteSetsExt

CONSTANTS
  Items,          \* the drives in the menus at the start, in order
  Level,          \* RAID levels that the card has
  Size,           \* sizes of a virtual drive
  None,           \* no drive, level, size or virtual drive
  Bad,            \* in a text: what is not a number, a size or a known letter
  Programs,       \* the contents of a command variable
  MaxFault        \* bound: rows that fail

Type == {"HDG", "RDG", "JBOD"}

Drive == {Items[n].name : n \in 1..Len(Items)}

OfType(t) == {Items[n].name : n \in {m \in 1..Len(Items) : Items[m].type = t}}

\* The text of a command as it is written: C:[], G:[] any number of times, R:[], S:[]
\* and J:[]. None is a part that is not there, specie "X" a text without a command.
Text == [specie : {"B", "D", "O", "X"}, groups : Seq(Seq(Nat \cup {Bad})),
         level : Nat \cup {Bad, None}, size : Size \cup {Bad, None},
         jbod : {"make", "unconfig", Bad, None}]

\* The sections of a command that the parsers leave.
Sections == [specie : {"B", "D", "O"}, groups : Seq(Seq(Nat)), level : Nat \cup {None},
             size : Size \cup {None}, jbod : {"make", "unconfig", None}]

ASSUME RaidCommandsAssumption ==
  /\ Items \in Seq([name : Drive, type : Type])
  /\ \A m, n \in 1..Len(Items) : Items[m].name = Items[n].name => m = n
  /\ Level \subseteq Nat /\ 0 \in Level
  /\ None \notin Drive \cup Size \cup Nat \cup Type \cup {"make", "unconfig"}
  /\ Bad \notin Size \cup Nat \cup {"make", "unconfig", None}
  /\ Programs \subseteq Seq(Text)

ASSUME RaidCommandsBoundAssumption == MaxFault \in Nat

VARIABLES
  text,           \* the command variable
  pc,             \* "parse", "collect", "examine", "next", "row", "choose", "done"
  cmds,           \* RaidCmdSet
  k,              \* the command at hand
  table, row,     \* HandleRaidCmdSub: the table and the row at hand
  grp,            \* the group of a build with spans
  hdd,            \* ChoiceHdds: the drive of the group at hand
  chosen,         \* HddBeChoiced
  list,           \* pCmdProcessingItem of the choosing row: the drives in the form
  alive,          \* 1 while the package that list points into is not freed
  menu,           \* the card: what was entered into its forms
  good, jbod,     \* the card: unconfigured drives, drives used without RAID
  vds,            \* the card: the virtual drives of the start that are left
  built,          \* the card: the virtual drives that were built
  faults          \* history: the rows that failed

control == <<table, row, grp, hdd, chosen, list, alive>>
card    == <<good, jbod, vds, built>>
vars    == <<text, pc, cmds, k, control, menu, card, faults>>

Hdd == [num : Nat, name : Drive \cup {None}, type : Type \cup {None}]

Command == [specie : {"B", "D", "O"}, groups : Seq(Seq(Hdd)), level : Nat \cup {None},
            size : Size \cup {None}, jbod : {"make", "unconfig", None}, enable : {0, 1}]

NoMenu == [sel |-> {}, spans |-> <<>>, level |-> 0, size |-> None, vd |-> None,
           warn |-> "no", confirm |-> 0]

-----------------------------------------------------------------------------
(* The tables of SmcLsiRaidOOBGlbTable.c, without the closing row.         *)

Enter(f) == <<"enter", f>>
Set(x)   == <<"set", x>>
Press(x) == <<"press", x>>

Choose  == <<"choose", "hdd">>
Confirm == <<"confirm", "warning">>

Tables ==
  [single  |-> <<Enter("create"), Set("level"), Enter("select"), Choose, Enter("apply"),
                 Set("unit"), Set("size"), Enter("save"), Confirm, Press("yes")>>,
   first   |-> <<Enter("create"), Set("level")>>,
   second  |-> <<Press("span")>>,
   third   |-> <<Enter("select")>>,
   forth   |-> <<Choose, Enter("apply"), <<"test", "success">> >>,
   fifth   |-> <<Set("unit"), Set("size"), Enter("save"), Confirm, Press("yes")>>,
   clearB  |-> <<Enter("create")>>,
   delete  |-> <<Enter("drives"), Choose>>,
   raidRef |-> <<Enter("drive"), Set("delete"), Enter("go"), Confirm, Press("yes")>>,
   clearD  |-> <<Enter("drives")>>,
   make    |-> <<Enter("make"), Choose, Enter("ok"), Confirm, Press("yes")>>,
   unconfig |-> <<Enter("unconfig"), Choose, Enter("ok"), Confirm, Press("yes")>>]

TypeOK ==
  /\ text \in Programs
  /\ pc \in {"parse", "collect", "examine", "next", "row", "choose", "done"}
  /\ cmds \in Seq(Command)
  /\ k \in 1..(Len(cmds) + 1)
  /\ table \in DOMAIN Tables
  /\ row \in 1..(Len(Tables[table]) + 1)
  /\ grp \in Nat \ {0} /\ hdd \in Nat \ {0}
  /\ chosen \in {0, 1} /\ alive \in {0, 1}
  /\ list \subseteq Drive
  /\ menu.sel \subseteq Drive /\ menu.spans \in Seq(SUBSET Drive)
  /\ menu.level \in Level /\ menu.size \in Size \cup {None}
  /\ menu.vd \in Drive \cup {None}
  /\ menu.warn \in {"no", "save", "delete", "make", "unconfig"} /\ menu.confirm \in {0, 1}
  /\ good \subseteq Drive /\ jbod \subseteq Drive /\ vds \subseteq OfType("RDG")
  /\ \A b \in built : /\ b.cmd \in 1..Len(cmds)
                      /\ b.spans \in Seq(SUBSET Drive)
  /\ faults \in 0..MaxFault

Init ==
  /\ text \in Programs
  /\ pc = "parse" /\ cmds = <<>> /\ k = 1
  /\ table = "single" /\ row = 1 /\ grp = 1 /\ hdd = 1
  /\ chosen = 0 /\ list = {} /\ alive = 0
  /\ menu = NoMenu
  /\ good = OfType("HDG") /\ jbod = OfType("JBOD") /\ vds = OfType("RDG") /\ built = {}
  /\ faults = 0

-----------------------------------------------------------------------------
(* The three functions before the first command is carried out.            *)

\* A section that is not as it has to be is left out of the command, and the command
\* goes on without it. Levels and drives have numbers below 0xFF.
ParseCmdRaidType(l) == IF l \in 0..254 THEN l ELSE None
ParseCmdRaidSize(z) == IF z \in Size THEN z ELSE None
ParseCmdRaidJbod(j) == IF j \in {"make", "unconfig"} THEN j ELSE None

\* A group with any other number or a wrong character has no section, like an empty one.
ParseCmdGroupSub(g) == IF \A h \in 1..Len(g) : g[h] \in 0..254 THEN g ELSE <<>>

\* ParseCmdGroup stops at the first group without a section.
ParsedGroups(t) ==
  SubSeq(t.groups, 1, SelectInSeq(Append(t.groups, <<>>), LAMBDA g : g = <<>>) - 1)

Unnamed(n) == [num |-> n, name |-> None, type |-> None]

\* The texts with a command: any other is passed over. some[n] are those of the first
\* n texts.
Written ==
  LET some[n \in 0..Len(text)] ==
        IF n = 0 THEN <<>>
        ELSE IF text[n].specie = "X" THEN some[n - 1] ELSE Append(some[n - 1], text[n])
  IN  some[Len(text)]

\* AnalysisAndParseCmdString of text t.
Analysed(t) ==
  [specie |-> t.specie,
   groups |-> [g \in 1..Len(t.groups) |-> ParseCmdGroupSub(t.groups[g])],
   level |-> ParseCmdRaidType(t.level), size |-> ParseCmdRaidSize(t.size),
   jbod |-> ParseCmdRaidJbod(t.jbod)]

Parsed == [n \in 1..Len(Written) |-> Analysed(Written[n])]

ParseRaidCfgCmdString ==
  /\ pc = "parse"
  /\ cmds' = [n \in 1..Len(Parsed) |->
       [specie |-> Parsed[n].specie,
        groups |-> [g \in 1..Len(ParsedGroups(Parsed[n])) |->
          [h \in 1..Len(Parsed[n].groups[g]) |-> Unnamed(Parsed[n].groups[g][h])]],
        level |-> Parsed[n].level, size |-> Parsed[n].size, jbod |-> Parsed[n].jbod,
        enable |-> 1]]
  /\ pc' = "collect"
  /\ UNCHANGED <<text, k, control, menu, card, faults>>

\* The type of drives that a command is for.
GetHddTypeByCmd(c) ==
  CASE c.specie = "B" -> "HDG"
    [] c.specie = "D" -> "RDG"
    [] c.specie = "O" -> IF c.jbod = None THEN None ELSE "JBOD"

\* Mutant of Collected: the drives of the menu are counted from zero.
CollectedFromZero(c, n) ==
  IF n + 1 \notin 1..Len(Items) THEN Unnamed(n)
  ELSE [num |-> n, name |-> Items[n + 1].name,
        type |-> IF Items[n + 1].type = GetHddTypeByCmd(c) THEN Items[n + 1].type ELSE None]

\* The drive with number n of the menu, for command c.
Collected(c, n) ==
  IF n \notin 1..Len(Items) THEN Unnamed(n)
  ELSE [num |-> n, name |-> Items[n].name,
        type |-> IF Items[n].type = GetHddTypeByCmd(c) THEN Items[n].type ELSE None]

CollectCfgCmdData ==
  /\ pc = "collect"
  /\ cmds' = [n \in 1..Len(cmds) |-> [cmds[n] EXCEPT !.groups =
       [g \in 1..Len(@) |-> [h \in 1..Len(@[g]) |-> Collected(cmds[n], @[g][h].num)]]]]
  /\ pc' = "examine"
  /\ UNCHANGED <<text, k, control, menu, card, faults>>

LevelOf(c) == IF c.level = None THEN 0 ELSE c.level

Spanned(c) == LevelOf(c) >= 10

\* The groups that a build uses.
UsedGroups(c) == IF Spanned(c) THEN c.groups ELSE SubSeq(c.groups, 1, 1)

ExamineForCmdGroup(c, build) ==
  /\ c.groups # <<>>
  /\ build => LET used == UsedGroups(c) IN
       \A g \in 1..Len(used) : \A h \in 1..Len(used[g]) :
         /\ used[g][h].name # None
         /\ \A j \in 1..Len(used) : \A m \in 1..Len(used[j]) :
              used[g][h].num = used[j][m].num => g = j /\ h = m

\* The commands that are examined, and whether they pass.
ToExamine(c) == c.specie \in {"B", "D"} \/ c.jbod # None
Examined(c)  == ExamineForCmdGroup(c, c.specie = "B")

\* Whether command n stays enabled. The status is not reset: a command that is not
\* examined keeps that of the last one before it that was.
Enabled(n) ==
  LET last == Max({0} \cup {m \in 1..n : ToExamine(cmds[m])})
  IN  last = 0 \/ Examined(cmds[last])

ExamineBasicForCmdRequire ==
  /\ pc = "examine"
  /\ cmds' = [n \in 1..Len(cmds) |-> [cmds[n] EXCEPT !.enable = IF Enabled(n) THEN 1 ELSE 0]]
  /\ pc' = "next"
  /\ UNCHANGED <<text, k, control, menu, card, faults>>

-----------------------------------------------------------------------------
(* HandleRaidCfgCmdString.                                                 *)

cmd == cmds[k]

\* The first table of a command: HandleBuildRaidCmd, HandleBuildRaidCmd_D and
\* HandleOtherRaidCmd.
FirstTable(c) ==
  CASE c.specie = "B" -> IF Spanned(c) THEN "first" ELSE "single"
    [] c.specie = "D" -> "delete"
    [] c.specie = "O" -> c.jbod

Idle(c) == c.enable = 0 \/ (c.specie = "O" /\ c.jbod = None)

SkipCmd ==
  /\ pc = "next" /\ k <= Len(cmds) /\ Idle(cmd)
  /\ k' = k + 1
  /\ UNCHANGED <<text, pc, cmds, control, menu, card, faults>>

StartCmd ==
  /\ pc = "next" /\ k <= Len(cmds) /\ ~Idle(cmd)
  /\ table' = FirstTable(cmd) /\ row' = 1 /\ grp' = 1
  /\ pc' = "row"
  /\ UNCHANGED <<text, cmds, k, hdd, chosen, list, alive, menu, card, faults>>

AllHandled ==
  /\ pc = "next" /\ k > Len(cmds)
  /\ pc' = "done"
  /\ UNCHANGED <<text, cmds, k, control, menu, card, faults>>

-----------------------------------------------------------------------------
(* HandleRaidCmdSub.                                                       *)

AtRow == pc = "row" /\ row <= Len(Tables[table])

op  == Tables[table][row][1]
arg == Tables[table][row][2]

Go(t) == pc' = "row" /\ table' = t /\ row' = 1

NextCmd == pc' = "next" /\ k' = k + 1 /\ UNCHANGED <<table, row>>

\* The table is at its end: what follows in the command's handler. The table of a
\* drive to delete returns to the loop over the drives.
Succeeds ==
  CASE table = "first"  -> Go("second") /\ UNCHANGED <<k, grp, hdd>>
    [] table = "second" -> Go("third") /\ UNCHANGED <<k, grp, hdd>>
    [] table = "third"  -> Go("forth") /\ UNCHANGED <<k, grp, hdd>>
    [] table = "forth"  -> /\ Go(IF grp < Len(cmd.groups) THEN "second" ELSE "fifth")
                           /\ grp' = grp + 1 /\ UNCHANGED <<k, hdd>>
    [] table \in {"single", "fifth"} -> Go("clearB") /\ UNCHANGED <<k, grp, hdd>>
    [] table = "delete" -> Go("clearD") /\ UNCHANGED <<k, grp, hdd>>
    [] table = "raidRef" -> /\ pc' = "choose" /\ table' = "delete" /\ row' = 2
                            /\ hdd' = hdd + 1 /\ UNCHANGED <<k, grp>>
    [] OTHER -> NextCmd /\ UNCHANGED <<grp, hdd>>

\* Mutant of Fails: a failing span build goes on to save the configuration.
FailsThenSaves ==
  /\ cmds' = [cmds EXCEPT ![k].enable = 0]
  /\ CASE table = "forth" -> Go("fifth") /\ UNCHANGED k
       [] table \in {"single", "first", "second", "third", "fifth"} ->
            Go("clearB") /\ UNCHANGED k
       [] table \in {"delete", "raidRef"} -> Go("clearD") /\ UNCHANGED k
       [] OTHER -> NextCmd

\* A row has failed: the table is left and the command is disabled. A build or a
\* delete still walks through its clearing table.
Fails ==
  /\ cmds' = [cmds EXCEPT ![k].enable = 0]
  /\ CASE table \in {"single", "first", "second", "third", "forth", "fifth"} ->
            Go("clearB") /\ UNCHANGED k
       [] table \in {"delete", "raidRef"} -> Go("clearD") /\ UNCHANGED k
       [] OTHER -> NextCmd

\* The drives that the choosing row of the form finds.
Listed ==
  CASE table = "single" -> good
    [] table = "forth" -> good \ UNION {menu.spans[n] : n \in 1..Len(menu.spans)}
    [] table = "delete" -> vds
    [] table = "make" -> good
    [] table = "unconfig" -> jbod

\* The menus after an item was entered, set or confirmed.
Touched ==
  CASE op = "confirm" -> [menu EXCEPT !.confirm = 1]
    [] op = "set" /\ arg = "level" ->
         [menu EXCEPT !.level = IF cmd.level = None THEN @ ELSE cmd.level]
    [] op = "set" /\ arg = "size" ->
         [menu EXCEPT !.size = IF cmd.size = None THEN @ ELSE cmd.size]
    [] op = "enter" /\ arg \in {"create", "drives", "make", "unconfig"} -> NoMenu
    [] op = "enter" /\ arg = "select" -> [menu EXCEPT !.sel = {}]
    [] op = "enter" /\ arg = "apply" ->
         [menu EXCEPT !.spans = Append(@, menu.sel), !.sel = {}]
    [] op = "enter" /\ arg = "drive" ->
         [menu EXCEPT !.vd = cmd.groups[1][hdd].name, !.confirm = 0]
    [] op = "enter" /\ arg = "save" -> [menu EXCEPT !.warn = "save", !.confirm = 0]
    [] op = "enter" /\ arg = "go" -> [menu EXCEPT !.warn = "delete", !.confirm = 0]
    [] op = "enter" /\ arg = "ok" -> [menu EXCEPT !.warn = table, !.confirm = 0]
    [] OTHER -> menu

\* Mutant of Refused: a level is not looked up among the options of the card.
RefusedButLevel ==
  \/ op = "enter" /\ arg = "drive" /\ cmd.groups[1][hdd].name \notin vds
  \/ op = "press" /\ arg = "yes" /\ menu.confirm = 0

\* The row cannot be carried out: the card does not have the level, the drive to
\* delete is not in the menu any more, or the warning was not confirmed.
Refused ==
  \/ op = "set" /\ arg = "level" /\ cmd.level \notin Level \cup {None}
  \/ op = "enter" /\ arg = "drive" /\ cmd.groups[1][hdd].name \notin vds
  \/ op = "press" /\ arg = "yes" /\ menu.confirm = 0

Touch ==
  /\ AtRow /\ op # "choose" /\ arg # "yes" /\ ~Refused
  /\ menu' = Touched
  /\ row' = row + 1
  /\ alive' = 0
  /\ UNCHANGED <<text, pc, cmds, k, table, grp, hdd, chosen, list, card, faults>>

RowRefused ==
  /\ AtRow /\ Refused
  /\ Fails
  /\ alive' = 0
  /\ UNCHANGED <<text, grp, hdd, chosen, list, menu, card, faults>>

\* The card does what the warning has asked for.
Done(m) ==
  CASE m.warn = "save" ->
         /\ built' = built \cup {[cmd |-> k, spans |-> m.spans, level |-> m.level,
                                 size |-> m.size]}
         /\ good' = good \ UNION {m.spans[n] : n \in 1..Len(m.spans)}
         /\ UNCHANGED <<jbod, vds>>
    [] m.warn = "delete" -> vds' = vds \ {m.vd} /\ UNCHANGED <<good, jbod, built>>
    [] m.warn = "make" -> /\ good' = good \ m.sel /\ jbod' = jbod \cup m.sel
                          /\ UNCHANGED <<vds, built>>
    [] m.warn = "unconfig" -> /\ good' = good \cup m.sel /\ jbod' = jbod \ m.sel
                              /\ UNCHANGED <<vds, built>>
    [] OTHER -> UNCHANGED card

PressYes ==
  /\ AtRow /\ arg = "yes" /\ ~Refused
  /\ Done(menu)
  /\ menu' = NoMenu
  /\ row' = row + 1
  /\ alive' = 0
  /\ UNCHANGED <<text, pc, cmds, k, table, grp, hdd, chosen, list, faults>>

\* The item of the row is not found, or the card answers with an error, before or
\* after it has acted on the row.
RowFails ==
  /\ AtRow /\ faults < MaxFault /\ faults' = faults + 1
  /\ \/ UNCHANGED <<menu, card>>
     \/ op \in {"enter", "set"} /\ ~Refused /\ menu' = Touched /\ UNCHANGED card
     \/ arg = "yes" /\ ~Refused /\ Done(menu) /\ menu' = NoMenu
  /\ Fails
  /\ alive' = 0
  /\ UNCHANGED <<text, grp, hdd, chosen, list>>

EndOfTable ==
  /\ pc = "row" /\ row > Len(Tables[table])
  /\ Succeeds
  /\ alive' = 0
  /\ UNCHANGED <<text, cmds, chosen, list, menu, card, faults>>

-----------------------------------------------------------------------------
(* HandleRaidCmdSub_ChoiceHdds.                                            *)

\* No item in the form: EFI_NOT_FOUND before a drive is looked for.
NothingListed ==
  /\ AtRow /\ op = "choose" /\ Listed = {}
  /\ Fails
  /\ alive' = 0
  /\ UNCHANGED <<text, grp, hdd, chosen, list, menu, card, faults>>

StartChoice ==
  /\ AtRow /\ op = "choose" /\ Listed # {}
  /\ list' = Listed /\ alive' = 1
  /\ hdd' = 1 /\ chosen' = 0
  /\ pc' = "choose"
  /\ UNCHANGED <<text, cmds, k, table, row, grp, menu, card, faults>>

group == cmd.groups[IF table = "forth" THEN grp ELSE 1]

AtDrive == pc = "choose" /\ hdd <= Len(group)

d == group[hdd]

\* A drive is in the item list. A list whose package was freed by a table within
\* the loop is read all the same: what it holds by then is open.
Found    == AtDrive /\ d.name # None /\ (d.name \in list \/ alive = 0)
NotFound == AtDrive /\ (d.name \notin list \/ alive = 0)

\* Mutant of ChooseHdd: the type of the drive is not compared.
ChooseHddAnyType ==
  /\ Found /\ table # "delete"
  /\ menu' = [menu EXCEPT !.sel = @ \cup {d.name}]
  /\ chosen' = 1 /\ hdd' = hdd + 1
  /\ UNCHANGED <<text, pc, cmds, k, table, row, grp, list, alive, card, faults>>

ChooseHdd ==
  /\ Found /\ table # "delete"
  /\ cmd.specie = "B" => d.type = "HDG"
  /\ menu' = [menu EXCEPT !.sel = @ \cup {d.name}]
  /\ chosen' = 1 /\ hdd' = hdd + 1
  /\ UNCHANGED <<text, pc, cmds, k, table, row, grp, list, alive, card, faults>>

ChooseFails ==
  /\ Found /\ table # "delete" /\ faults < MaxFault /\ faults' = faults + 1
  /\ Fails
  /\ UNCHANGED <<text, grp, hdd, chosen, list, alive, menu, card>>

WrongType ==
  /\ Found /\ cmd.specie = "B" /\ d.type # "HDG"
  /\ Fails
  /\ UNCHANGED <<text, grp, hdd, chosen, list, alive, menu, card, faults>>

\* The table of the drive is walked through within the loop.
DeleteDrive ==
  /\ Found /\ table = "delete"
  /\ chosen' = 1
  /\ Go("raidRef")
  /\ UNCHANGED <<text, cmds, k, grp, hdd, list, alive, menu, card, faults>>

\* Mutant of SkipDrive: the loop goes on with the same drive.
SkipDriveStays ==
  /\ NotFound /\ cmd.specie # "B"
  /\ UNCHANGED vars

SkipDrive ==
  /\ NotFound /\ cmd.specie # "B"
  /\ hdd' = hdd + 1
  /\ UNCHANGED <<text, pc, cmds, k, table, row, grp, chosen, list, alive, menu, card, faults>>

DriveMissing ==
  /\ NotFound /\ cmd.specie = "B"
  /\ Fails
  /\ UNCHANGED <<text, grp, hdd, chosen, list, alive, menu, card, faults>>

EndOfChoice ==
  /\ pc = "choose" /\ hdd > Len(group)
  /\ IF chosen = 1 THEN pc' = "row" /\ row' = row + 1 /\ UNCHANGED <<cmds, k, table>>
     ELSE Fails
  /\ UNCHANGED <<text, grp, hdd, chosen, list, alive, menu, card, faults>>

Finished == pc = "done" /\ UNCHANGED vars

Handle ==
  \/ ParseRaidCfgCmdString \/ CollectCfgCmdData \/ ExamineBasicForCmdRequire
  \/ SkipCmd \/ StartCmd \/ AllHandled
  \/ Touch \/ RowRefused \/ PressYes \/ RowFails \/ EndOfTable
  \/ NothingListed \/ StartChoice \/ ChooseHdd \/ ChooseFails \/ WrongType
  \/ DeleteDrive \/ SkipDrive \/ DriveMissing \/ EndOfChoice

Next == Handle \/ Finished

Spec == Init /\ [][Next]_vars

\* The driver runs until the commands are handled.
FairSpec == Spec /\ WF_vars(Handle)

-----------------------------------------------------------------------------
(* Properties.                                                             *)

\* The groups that a build with sections t uses, the drives of a group of numbers.
Used(t)  == IF LevelOf(t) >= 10 THEN ParsedGroups(t) ELSE SubSeq(ParsedGroups(t), 1, 1)
Named(g) == {Items[n].name : n \in Range(g) \cap 1..Len(Items)}

\* The virtual drive that the sections of command n describe.
Described(n) ==
  LET t == Parsed[n] IN
  [cmd |-> n, spans |-> [g \in 1..Len(Used(t)) |-> Named(Used(t)[g])],
   level |-> LevelOf(t), size |-> t.size]

\* The parsers take every part of text t.
WellFormed(t) ==
  /\ t.level \in 0..254 \cup {None} /\ t.size \in Size \cup {None}
  /\ \A g \in 1..Len(t.groups) :
       t.groups[g] # <<>> /\ \A h \in 1..Len(t.groups[g]) : t.groups[g][h] \in 0..254

\* The virtual drive that text number n asks for, as it is written.
AsWritten(n) ==
  LET t == Written[n]
      u == IF LevelOf(t) >= 10 THEN t.groups ELSE SubSeq(t.groups, 1, 1)
  IN  [cmd |-> n, spans |-> [g \in 1..Len(u) |-> Named(u[g])],
       level |-> LevelOf(t), size |-> t.size]

\* HandleBuildRaidCmd walks through up to a dozen tables, and any row may fail or
\* take effect and then fail. A virtual drive is never built from other drives, with
\* another level or of another size than the sections of its command say: all spans,
\* each with as many drives as its group has numbers, none in two of them. When the
\* parsers take every part of the text, that is the drive of the text as written, with
\* every one of its spans. When they do not, the drive is built all the same, without
\* what they left out: a level of 255 or more or with a wrong character becomes the
\* default level, a size with an unknown unit the full size, and the spans end before
\* the first group with a wrong character or number.
BuildExact ==
  \A b \in built :
    /\ b = Described(b.cmd)
    /\ WellFormed(Written[b.cmd]) => b = AsWritten(b.cmd)
    /\ \A n \in DOMAIN b.spans :
         /\ Cardinality(b.spans[n]) = Len(Used(Parsed[b.cmd])[n])
         /\ \A c \in built : \A m \in DOMAIN c.spans :
              c.spans[m] \cap b.spans[n] # {} => c = b /\ m = n

\* HandleBuildRaidCmd_D: only a drive whose number is written in a delete command is
\* deleted, though the loop over the numbers goes on with items of a freed package.
DeletesOnlyNamed ==
  OfType("RDG") \ vds \subseteq
    UNION {Named(ParsedGroups(Parsed[n])[1]) :
             n \in {m \in DOMAIN Parsed : Parsed[m].specie = "D" /\ ParsedGroups(Parsed[m]) # <<>>}}

\* A build with sections t can be carried out: its numbers are all different and all of them are
\* drives that were unconfigured from the start and still are.
Buildable(s, t) ==
  LET u == Used(t) IN
  /\ ParsedGroups(t) # <<>> /\ t.level \in Level \cup {None}
  /\ \A g \in 1..Len(u) : \A h \in 1..Len(u[g]) :
       /\ u[g][h] \in 1..Len(Items)
       /\ Items[u[g][h]].name \in s.good \cap OfType("HDG")
       /\ \A j \in 1..Len(u) : \A m \in 1..Len(u[j]) : u[g][h] = u[j][m] => g = j /\ h = m

\* What the drives are after command n, when they were s and no row fails.
After(s, n) ==
  LET t == Parsed[n]
      u == Used(t)
      g == IF ParsedGroups(t) = <<>> THEN {} ELSE Named(t.groups[1])
  IN  CASE t.specie = "B" /\ Buildable(s, t) ->
             [s EXCEPT !.good = @ \ UNION {Named(u[j]) : j \in 1..Len(u)},
                       !.built = @ \cup {Described(n)}]
        [] t.specie = "O" /\ t.jbod = "make" ->
             [s EXCEPT !.good = @ \ g, !.jbod = @ \cup (g \cap s.good)]
        [] t.specie = "O" /\ t.jbod = "unconfig" ->
             [s EXCEPT !.good = @ \cup (g \cap s.jbod), !.jbod = @ \ g]
        [] OTHER -> s

drives == [good |-> good, jbod |-> jbod, built |-> built]

\* What the drives are after the first n commands.
Effect ==
  LET s[n \in 0..Len(Parsed)] ==
        IF n = 0 THEN [good |-> OfType("HDG"), jbod |-> OfType("JBOD"), built |-> {}]
        ELSE After(s[n - 1], n)
  IN  s

IsRdg(n) == n \in 1..Len(Items) /\ Items[n].type = "RDG"

\* The first virtual drive that command n has in its list of drives is gone.
FirstGone(n) ==
  Parsed[n].specie = "D" /\ ParsedGroups(Parsed[n]) # <<>> =>
    LET g == Parsed[n].groups[1] IN
    \A h \in 1..Len(g) :
      IsRdg(g[h]) /\ (\A m \in 1..(h - 1) : ~IsRdg(g[m])) => Items[g[h]].name \notin vds

\* HandleRaidCfgCmdString: when no row fails, the commands take effect one after the
\* other, each with the sections that the parsers have left of it: a level or size that
\* they do not take counts as not written, and so do the groups from the first one that
\* they do not take on. A command whose sections cannot be carried out has no effect at
\* all and does not keep the others from theirs. Of the drives of a delete command the
\* first is gone.
CommandsMeaning ==
  pc = "done" /\ faults = 0 =>
    drives = Effect[Len(Parsed)] /\ \A n \in 1..Len(Parsed) : FirstGone(n)

\* The driver gets through all commands, whatever the card answers: the loops over
\* groups, drives and rows end.
HandlingEnds == <>(pc = "done")
=============================================================================
