--------------------------- MODULE MCRaidCommands ---------------------------
(***************************************************************************)
(* Two unconfigured drives more than one build with spans needs, two       *)
(* virtual drives and a drive without RAID. The command variables hold two *)
(* commands out of every kind: builds with and without spans, with unknown *)
(* levels, doubled, unknown and wrong numbers, and with levels, sizes and  *)
(* groups that the parsers do not take, deletes of one, two and doubled    *)
(* drives, and both JBOD commands.                                         *)
(***************************************************************************)
EXTENDS RaidCommands

MCItems ==
  <<[name |-> "h1", type |-> "HDG"], [name |-> "h2", type |-> "HDG"],
    [name |-> "h3", type |-> "HDG"], [name |-> "r4", type |-> "RDG"],
    [name |-> "r5", type |-> "RDG"], [name |-> "j6", type |-> "JBOD"]>>

MCLevel == {0, 1, 10}
MCSize  == {"1TB"}

MCText(sp, gs, l, sz, j) == [specie |-> sp, groups |-> gs, level |-> l, size |-> sz, jbod |-> j]

MCBuilds ==
  {MCText("B", <<g>>, l, z, None) :
     g \in {<<1>>, <<1, 2>>, <<1, 1>>, <<2, 6>>, <<2, 9>>}, l \in {None, 1, 7}, z \in {None, "1TB"}}
  \cup {MCText("B", gs, 10, "1TB", None) :
     gs \in {<< <<1>>, <<2>> >>, << <<1, 2>>, <<2, 3>> >>, << <<1>>, <<6>> >>, << <<3>>, <<>> >>,
             << <<1>>, <<2>>, <<3>> >>}}
  \cup {MCText("B", <<>>, 1, None, None)}
  \cup {MCText("B", << <<1>> >>, l, Bad, None) : l \in {1, 255, Bad}}
  \cup {MCText("B", gs, 10, None, None) :
     gs \in {<< <<1>>, <<2, 255>> >>, << <<1>>, <<2>>, <<Bad>> >>, << <<1, Bad>>, <<2>> >>}}

MCOthers ==
  {MCText("D", <<g>>, None, None, None) : g \in {<<4>>, <<4, 5>>, <<5, 5, 4>>, <<1, 5>>}}
  \cup {MCText("D", <<>>, None, None, None), MCText("D", << <<4, 256>> >>, None, None, None)}
  \cup {MCText("O", <<g>>, None, None, j) :
          g \in {<<6>>, <<1, 6>>, <<2, 9>>}, j \in {"make", "unconfig", Bad}}
  \cup {MCText("X", << <<1>> >>, None, None, None)}

MCPrograms == {<<>>} \cup ((MCBuilds \cup MCOthers) \X (MCBuilds \cup MCOthers))
=============================================================================
