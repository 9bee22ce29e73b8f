------------------------------- MODULE MCAuthoring -------------------------------
(***************************************************************************)
(* Small paths and small sets of requests for PublishedContent.            *)
(***************************************************************************)
EXTENDS PublishedContent

Stage(slug, order) == [kind |-> "stage", slug |-> slug, order |-> order]
UnitOf(stage, slug, order) ==
    [kind |-> "unit", slug |-> slug, stage |-> stage, order |-> order]
Item(unit, slug, text) ==
    [kind |-> "item", slug |-> slug, unit |-> unit, type |-> "LEXICAL",
     pattern |-> None, hasGrammar |-> FALSE, text |-> text]
Introduce(item) == [item |-> item, role |-> "INTRODUCE"]
Recycle(item) == [item |-> item, role |-> "RECYCLE"]
Lesson(unit, slug, order, links, steps) ==
    [kind |-> "lesson", slug |-> slug, unit |-> unit, order |-> order,
     items |-> links, steps |-> steps]
Intro(item) == [type |-> "INTRO", items |-> {item}]
Practice(item) == [type |-> "PRACTICE", modes |-> {"cloze"}, items |-> {item}]
Choice(answer) ==
    [kind |-> "choice", options |-> <<"o1", "o2">>, answer |-> answer, item |-> None]
Gap(item) == [kind |-> "gap", answers |-> << <<"Yes", ".">> >>, item |-> item]
Order == [kind |-> "order", answer |-> <<"Go", " ", " ", "on", " ", "on", "!">>,
          item |-> None]
CheckpointOf(unit, slug, questions) ==
    [kind |-> "checkpoint", slug |-> slug, unit |-> unit, passPercent |-> 80,
     questions |-> questions]
About(unit, q) == q @@ [unit |-> unit]
PlacementOf(slug, questions) ==
    [kind |-> "placement", slug |-> slug, questions |-> questions]

Op(name, slug) == [op |-> name, slug |-> slug]
Put(name, record) == [op |-> name, record |-> record]
UnitImport(corpus, dryRun) ==
    [op |-> "unitImport", corpus |-> corpus, dryRun |-> dryRun]
Import(corpus, force, dryRun, publish) ==
    [op |-> "import", corpus |-> corpus, force |-> force, dryRun |-> dryRun,
     publish |-> publish]
Watch == [op |-> "watch", force |-> {}, dryRun |-> FALSE]
Reorder(parent, slugs) == [op |-> "reorder", slug |-> parent, slugs |-> slugs]
Start(released, copy) == [released |-> released, copy |-> copy]

MCPlain == ("Yes" :> "yes") @@ ("Go" :> "go")

-----------------------------------------------------------------------------
(* Two processes at once: one unit whose second lesson practises what the   *)
(* first one teaches; an admin may have edited it, and dropped the third.   *)

L1 == Lesson("u", "l1", 1, <<Introduce("i")>>, <<Intro("i")>>)
L2 == Lesson("u", "l2", 2, <<Recycle("i")>>, <<Practice("i")>>)
L3 == Lesson("u", "l3", 3, <<Introduce("j")>>, <<Intro("j")>>)
ShortSeed == {Stage("s", 1), UnitOf("s", "u", 1), Item("u", "i", "old"), L1, L2}
LongSeed == ShortSeed \union {Item("u", "j", "old"), L3}
NewSeed == (ShortSeed \ {Item("u", "i", "old")}) \union {Item("u", "i", "seed")}

SmallSlugs == <<"i", "j", "l1", "l2", "l3", "s", "u">>
SmallTables == <<"stage", "unit", "item", "lesson">>
SmallSeeds == [short |-> ShortSeed, long |-> LongSeed, new |-> NewSeed]
SmallStarts == {Start("long", "short"), Start("long", "long")}

\* Its steps and its links changed at once.
L3Rewritten == Lesson("u", "l3", 3, <<Recycle("i"), Introduce("j")>>,
                      <<Intro("j"), Practice("i")>>)

Overlapping ==
    [put |-> Put("update", Item("u", "i", "new")),
     rewrite |-> Put("update", L3Rewritten),
     archiveItem |-> Op("archive", "i"),
     archiveLesson |-> Op("archive", "l2"),
     turn |-> Reorder("u", <<"l2", "l3", "l1">>),
     turnBack |-> Reorder("u", <<"l3", "l1", "l2">>),
     watch |-> Watch,
     publish |-> Op("publish", None),
     activate |-> Op("activate", None),
     learner |-> Op("pointer", None)]

\* The edit of an item while the seed's new text for it is imported.
OneStart == {Start("short", "short")}
EditDuringImport ==
    [put |-> Put("update", Item("u", "i", "new")),
     import |-> Import(NewSeed, {}, FALSE, FALSE)]

-----------------------------------------------------------------------------
(* One request at a time: two stages, two units with a gap between their    *)
(* positions, every kind of record, step and question.                      *)

PatternItem == [Item("u", "i", "old") EXCEPT
                   !.type = "PATTERN", !.pattern = [inTemplate |-> {"x"}, slots |-> {"x"}]]
DialogueOf(unit, slug) == [kind |-> "dialogue", slug |-> slug, unit |-> unit, lines |-> 2]
Drill == [type |-> "PATTERN_DRILL", pattern |-> "i", prompts |-> 1, fills |-> {"x"}]
Talk == [type |-> "DIALOGUE", dialogue |-> "d", mode |-> "listen"]
WarmUp == [type |-> "WARMUP", maxItems |-> 5]
Explain == [type |-> "EXPLAIN", items |-> {"i"}]
Speak == [type |-> "SPEAK", lines |-> 1]
Quiz == [type |-> "QUIZ", questions |-> <<Gap("j")>>]

M1 == Lesson("u", "l1", 1, <<Introduce("i")>>, <<Intro("i"), Drill, Talk>>)
M2 == Lesson("u", "l2", 2, <<Recycle("i")>>, <<WarmUp, Explain, Practice("i"), Speak>>)
M3(links) == Lesson("v", "l3", 1, links, <<Intro("j"), Quiz>>)
C(slug) == CheckpointOf("u", slug, <<Choice(1), Gap("i"), Order>>)
P(questions) == PlacementOf("p", questions)
FourQuestions == <<About("u", Gap("i")), About("u", Choice(0)),
                   About("v", Gap("j")), About("v", Order)>>

FullSeed ==
    {Stage("s", 1), Stage("t", 2), UnitOf("s", "u", 1), UnitOf("s", "v", 3),
     PatternItem, Item("v", "j", "old"), DialogueOf("u", "d"), M1, M2,
     M3(<<Introduce("j"), Recycle("i")>>), C("c"), P(FourQuestions)}
But(seed, record) == {r \in seed : r.slug # record.slug} \union {record}
MovedOn == But(FullSeed, Item("v", "j", "seed"))
Renamed == {r \in FullSeed : r.slug # "c"} \union {C("c2")}
TouchedUp == {r \in FullSeed : r.slug \notin {"c", "j", "u", "v"}}
             \union {Item("v", "j", "new"), UnitOf("s", "u", 2), UnitOf("s", "v", 4)}
Shortened == But({r \in FullSeed : r.slug \notin {"c", "d", "j", "l3", "p", "v"}},
                 [M1 EXCEPT !.steps = <<Intro("i"), Drill>>])

\* Every row edited: the units change stages, the second of which comes first now,
\* and lessons, dialogue, checkpoint and placement are others.
Rearranged ==
    {Stage("s", 4), Stage("t", 3), UnitOf("t", "u", 2), UnitOf("s", "v", 1),
     [PatternItem EXCEPT !.text = "new"], Item("v", "j", "new"),
     [DialogueOf("u", "d") EXCEPT !.lines = 3],
     Lesson("u", "l1", 2, <<Introduce("i")>>,
            <<Intro("i"), [Talk EXCEPT !.mode = "roleplay"], Drill>>),
     [M2 EXCEPT !.order = 5],
     Lesson("v", "l3", 2, <<Recycle("i"), Introduce("j")>>, <<Quiz, Intro("j")>>),
     [C("c") EXCEPT !.passPercent = 60], P(SubSeq(FourQuestions, 1, 2))}
FileOf(unit, seed) == {r \in seed : r.kind \in ChildKinds /\ r.unit = unit}
                      \union {r \in seed : r.slug = unit}

FullSlugs == <<"c", "c2", "d", "i", "j", "k", "l1", "l2", "l3", "p", "s", "t", "u", "v">>
FullSeeds == [full |-> FullSeed, movedOn |-> MovedOn, touchedUp |-> TouchedUp,
              shortened |-> Shortened, rearranged |-> Rearranged]
FullStarts == {Start("full", "full"), Start("full", "touchedUp"),
               Start("full", "shortened"), Start("full", "rearranged"),
               Start("nothing", "full")}

Everything ==
    [newItem |-> Put("create", Item("v", "k", "new")),
     newCheckpoint |-> Put("create", CheckpointOf("v", "c2", <<Choice(2)>>)),
     otherCheckpoint |-> Put("create", CheckpointOf("v", "c2", <<Choice(1)>>)),
     edit |-> Put("update", Item("v", "j", "other")),
     relink |-> Put("update", M3(<<Introduce("j")>>)),
     fewer |-> Put("update", P(SubSeq(FourQuestions, 2, 4))),
     moveUnit |-> Put("update", UnitOf("t", "v", 1)),
     archiveItem |-> Op("archive", "i"),
     archiveLesson |-> Op("archive", "l2"),
     archiveUnit |-> Op("archive", "v"),
     archiveStage |-> Op("archive", "t"),
     archiveCheckpoint |-> Op("archive", "c"),
     restore |-> Op("restore", "c"),
     restoreUnit |-> Op("restore", "v"),
     swapLessons |-> Reorder("u", <<"l2", "l1">>),
     swapUnits |-> Reorder("s", <<"v", "u">>),
     file |-> UnitImport(FileOf("v", MovedOn), FALSE),
     tryFile |-> UnitImport(FileOf("v", MovedOn), TRUE),
     badFile |-> UnitImport(But(FileOf("v", MovedOn), Item("v", "i", "new")), FALSE),
     import |-> Import(MovedOn, {}, FALSE, FALSE),
     seedPlan |-> Import(MovedOn, {}, TRUE, FALSE),
     force |-> Import(MovedOn, {"j"}, FALSE, TRUE),
     rename |-> Import(Renamed, {}, FALSE, FALSE),
     watch |-> Watch,
     publish |-> Op("publish", None),
     activate |-> Op("activate", None),
     learner |-> Op("pointer", None)]
=============================================================================
