----------------------------- MODULE PublishedContent -----------------------------
(***************************************************************************)
(* Authoring together with what is made of its state: the tree admins see  *)
(* of the working copy, and the grading of what learners answer to the     *)
(* questions a release stores.                                             *)
(***************************************************************************)
EXTENDS Authoring, Grading, AdminTree

newest == releases[Len(releases)]

\* Whatever admins and imports wrote, refused and archived, the tree shows every
\* row of the working copy, and its totals count each row once by status and
\* once by origin.
EveryRowShown ==
    LET all == {rows[s] : s \in {t \in Slug : rows[t] # None}}
        tree == buildAdminTree(all)
        total == tree.totals
    IN  /\ nodesOfTree(tree) = {node(row) : row \in all}
        /\ total["DRAFT"] + total["PUBLISHED"] + total["ARCHIVED"] = Cardinality(all)
        /\ total["seed"] + total["edited"] + total["admin"] = Cardinality(all)

-----------------------------------------------------------------------------

\* The responses a learner can give to a question as it is shown, plain and
\* careless: any option, the text of the first answer, the tiles in any order.
arrangements(tiles) ==
    {t \in [1..BagCardinality(tiles) -> BagToSet(tiles)] : ToBag(t) = tiles}
possibleResponses(q) ==
    LET shown == learnerQuestion(q)
    IN  CASE shown.kind = "choice" -> {Number(n) : n \in 0..(Len(shown.options) - 1)}
          [] shown.kind = "gap" -> {Typed(<<" ">> \o q.answers[1] \o <<" ">>)}
          [] shown.kind = "order" -> {Tiles(t) : t \in arrangements(shown.tiles)}

rightResponses(q) == {r \in possibleResponses(q) : isCorrect(q, r)}

\* Every question a publish stores can be answered right with what the learner
\* is shown, the answer revealed afterwards is one that is graded right, and who
\* answers all of a checkpoint's questions so passes it.
AllAnswerable(release) ==
    \A c \in release.checkpoints :
        LET right == [i \in DOMAIN c.questions |-> theOne(rightResponses(c.questions[i]))]
            revealed == [i \in DOMAIN c.questions |-> correctAnswerText(c.questions[i])]
            grade == gradeCheckpoint(c, right)
        IN  /\ \A i \in DOMAIN right :
                  /\ right[i] # None
                  /\ grade.results[i].correctAnswer = revealed[i]
            /\ grade.passed /\ gradeCheckpoint(c, revealed).passed
AnswersCanBeGiven ==
    [][releases' # releases => AllAnswerable(newest')]_releases

\* On every placement test a publish stores: answering one more question right
\* never places a learner nearer, one right answer alone skips no unit, no
\* answers skip none, and a learner is placed where Place takes them
\* (PlacementLogic).
GradedFairly(release) ==
    LET questions == release.placement.questions
        units == Path!unitsInOrder(release.tree)
        unitOrder == [i \in DOMAIN units |-> units[i].id]
        response == [i \in DOMAIN questions |-> theOne(rightResponses(questions[i]))]
        grade == [right \in SUBSET DOMAIN questions |->
                     gradePlacement(questions, [i \in DOMAIN questions |->
                         IF i \in right THEN response[i] ELSE None], unitOrder)]
        skipped == [right \in DOMAIN grade |-> Len(grade[right].skippedUnitIds)]
    IN  \A right \in DOMAIN grade :
            /\ \A i \in DOMAIN questions : skipped[right] <= skipped[right \union {i}]
            /\ Cardinality(right) <= 1 => skipped[right] = 0
            /\ skipped[right] + 1 \in Path!placedPositions(units)
            /\ grade[right].placedUnitId = Path!placedUnit(units, skipped[right] + 1)
            /\ ToSet(grade[right].skippedUnitIds)
                   = Path!skippedUnits(units, skipped[right] + 1)
PlacementIsFair ==
    [][releases' # releases /\ newest'.placement # None => GradedFairly(newest')]_releases
=============================================================================
