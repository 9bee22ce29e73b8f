------------------------------- MODULE UnitLogic -------------------------------
(***************************************************************************)
(* Unlocking on the path: src/src/path-progress/unit.logic.ts, as pure     *)
(* operators.                                                              *)
(*                                                                         *)
(* A tree is the sequence of stages of a release, a stage its sequence of  *)
(* units, a unit the record [id, lessons, checkpointId]: the ids of its    *)
(* lessons in order, and a checkpoint id or None.  A learner is the code's *)
(* LearnerProgress record.  The loop of computeProgress carries one value  *)
(* from a unit to the next, previousCleared, and "cleared" does not depend *)
(* on it, so every answer of the loop is an expression over the position.  *)
(***************************************************************************)
EXTENDS Naturals, FiniteSets, SequencesExt

CONSTANT None  \* null

unitsInOrder(tree) == FlattenSeq(tree)

UnitIds(units) == {units[i].id : i \in DOMAIN units}
LessonIds(units) ==
    UNION {ToSet(units[i].lessons) : i \in DOMAIN units}

\* The position of a unit, 0 when the tree has no such unit.
findUnit(units, unitId) == SelectInSeq(units, LAMBDA u : u.id = unitId)
findLessonUnit(units, lessonId) ==
    SelectInSeq(units, LAMBDA u : lessonId \in ToSet(u.lessons))

\* A unit and a lesson are each in one place.
onePlaceEach(units) ==
    /\ \A i, j \in DOMAIN units : units[i].id = units[j].id => i = j
    /\ \A i, j \in DOMAIN units : \A k \in DOMAIN units[i].lessons :
          units[i].lessons[k] \in ToSet(units[j].lessons) => i = j
    /\ \A i \in DOMAIN units : \A k, m \in DOMAIN units[i].lessons :
          units[i].lessons[k] = units[i].lessons[m] => k = m

Later(m, n) == IF m < n THEN n ELSE m

\* An unknown or null start unit is the first unit: findIndex gives -1.
startIndex(units, learner) == Later(1, findUnit(units, learner.startUnitId))

allDone(unit, learner) ==
    \A k \in DOMAIN unit.lessons : unit.lessons[k] \in learner.completedLessonIds

passed(unit, learner) ==
    /\ unit.checkpointId # None
    /\ unit.checkpointId \in learner.passedCheckpointIds

cleared(units, i, learner) ==
    /\ learner.enrolled
    /\ \/ i < startIndex(units, learner)
       \/ units[i].id \in learner.skippedUnitIds
       \/ passed(units[i], learner)
       \/ units[i].checkpointId = None /\ allDone(units[i], learner)

\* Mutant: a learner who is not enrolled finds the first unit open.
openToAll(units, i, learner) ==
    \/ i <= startIndex(units, learner)
    \/ cleared(units, i - 1, learner)
    \/ cleared(units, i, learner)

\* Mutant: clearing a unit does not open the next one.
openUpToStart(units, i, learner) ==
    /\ learner.enrolled
    /\ i <= startIndex(units, learner) \/ cleared(units, i, learner)

open(units, i, learner) ==
    /\ learner.enrolled
    /\ \/ i <= startIndex(units, learner)
       \/ cleared(units, i - 1, learner)
       \/ cleared(units, i, learner)

lessonState(units, i, k, learner) ==
    LET done(j) == units[i].lessons[j] \in learner.completedLessonIds
        reached == cleared(units, i, learner) \/ k = 1 \/ done(k - 1)
    IN  IF done(k) THEN "completed"
        ELSE IF open(units, i, learner) /\ reached THEN "available"
        ELSE "locked"

checkpointState(units, i, learner) ==
    LET reached == allDone(units[i], learner) \/ cleared(units, i, learner)
    IN  IF passed(units[i], learner) THEN "completed"
        ELSE IF open(units, i, learner) /\ reached THEN "available"
        ELSE "locked"

unitState(units, i, learner) ==
    IF cleared(units, i, learner) THEN "completed"
    ELSE IF open(units, i, learner) THEN "available"
    ELSE "locked"

-----------------------------------------------------------------------------
(* The next lesson: the first available one in a unit not cleared yet; one  *)
(* of a cleared unit only when nothing else is available.                   *)

Places(units) ==
    UNION {{i} \X DOMAIN units[i].lessons : i \in DOMAIN units}

availableLessons(units, learner) ==
    {p \in Places(units) : lessonState(units, p[1], p[2], learner) = "available"}

firstOf(places) ==
    CHOOSE p \in places :
        \A q \in places : p[1] < q[1] \/ (p[1] = q[1] /\ p[2] <= q[2])

\* Mutant: the first available lesson, also of a unit cleared already.
currentLessonOfAny(units, learner) ==
    LET available == availableLessons(units, learner)
    IN  IF available = {} THEN None
        ELSE LET p == firstOf(available) IN units[p[1]].lessons[p[2]]

currentLesson(units, learner) ==
    LET available == availableLessons(units, learner)
        next == {p \in available : ~cleared(units, p[1], learner)}
        from == IF next # {} THEN next ELSE available
    IN  IF from = {} THEN None
        ELSE LET p == firstOf(from) IN units[p[1]].lessons[p[2]]

-----------------------------------------------------------------------------
(* pathTotals: what the learner earned.  "tree" is the one the totals are   *)
(* grouped by, "units" the one the progress was computed over; they differ  *)
(* when a release is activated between the two (placement.service.ts).      *)

earned(units, i, learner) ==
    IF units[i].checkpointId # None
    THEN passed(units[i], learner)
    ELSE units[i].lessons # <<>> /\ allDone(units[i], learner)

pathTotals(tree, units, learner) ==
    LET known(stage) == {findUnit(units, stage[k].id) : k \in DOMAIN stage} \ {0}
        earnedIn(stage) == {i \in known(stage) : earned(units, i, learner)}
        finished(stage) ==
            /\ earnedIn(stage) # {}
            /\ Cardinality(known(stage)) = Len(stage)
            /\ \A i \in known(stage) : unitState(units, i, learner) = "completed"
    IN  [lessonsCompleted |->
             Cardinality({p \in Places(units) :
                 lessonState(units, p[1], p[2], learner) = "completed"}),
         unitsCompleted |->
             Cardinality(UNION {earnedIn(tree[s]) : s \in DOMAIN tree}),
         stagesCompleted |->
             Cardinality({s \in DOMAIN tree : finished(tree[s])})]
=============================================================================
