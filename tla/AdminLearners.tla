------------------------------ MODULE AdminLearners ------------------------------
(***************************************************************************)
(* What admins are shown of a learner: flattenLessons and reachedStage of  *)
(* src/src/admin-path/admin-learners.logic.ts, as AdminLearnersService     *)
(* uses them in stats and learner.  A stage is named by its position.      *)
(***************************************************************************)
EXTENDS LearnerPath, FiniteSetsExt

ASSUME StageAssumption == None \notin Nat

\* Where lessons are: stage, unit and lesson, and which of them come before one.
places(tree) ==
    UNION {UNION {{<<s, i, k>> : k \in DOMAIN tree[s][i].lessons} :
                      i \in DOMAIN tree[s]} : s \in DOMAIN tree}
earlier(tree, a) ==
    {b \in places(tree) : \/ b[1] < a[1]
                          \/ b[1] = a[1] /\ b[2] < a[2]
                          \/ b[1] = a[1] /\ b[2] = a[2] /\ b[3] < a[3]}

\* Mutant: positions are counted from 0.
flattenLessonsFromZero(tree) ==
    {[lessonId |-> tree[a[1]][a[2]].lessons[a[3]], stage |-> a[1],
      position |-> Cardinality(earlier(tree, a))] : a \in places(tree)}

\* Every lesson of the tree with its 1-based position in the whole path.
flattenLessons(tree) ==
    {[lessonId |-> tree[a[1]][a[2]].lessons[a[3]], stage |-> a[1],
      position |-> 1 + Cardinality(earlier(tree, a))] : a \in places(tree)}

done(lessons, completed) == {l \in lessons : l.lessonId \in completed}
lastOf(lessons) ==
    CHOOSE l \in lessons : \A m \in lessons : m.position <= l.position

\* The stage of the furthest lesson done, else of the unit started from; the
\* first stage when there is no start unit, whether it has units or not.
reachedStage(tree, lessons, completed, startUnitId) ==
    IF done(lessons, completed) # {} THEN lastOf(done(lessons, completed)).stage
    ELSE IF startUnitId = None THEN IF tree = <<>> THEN None ELSE 1
    ELSE LET starts == {s \in DOMAIN tree : startUnitId \in UnitIds(tree[s])}
         IN  IF starts = {} THEN None ELSE Min(starts)

\* The furthest position done, from the database; none counts as 0.
furthest(lessons, a) ==
    Max({0} \union {l.position : l \in done(lessons, a.completedLessonIds)})

statsStage(tree, a) ==
    LET lessons == flattenLessons(tree)
        position == furthest(lessons, a)
    IN  IF position # 0
        THEN (CHOOSE l \in lessons : l.position = position).stage
        ELSE reachedStage(tree, lessons, {}, a.startUnitId)

\* learner: the progress of one learner.
learnerProgress(tree, a) ==
    LET lessons == flattenLessons(tree)
    IN  [lessonsDone |-> Cardinality(done(lessons, a.completedLessonIds)),
         lessonsTotal |-> Cardinality(lessons),
         stage |-> IF ~a.enrolled THEN None
                   ELSE reachedStage(tree, lessons, a.completedLessonIds, a.startUnitId)]

\* A lesson of the stage is done, or a unit of it is open to the learner.
ReachedBy(tree, units, stage, a) ==
    \E i \in DOMAIN tree[stage] :
        LET u == tree[stage][i]
        IN  \/ ToSet(u.lessons) \intersect a.completedLessonIds # {}
            \/ unitState(units, findUnit(units, u.id), a) # "locked"

\* Admins are told the same of a learner on both pages, and it is what the
\* learner sees: the stage in the statistics is the stage on the learner's page,
\* it has a lesson done or a unit open unless it is a first stage without units,
\* and no stage is missing unless the start unit is not in the release.
AdminsSeeTheSame ==
    learner.enrolled =>
        \A r \in Releases :
            LET stage == statsStage(Tree[r], learner)
                page == learnerProgress(Tree[r], learner)
            IN  /\ page.stage = stage
                /\ page.lessonsDone =
                       pathTotals(Tree[r], Units[r], learner).lessonsCompleted
                /\ stage # None => \/ ReachedBy(Tree[r], Units[r], stage, learner)
                                   \/ stage = 1 /\ Tree[r][1] = <<>>
                /\ stage = None => findUnit(Units[r], learner.startUnitId) = 0
=============================================================================
