-------------------------------- MODULE PathTree --------------------------------
(***************************************************************************)
(* The trees of the releases, what is kept of a learner, and how two       *)
(* states of a learner compare: shared by the promise (LearnerPath) and    *)
(* the service that keeps it (PathProgress).                               *)
(***************************************************************************)
EXTENDS PlacementLogic

CONSTANTS Releases, Tree, UnitId, LessonId, CheckpointId

Unit == [id : UnitId, lessons : Seq(LessonId),
         checkpointId : CheckpointId \union {None}]
Units == [r \in Releases |-> unitsInOrder(Tree[r])]

\* checkContentRefs refuses a slug used twice and ids are derived from slugs: a
\* unit and a lesson are each in one place of a tree.
TreesWellFormed ==
    \A r \in Releases :
        /\ Tree[r] \in Seq(Seq(Unit))
        /\ onePlaceEach(Units[r])

ASSUME PathAssumption ==
    /\ None \notin UnitId
    /\ None \notin LessonId
    /\ None \notin CheckpointId
    /\ TreesWellFormed

Learner == [enrolled : BOOLEAN,
            startUnitId : UnitId \union {None},
            completedLessonIds : SUBSET LessonId,
            passedCheckpointIds : SUBSET CheckpointId,
            skippedUnitIds : SUBSET UnitId]

\* No row of the learner in any table.
Blank == [enrolled |-> FALSE, startUnitId |-> None,
          completedLessonIds |-> {}, passedCheckpointIds |-> {},
          skippedUnitIds |-> {}]

-----------------------------------------------------------------------------
(* Comparing what is unlocked.                                              *)

Level(state) == CASE state = "locked" -> 0
                  [] state = "available" -> 1
                  [] state = "completed" -> 2

\* With b, nothing in the tree is more locked than with a.
UnlocksNoLess(units, a, b) ==
    \A i \in DOMAIN units :
        /\ Level(unitState(units, i, a)) <= Level(unitState(units, i, b))
        /\ Level(checkpointState(units, i, a))
              <= Level(checkpointState(units, i, b))
        /\ \A k \in DOMAIN units[i].lessons :
              Level(lessonState(units, i, k, a))
                  <= Level(lessonState(units, i, k, b))

\* a is a state of the learner no further along the path than b.
NoFurther(units, a, b) ==
    /\ a.enrolled => b.enrolled
    /\ startIndex(units, a) <= startIndex(units, b)
    /\ a.completedLessonIds \subseteq b.completedLessonIds
    /\ a.passedCheckpointIds \subseteq b.passedCheckpointIds
    /\ \A i \in DOMAIN units :
          units[i].id \in a.skippedUnitIds =>
              units[i].id \in b.skippedUnitIds \/ i < startIndex(units, b)

\* Every unit the latest placement skipped is before the start unit.
SkippedBehindStart(units, a) ==
    \A i \in DOMAIN units :
        units[i].id \in a.skippedUnitIds => i < startIndex(units, a)

OneRelease == \A r, s \in Releases : r = s
=============================================================================
