------------------------------ MODULE LearnerPath ------------------------------
(***************************************************************************)
(* What the path promises one learner: the rows the service keeps of the   *)
(* learner, changed by one atomic step per operation.  Enrolling,          *)
(* completing a lesson, passing a checkpoint and taking the placement test *)
(* are the learner's; erasing is an admin's reset or the account's         *)
(* deletion.  A request is served from the tree of some release: any       *)
(* release that exists can be made the active one (release.service.ts,     *)
(* activate), so a step takes its release freely.  PathProgress is the     *)
(* service that implements this with concurrent requests and a cache.      *)
(***************************************************************************)
EXTENDS PathTree

VARIABLE learner

Init == learner = Blank

-----------------------------------------------------------------------------
(* Mutants: enrolling again forgets the placement's start unit; only the    *)
(* lesson finished last is remembered; a unit without a checkpoint has one  *)
(* to pass.                                                                 *)

EnrollAfresh == learner' = [learner EXCEPT !.enrolled = TRUE, !.startUnitId = None]

CompleteLastLesson(r, i, k) ==
    /\ lessonState(Units[r], i, k, learner) # "locked"
    /\ learner' = [learner EXCEPT !.completedLessonIds = {Units[r][i].lessons[k]}]

PassAnyCheckpoint(r, i) ==
    /\ checkpointState(Units[r], i, learner) # "locked"
    /\ learner' = [learner EXCEPT !.passedCheckpointIds =
                                      @ \union {Units[r][i].checkpointId}]

-----------------------------------------------------------------------------
Enroll == learner' = [learner EXCEPT !.enrolled = TRUE]

CompleteLesson(r, i, k) ==
    /\ lessonState(Units[r], i, k, learner) # "locked"
    /\ learner' = [learner EXCEPT !.completedLessonIds =
                                      @ \union {Units[r][i].lessons[k]}]

PassCheckpoint(r, i) ==
    /\ Units[r][i].checkpointId # None
    /\ checkpointState(Units[r], i, learner) # "locked"
    /\ learner' = [learner EXCEPT !.passedCheckpointIds =
                                      @ \union {Units[r][i].checkpointId}]

\* The placement test enrolls; the latest result holds the skipped units.
Place(r, p) ==
    learner' = [learner EXCEPT
        !.enrolled = TRUE,
        !.startUnitId = laterStart(Units[r], @, placedUnit(Units[r], p)),
        !.skippedUnitIds = skippedUnits(Units[r], p)]

Erase == learner' = Blank

Work ==
    \/ Enroll
    \/ \E r \in Releases : \E i \in DOMAIN Units[r] :
          \/ \E k \in DOMAIN Units[r][i].lessons : CompleteLesson(r, i, k)
          \/ PassCheckpoint(r, i)

Retake == \E r \in Releases : \E p \in placedPositions(Units[r]) : Place(r, p)

Next == Work \/ Retake \/ Erase

Spec == Init /\ [][Next]_learner

\* The learner who goes on: enrolls, takes the lesson the app offers next and
\* any checkpoint that is open.
TakeNext(r) ==
    \/ Enroll
    \/ \E i \in DOMAIN Units[r] :
          \/ \E k \in DOMAIN Units[r][i].lessons :
                /\ Units[r][i].lessons[k] = currentLesson(Units[r], learner)
                /\ CompleteLesson(r, i, k)
          \/ checkpointState(Units[r], i, learner) = "available"
             /\ PassCheckpoint(r, i)

FairSpec == Spec /\ \A r \in Releases : WF_learner(TakeNext(r))

AllCleared(r) == \A i \in DOMAIN Units[r] : cleared(Units[r], i, learner)

-----------------------------------------------------------------------------
TypeOK == learner \in Learner

\* Nothing is recorded of a learner who is not enrolled: every lesson and
\* checkpoint is locked before enrolling (unit.logic.ts:11), so none can be
\* finished.
NothingBeforeEnrolling == ~learner.enrolled => learner = Blank

\* The path never leaves an enrolled learner with nothing to do: until every
\* unit is cleared, the lesson offered next is one of a unit not cleared, or a
\* checkpoint of a unit not cleared can be taken.
NoDeadEnd ==
    learner.enrolled =>
        \A r \in Releases :
            \/ AllCleared(r)
            \/ \E i \in DOMAIN Units[r] :
                  /\ ~cleared(Units[r], i, learner)
                  /\ \/ currentLesson(Units[r], learner)
                            \in ToSet(Units[r][i].lessons)
                     \/ /\ Units[r][i].checkpointId # None
                        /\ checkpointState(Units[r], i, learner) = "available"

\* Enrolling, finishing a lesson and passing a checkpoint lock nothing again,
\* in the tree of any release (a checkpoint passed or a lesson done counts in
\* every release that has it).
WorkNeverRelocks ==
    [][Work => \A r \in Releases : UnlocksNoLess(Units[r], learner, learner')
      ]_learner

\* A retake locks nothing again.  It takes a tree that stays as it is: the units
\* a result skips replace those of the result before (path-progress.service.ts,
\* meFor), which were of another tree perhaps.
RetakeNeverRelocks ==
    [][Retake => \A r \in Releases : UnlocksNoLess(Units[r], learner, learner')
      ]_learner

\* "A retake never moves a learner back, so it never re-locks what an earlier
\* placement opened" (placement.logic.ts:113-117): the unit the learner was
\* placed at stays open in every release that has it.  Nothing before a start
\* unit needs skipping, so only a start unit that moves can lock it.
RetakeKeepsStart ==
    [][Retake => \A r \in Releases :
          LET start == findUnit(Units[r], learner.startUnitId)
          IN  start # 0 => unitState(Units[r], start, learner') # "locked"
      ]_learner

\* The totals sent to learning-service never go down by what a learner does,
\* whichever release they are counted over.
TotalsNeverDrop ==
    [][Work =>
        \A r \in Releases :
            LET before == pathTotals(Tree[r], Units[r], learner)
                after == pathTotals(Tree[r], Units[r], learner')
            IN  \A field \in DOMAIN before : before[field] <= after[field]
      ]_learner

\* "A lesson added by a later release must not re-lock a unit the learner
\* finished" (unit.logic.ts:18-19): a unit finished in one release is not
\* locked in a release that has the same unit with lessons added.
FinishedUnitStaysOpen ==
    \A r, s \in Releases :
        \A i \in DOMAIN Units[r], j \in DOMAIN Units[s] :
            /\ Units[r][i].id = Units[s][j].id
            /\ ToSet(Units[r][i].lessons) \subseteq ToSet(Units[s][j].lessons)
            /\ earned(Units[r], i, learner)
            => unitState(Units[s], j, learner) # "locked"

\* A learner who goes on finishes the path, unless erased again and again.
PathCanBeFinished ==
    \A r \in Releases : []<>(learner = Blank) \/ <>AllCleared(r)
=============================================================================
