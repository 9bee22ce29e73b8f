--------------------------- MODULE LearnerPathProofs ---------------------------
(***************************************************************************)
(* What holds of a learner's path for every tree and every set of          *)
(* releases: the path has no dead end, nothing a learner does locks        *)
(* anything again, the totals never go down, and admins are shown what the *)
(* learner sees.                                                           *)
(***************************************************************************)
EXTENDS AdminLearners, UnlockingProofs

\* The rows of a learner are always a LearnerProgress record.
THEOREM TypeCorrect == Spec => []TypeOK
<1>1. Init => TypeOK
  BY DEF Init, Blank, TypeOK, Learner
<1>2. TypeOK /\ [Next]_learner => TypeOK'
  <2> SUFFICES ASSUME TypeOK, [Next]_learner
               PROVE  TypeOK'
    OBVIOUS
  <2>1. CASE Enroll
    BY <2>1 DEF Enroll, TypeOK, Learner
  <2>2. ASSUME NEW r \in Releases, NEW i \in DOMAIN Units[r],
               NEW k \in DOMAIN Units[r][i].lessons, CompleteLesson(r, i, k)
        PROVE  TypeOK'
    <3>1. Units[r][i].lessons[k] \in LessonId
      BY UnitsType, UnitParts
    <3> QED  BY <2>2, <3>1 DEF CompleteLesson, TypeOK, Learner
  <2>3. ASSUME NEW r \in Releases, NEW i \in DOMAIN Units[r], PassCheckpoint(r, i)
        PROVE  TypeOK'
    <3>1. Units[r][i].checkpointId \in CheckpointId
      BY <2>3, UnitsType, UnitParts DEF PassCheckpoint
    <3> QED  BY <2>3, <3>1 DEF PassCheckpoint, TypeOK, Learner
  <2>4. ASSUME NEW r \in Releases, NEW p \in placedPositions(Units[r]), Place(r, p)
        PROVE  TypeOK'
    <3>1. /\ laterStart(Units[r], learner.startUnitId, placedUnit(Units[r], p))
                \in UnitId \union {None}
          /\ skippedUnits(Units[r], p) \in SUBSET UnitId
      BY UnitsType, PlacementType DEF TypeOK, Learner
    <3> QED  BY <2>4, <3>1 DEF Place, TypeOK, Learner
  <2>5. CASE Erase
    BY <2>5 DEF Erase, Blank, TypeOK, Learner
  <2>6. CASE UNCHANGED learner
    BY <2>6 DEF TypeOK
  <2> QED  BY <2>1, <2>2, <2>3, <2>4, <2>5, <2>6 DEF Next, Work, Retake
<1> QED  BY <1>1, <1>2, PTL DEF Spec

\* Before enrolling, a learner without rows has every node locked.
LEMMA BlankIsLocked ==
    ASSUME NEW units, NEW i, learner = Blank
    PROVE  /\ checkpointState(units, i, learner) = "locked"
           /\ \A k : lessonState(units, i, k, learner) = "locked"
BY DEF Blank, checkpointState, lessonState, passed, open

\* No lesson or checkpoint is recorded of a learner who is not enrolled.
THEOREM NothingBeforeEnrollingHolds == Spec => []NothingBeforeEnrolling
<1>1. Init => NothingBeforeEnrolling
  BY DEF Init, NothingBeforeEnrolling
<1>2. TypeOK /\ NothingBeforeEnrolling /\ [Next]_learner => NothingBeforeEnrolling'
  <2> SUFFICES ASSUME TypeOK, NothingBeforeEnrolling, [Next]_learner
               PROVE  NothingBeforeEnrolling'
    OBVIOUS
  <2>1. CASE Enroll
    BY <2>1 DEF Enroll, NothingBeforeEnrolling, TypeOK, Learner
  <2>2. ASSUME NEW r \in Releases, NEW i \in DOMAIN Units[r],
               NEW k \in DOMAIN Units[r][i].lessons, CompleteLesson(r, i, k)
        PROVE  NothingBeforeEnrolling'
    <3>1. learner.enrolled
      BY <2>2, BlankIsLocked DEF CompleteLesson, NothingBeforeEnrolling
    <3> QED  BY <2>2, <3>1 DEF CompleteLesson, NothingBeforeEnrolling, TypeOK, Learner
  <2>3. ASSUME NEW r \in Releases, NEW i \in DOMAIN Units[r], PassCheckpoint(r, i)
        PROVE  NothingBeforeEnrolling'
    <3>1. learner.enrolled
      BY <2>3, BlankIsLocked DEF PassCheckpoint, NothingBeforeEnrolling
    <3> QED  BY <2>3, <3>1 DEF PassCheckpoint, NothingBeforeEnrolling, TypeOK, Learner
  <2>4. ASSUME NEW r \in Releases, NEW p \in placedPositions(Units[r]), Place(r, p)
        PROVE  NothingBeforeEnrolling'
    BY <2>4 DEF Place, NothingBeforeEnrolling, TypeOK, Learner
  <2>5. CASE Erase
    BY <2>5 DEF Erase, NothingBeforeEnrolling
  <2>6. CASE UNCHANGED learner
    BY <2>6 DEF NothingBeforeEnrolling
  <2> QED  BY <2>1, <2>2, <2>3, <2>4, <2>5, <2>6 DEF Next, Work, Retake
<1> QED  BY <1>1, <1>2, TypeCorrect, PTL DEF Spec

\* What a learner's work changes only takes the learner further, in any tree.
LEMMA WorkGoesFurther ==
    ASSUME NEW units \in Seq(Unit), TypeOK, Work
    PROVE  NoFurther(units, learner, learner')
<1> USE DEF TypeOK, Learner, NoFurther, startIndex
<1>1. startIndex(units, learner) \in Nat
  BY StartIndexType
<1>2. CASE Enroll
  BY <1>1, <1>2 DEF Enroll
<1>3. ASSUME NEW r \in Releases, NEW i \in DOMAIN Units[r],
             NEW k \in DOMAIN Units[r][i].lessons, CompleteLesson(r, i, k)
      PROVE  NoFurther(units, learner, learner')
  BY <1>1, <1>3 DEF CompleteLesson
<1>4. ASSUME NEW r \in Releases, NEW i \in DOMAIN Units[r], PassCheckpoint(r, i)
      PROVE  NoFurther(units, learner, learner')
  BY <1>1, <1>4 DEF PassCheckpoint
<1> QED  BY <1>2, <1>3, <1>4 DEF Work

\* Enrolling, finishing a lesson and passing a checkpoint lock nothing again in
\* any release.
THEOREM WorkNeverRelocksHolds == Spec => WorkNeverRelocks
<1>1. TypeOK /\ TypeOK' /\ [Next]_learner =>
        [Work => \A r \in Releases :
            UnlocksNoLess(Units[r], learner, learner')]_learner
  <2> SUFFICES ASSUME TypeOK, TypeOK', Work, NEW r \in Releases
               PROVE  UnlocksNoLess(Units[r], learner, learner')
    OBVIOUS
  <2>1. Units[r] \in Seq(Unit)
    BY UnitsType
  <2>2. NoFurther(Units[r], learner, learner')
    BY <2>1, WorkGoesFurther
  <2> QED  BY <2>1, <2>2, UnlockingMonotone DEF TypeOK
<1> QED  BY <1>1, TypeCorrect, PTL DEF Spec, WorkNeverRelocks

\* What is reported to learning-service never goes down by what a learner does,
\* over whichever release it is counted.
THEOREM TotalsNeverDropHolds == Spec => TotalsNeverDrop
<1>1. TypeOK /\ TypeOK' /\ [Next]_learner =>
        [Work =>
          \A r \in Releases :
            LET before == pathTotals(Tree[r], Units[r], learner)
                after == pathTotals(Tree[r], Units[r], learner')
            IN  \A field \in DOMAIN before : before[field] <= after[field]]_learner
  <2> SUFFICES ASSUME TypeOK, TypeOK', Work, NEW r \in Releases
               PROVE  LET before == pathTotals(Tree[r], Units[r], learner)
                          after == pathTotals(Tree[r], Units[r], learner')
                      IN  \A field \in DOMAIN before : before[field] <= after[field]
    OBVIOUS
  <2>1. Tree[r] \in Seq(Seq(Unit)) /\ Units[r] \in Seq(Unit)
    BY TreeType, UnitsType
  <2>2. learner \in Learner /\ learner' \in Learner
    BY DEF TypeOK
  <2>3. NoFurther(Units[r], learner, learner')
    BY <2>1, WorkGoesFurther
  <2> QED  BY <2>1, <2>2, <2>3, TotalsMonotone
<1> QED  BY <1>1, TypeCorrect, PTL DEF Spec, TotalsNeverDrop

-----------------------------------------------------------------------------
(* Retakes: one release, then several with the same units.                  *)

LEMMA RetakeGoesFurther ==
    ASSUME TypeOK, TypeOK', NEW r \in Releases, NEW p \in placedPositions(Units[r]),
           Place(r, p), SkippedBehindStart(Units[r], learner)
    PROVE  /\ NoFurther(Units[r], learner, learner')
           /\ SkippedBehindStart(Units[r], learner')
<1>1. /\ learner'.enrolled
      /\ learner'.startUnitId = laterStart(Units[r], learner.startUnitId,
                                           placedUnit(Units[r], p))
      /\ learner'.completedLessonIds = learner.completedLessonIds
      /\ learner'.passedCheckpointIds = learner.passedCheckpointIds
      /\ learner'.skippedUnitIds = skippedUnits(Units[r], p)
  BY DEF Place, TypeOK, Learner
<1> QED  BY <1>1, PlacedFurther DEF TypeOK

\* As long as there is one release, a retake locks nothing again.
THEOREM RetakeNeverRelocksHolds == OneRelease /\ Spec => RetakeNeverRelocks
<1> SUFFICES ASSUME OneRelease
             PROVE  Spec => RetakeNeverRelocks
  OBVIOUS
<1> DEFINE Inv == \A r \in Releases : SkippedBehindStart(Units[r], learner)
<1>1. Init => Inv
  BY DEF Init, Blank, SkippedBehindStart
<1>2. TypeOK /\ TypeOK' /\ Inv /\ [Next]_learner => Inv'
  <2> SUFFICES ASSUME TypeOK, TypeOK', Inv, [Next]_learner, NEW r \in Releases
               PROVE  SkippedBehindStart(Units[r], learner')
    OBVIOUS
  <2>1. CASE learner'.startUnitId = learner.startUnitId
             /\ learner'.skippedUnitIds = learner.skippedUnitIds
    BY <2>1 DEF SkippedBehindStart, startIndex
  <2>2. CASE Work
    BY <2>1, <2>2 DEF Work, Enroll, CompleteLesson, PassCheckpoint,
                            TypeOK, Learner
  <2>3. CASE Retake
    <3>1. PICK p \in placedPositions(Units[r]) : Place(r, p)
      BY <2>3 DEF Retake, OneRelease
    <3> QED  BY <3>1, RetakeGoesFurther
  <2>4. CASE Erase
    BY <2>4 DEF Erase, Blank, SkippedBehindStart
  <2> QED  BY <2>1, <2>2, <2>3, <2>4 DEF Next
<1>3. ASSUME TypeOK, TypeOK', Inv, Retake, NEW r \in Releases
      PROVE  UnlocksNoLess(Units[r], learner, learner')
  <2>1. PICK p \in placedPositions(Units[r]) : Place(r, p)
    BY <1>3 DEF Retake, OneRelease
  <2>2. NoFurther(Units[r], learner, learner')
    BY <1>3, <2>1, RetakeGoesFurther
  <2> QED  BY <1>3, <2>2, UnitsType, UnlockingMonotone DEF TypeOK
<1>4. TypeOK /\ TypeOK' /\ Inv /\ [Next]_learner =>
        [Retake => \A r \in Releases :
            UnlocksNoLess(Units[r], learner, learner')]_learner
  BY <1>3
<1> HIDE DEF Inv
<1> QED  BY <1>1, <1>2, <1>4, TypeCorrect, PTL DEF Spec, RetakeNeverRelocks

\* The releases change lessons and checkpoints only: same units, same order.
SameUnits ==
    \A r, s \in Releases :
        /\ DOMAIN Units[r] = DOMAIN Units[s]
        /\ \A i \in DOMAIN Units[r] : Units[r][i].id = Units[s][i].id

\* With the same units a unit has one place, whichever release it is sought in.
LEMMA SamePlace ==
    ASSUME SameUnits, NEW r \in Releases, NEW s \in Releases, NEW unitId
    PROVE  findUnit(Units[r], unitId) = findUnit(Units[s], unitId)
<1>1. Units[r] \in Seq(Unit) /\ Units[s] \in Seq(Unit)
  BY UnitsType
<1> DEFINE i == findUnit(Units[r], unitId)
           j == findUnit(Units[s], unitId)
<1>2. /\ i \in 0 .. Len(Units[r]) /\ j \in 0 .. Len(Units[s])
      /\ i # 0 => Units[r][i].id = unitId
      /\ j # 0 => Units[s][j].id = unitId
      /\ i = 0 => unitId \notin UnitIds(Units[r])
      /\ j = 0 => unitId \notin UnitIds(Units[s])
  BY <1>1, FindUnitType
<1> HIDE DEF i, j
<1>3. (i # 0 => i \in DOMAIN Units[r]) /\ (j # 0 => j \in DOMAIN Units[s])
  BY <1>1, <1>2
<1>4. i # 0 <=> j # 0
  BY <1>2, <1>3 DEF SameUnits, UnitIds
<1>5. CASE i # 0
  <2>1. i \in DOMAIN Units[r] /\ j \in DOMAIN Units[r] /\ Units[r][i].id = Units[r][j].id
    BY <1>2, <1>3, <1>4, <1>5 DEF SameUnits
  <2> QED  BY <2>1, PathAssumption DEF TreesWellFormed, onePlaceEach, i, j
<1> QED  BY <1>4, <1>5 DEF i, j

\* While every release has the same units in the same order, a placement test
\* taken again leaves the unit the learner was placed at open
\* (placement.logic.ts:113-117); another release without it does not.
THEOREM RetakeKeepsStartHolds == SameUnits /\ Spec => RetakeKeepsStart
<1> SUFFICES ASSUME SameUnits
             PROVE  Spec => RetakeKeepsStart
  OBVIOUS
<1>1. ASSUME TypeOK, TypeOK', Retake, NEW s \in Releases,
             findUnit(Units[s], learner.startUnitId) # 0
      PROVE  unitState(Units[s], findUnit(Units[s], learner.startUnitId), learner')
                 # "locked"
  <2>0. PICK r \in Releases : \E p \in placedPositions(Units[r]) : Place(r, p)
    BY <1>1 DEF Retake
  <2>1. PICK p \in placedPositions(Units[r]) : Place(r, p)
    BY <2>0
  <2>2. /\ learner \in Learner /\ learner' \in Learner
        /\ learner'.enrolled
        /\ learner'.startUnitId = laterStart(Units[r], learner.startUnitId,
                                             placedUnit(Units[r], p))
    BY <1>1, <2>1 DEF Place, TypeOK, Learner
  <2>3. startIndex(Units[r], learner') >= startIndex(Units[r], learner)
    BY <2>2, LaterStartIndex
  <2>4. /\ findUnit(Units[s], learner.startUnitId) = findUnit(Units[r], learner.startUnitId)
        /\ startIndex(Units[s], learner') = startIndex(Units[r], learner')
    BY SamePlace DEF startIndex
  <2>5. findUnit(Units[s], learner.startUnitId) \in Nat
        /\ startIndex(Units[s], learner') \in Nat
    BY UnitsType, FindUnitType, StartIndexType
  <2>6. findUnit(Units[s], learner.startUnitId) <= startIndex(Units[s], learner')
    BY <2>3, <2>4, <2>5 DEF startIndex, Later
  <2> QED  BY <2>2, <2>6 DEF unitState, open
<1>2. TypeOK /\ TypeOK' /\ [Next]_learner =>
        [Retake => \A r \in Releases :
          LET start == findUnit(Units[r], learner.startUnitId)
          IN  start # 0 => unitState(Units[r], start, learner') # "locked"]_learner
  BY <1>1
<1> QED  BY <1>2, TypeCorrect, PTL DEF Spec, RetakeKeepsStart

\* Until every unit is cleared, an enrolled learner is offered a lesson of a
\* unit not cleared, or a checkpoint of one can be taken.
THEOREM NoDeadEndHolds == Spec => []NoDeadEnd
<1>1. TypeOK => NoDeadEnd
  <2> SUFFICES ASSUME TypeOK, learner.enrolled, NEW r \in Releases, ~AllCleared(r)
               PROVE  \E i \in DOMAIN Units[r] :
                         /\ ~cleared(Units[r], i, learner)
                         /\ \/ currentLesson(Units[r], learner)
                                   \in ToSet(Units[r][i].lessons)
                            \/ /\ Units[r][i].checkpointId # None
                               /\ checkpointState(Units[r], i, learner) = "available"
    BY DEF NoDeadEnd
  <2> DEFINE units == Units[r]
             n == Len(units)
             N == {i \in 1 .. n : ~cleared(units, i, learner)}
  <2>1. units \in Seq(Unit) /\ learner \in Learner
    BY UnitsType DEF TypeOK
  <2>2. n \in Nat /\ N \subseteq 1 .. n /\ N # {}
    BY <2>1 DEF AllCleared
  <2>3. \E x \in N : \A y \in N : x <= y
    <3> HIDE DEF N, n
    <3> QED  BY <2>2, FirstPosition
  <2>4. PICK i \in N : \A y \in N : i <= y
    BY <2>3
  <2>5. i \in DOMAIN units /\ ~cleared(units, i, learner)
    BY <2>1, <2>4
  <2>6. open(units, i, learner)
    <3>1. CASE i = 1
      BY <2>1, <3>1, StartIndexType DEF open
    <3>2. CASE i # 1
      <4>1. i - 1 \in 1 .. n /\ ~(i <= i - 1)
        BY <2>2, <2>4, <3>2
      <4>2. cleared(units, i - 1, learner)
        BY <2>4, <4>1
      <4> QED  BY <4>2 DEF open
    <3> QED  BY <3>1, <3>2
  <2>7. CASE \E k \in DOMAIN units[i].lessons :
                lessonState(units, i, k, learner) = "available"
    <3> DEFINE P == {p \in availableLessons(units, learner) :
                        ~cleared(units, p[1], learner)}
    <3>1. P \subseteq Places(units)
      BY DEF availableLessons
    <3>2. P # {}
      <4>1. PICK k \in DOMAIN units[i].lessons :
                   lessonState(units, i, k, learner) = "available"
        BY <2>7
      <4>2. <<i, k>> \in Places(units)
        BY <2>5 DEF Places
      <4>3. <<i, k>> \in P
        BY <2>5, <4>1, <4>2 DEF availableLessons
      <4> QED  BY <4>3
    <3>3. firstOf(P) \in P
      <4> HIDE DEF P
      <4> QED  BY <2>1, <3>1, <3>2, FirstPlace
    <3> DEFINE p == firstOf(P)
    <3>4. currentLesson(units, learner) = units[p[1]].lessons[p[2]]
      BY <3>2 DEF currentLesson
    <3>5. PICK j \in DOMAIN units : p \in {j} \X DOMAIN units[j].lessons
      BY <3>1, <3>3 DEF Places
    <3>6. p[1] = j /\ p[2] \in DOMAIN units[j].lessons
      <4> HIDE DEF p
      <4> QED BY <3>5
    <3>7. ~cleared(units, j, learner)
      BY <3>3, <3>6
    <3> QED  BY <3>4, <3>6, <3>7 DEF ToSet
  <2> QED  BY <2>1, <2>5, <2>6, <2>7, OpenUnitHasNext
<1> QED  BY <1>1, TypeCorrect, PTL

-----------------------------------------------------------------------------
(* What admins are shown.                                                   *)

\* A tree whose units are in order in "units", each lesson in one place.
Flattened(tree, units, at) ==
    /\ tree \in Seq(Seq(Unit)) /\ units \in Seq(Unit)
    /\ FlatPlaces(tree, Len(tree), units, at)
    /\ onePlaceEach(units)

LEMMA TreeIsFlattened ==
    ASSUME NEW r \in Releases
    PROVE  \E at : Flattened(Tree[r], Units[r], at)
<1>1. Tree[r] \in Seq(Seq(Unit)) /\ Units[r] \in Seq(Unit)
  BY TreeType, UnitsType
<1>2. \E at : FlatPlaces(Tree[r], Len(Tree[r]), Units[r], at)
  BY <1>1, FlattenPlaces DEF Units, unitsInOrder
<1>3. onePlaceEach(Units[r])
  BY PathAssumption DEF TreesWellFormed
<1> QED  BY <1>1, <1>2, <1>3 DEF Flattened

\* Where a unit of the tree is in the order of units.
LEMMA UnitPlace ==
    ASSUME NEW tree, NEW units, NEW at, Flattened(tree, units, at),
           NEW s \in DOMAIN tree, NEW i \in DOMAIN tree[s]
    PROVE  /\ <<s, i>> \in Pairs(tree) /\ s \in Nat /\ i \in Nat
           /\ tree[s] \in Seq(Unit) /\ tree[s][i] \in Unit
           /\ at[<<s, i>>] \in DOMAIN units
           /\ units[at[<<s, i>>]] = tree[s][i]
<1>1. <<s, i>> \in Pairs(tree)
  BY PairsMake
<1>2. tree \in Seq(Seq(Unit)) /\ s <= Len(tree) /\ s \in Nat
  BY DEF Flattened
<1>3. tree[s] \in Seq(Unit) /\ i \in Nat /\ tree[s][i] \in Unit
  BY <1>2
<1>4. <<s, i>>[1] = s /\ <<s, i>>[2] = i
  OBVIOUS
<1> QED  BY <1>1, <1>2, <1>3, <1>4 DEF Flattened, FlatPlaces

\* A lesson of the tree, part by part.
LEMMA LessonPlace ==
    ASSUME NEW tree, NEW units, NEW at, Flattened(tree, units, at),
           NEW a \in places(tree)
    PROVE  /\ a = <<a[1], a[2], a[3]>>
           /\ a[1] \in DOMAIN tree /\ a[2] \in DOMAIN tree[a[1]]
           /\ a[3] \in DOMAIN tree[a[1]][a[2]].lessons
           /\ a[1] \in Nat /\ a[2] \in Nat /\ a[3] \in Nat
           /\ tree[a[1]][a[2]].lessons[a[3]] \in LessonId
<1>1. PICK s \in DOMAIN tree : \E i \in DOMAIN tree[s] :
          \E k \in DOMAIN tree[s][i].lessons : a = <<s, i, k>>
  BY DEF places
<1>2. PICK i \in DOMAIN tree[s] : \E k \in DOMAIN tree[s][i].lessons : a = <<s, i, k>>
  BY <1>1
<1>3. PICK k \in DOMAIN tree[s][i].lessons : a = <<s, i, k>>
  BY <1>2
<1>4. tree[s][i] \in Unit /\ s \in Nat /\ i \in Nat
  BY UnitPlace
<1>5. tree[s][i].lessons \in Seq(LessonId)
  BY <1>4 DEF Unit
<1>6. k \in Nat /\ tree[s][i].lessons[k] \in LessonId
  BY <1>5
<1>7. a[1] = s /\ a[2] = i /\ a[3] = k
  BY <1>3
<1> QED  BY <1>3, <1>4, <1>6, <1>7

\* The place of a lesson in the tree, as a place in the order of units.
inOrder(at, a) == <<at[<<a[1], a[2]>>], a[3]>>
lessonAt(tree, a) == tree[a[1]][a[2]].lessons[a[3]]

LEMMA LessonInOrder ==
    ASSUME NEW tree, NEW units, NEW at, Flattened(tree, units, at),
           NEW a \in places(tree)
    PROVE  /\ inOrder(at, a) \in Places(units)
           /\ units[inOrder(at, a)[1]].lessons[inOrder(at, a)[2]] = lessonAt(tree, a)
<1> DEFINE m == at[<<a[1], a[2]>>]
<1>1. /\ a[1] \in DOMAIN tree /\ a[2] \in DOMAIN tree[a[1]]
      /\ a[3] \in DOMAIN tree[a[1]][a[2]].lessons
  BY LessonPlace
<1>2. m \in DOMAIN units /\ units[m] = tree[a[1]][a[2]]
  BY <1>1, UnitPlace
<1>3. inOrder(at, a) = <<m, a[3]>>
  BY DEF inOrder
<1> HIDE DEF m
<1> QED  BY <1>1, <1>2, <1>3 DEF Places, lessonAt

\* Two places hold two lessons.
LEMMA LessonsApart ==
    ASSUME NEW tree, NEW units, NEW at, Flattened(tree, units, at),
           NEW a \in places(tree), NEW b \in places(tree),
           lessonAt(tree, a) = lessonAt(tree, b)
    PROVE  a = b
<1> DEFINE m == at[<<a[1], a[2]>>]
           n == at[<<b[1], b[2]>>]
<1>1. /\ a[1] \in DOMAIN tree /\ a[2] \in DOMAIN tree[a[1]]
      /\ a[3] \in DOMAIN tree[a[1]][a[2]].lessons
      /\ b[1] \in DOMAIN tree /\ b[2] \in DOMAIN tree[b[1]]
      /\ b[3] \in DOMAIN tree[b[1]][b[2]].lessons
      /\ a = <<a[1], a[2], a[3]>> /\ b = <<b[1], b[2], b[3]>>
  BY LessonPlace
<1>2. m \in DOMAIN units /\ units[m] = tree[a[1]][a[2]]
  BY <1>1, UnitPlace
<1>3. n \in DOMAIN units /\ units[n] = tree[b[1]][b[2]]
  BY <1>1, UnitPlace
<1>4. units[m].lessons[a[3]] = units[n].lessons[b[3]]
  BY <1>2, <1>3 DEF lessonAt
<1>5. m = n
  <2>1. units[m].lessons[a[3]] \in ToSet(units[n].lessons)
    BY <1>1, <1>3, <1>4 DEF ToSet
  <2> HIDE DEF m, n
  <2> QED  BY <2>1, <1>1, <1>2, <1>3 DEF Flattened, onePlaceEach
<1>6. a[3] = b[3]
  <2> HIDE DEF m, n
  <2> QED  BY <1>1, <1>2, <1>3, <1>4, <1>5 DEF Flattened, onePlaceEach
<1>7. <<a[1], a[2]>> = <<b[1], b[2]>>
  <2>1. <<a[1], a[2]>> \in Pairs(tree) /\ <<b[1], b[2]>> \in Pairs(tree)
    BY <1>1, PairsMake
  <2>2. ~Earlier(<<a[1], a[2]>>, <<b[1], b[2]>>)
        /\ ~Earlier(<<b[1], b[2]>>, <<a[1], a[2]>>)
    <3>1. a[1] <= Len(tree) /\ b[1] <= Len(tree) /\ m \in Nat
      BY <1>1, <1>2 DEF Flattened
    <3>2. ~(m < n) /\ ~(n < m)
      BY <1>5, <3>1
    <3> HIDE DEF m, n
    <3> QED  BY <2>1, <3>1, <3>2 DEF Flattened, FlatPlaces, m, n
  <2>3. a[1] \in Nat /\ a[2] \in Nat /\ b[1] \in Nat /\ b[2] \in Nat
    BY LessonPlace
  <2> QED  BY <2>2, <2>3 DEF Earlier
<1> QED  BY <1>1, <1>6, <1>7

\* Every place of a lesson in the order of units is that of one in the tree.
LEMMA LessonOfTree ==
    ASSUME NEW tree, NEW units, NEW at, Flattened(tree, units, at),
           NEW p \in Places(units)
    PROVE  \E a \in places(tree) : inOrder(at, a) = p
<1>1. PICK n \in DOMAIN units : p \in {n} \X DOMAIN units[n].lessons
  BY DEF Places
<1>2. p = <<n, p[2]>> /\ p[2] \in DOMAIN units[n].lessons
  BY <1>1
<1>3. PICK q \in Pairs(tree) : at[q] = n
  BY DEF Flattened, FlatPlaces
<1>4. PICK s \in DOMAIN tree : q \in {s} \X DOMAIN tree[s]
  BY DEF Pairs
<1>5. q = <<s, q[2]>> /\ q[2] \in DOMAIN tree[s]
  BY <1>4
<1>6. units[n] = tree[s][q[2]] /\ at[<<s, q[2]>>] = n
  BY <1>3, <1>5, UnitPlace
<1>7. <<s, q[2], p[2]>> \in places(tree)
  BY <1>2, <1>5, <1>6 DEF places
<1>8. inOrder(at, <<s, q[2], p[2]>>) = p
  BY <1>2, <1>6 DEF inOrder
<1> QED  BY <1>7, <1>8

\* Places of lessons, compared: earlier is a strict order of all of them.
placeBefore(b, a) ==
    \/ b[1] < a[1]
    \/ b[1] = a[1] /\ b[2] < a[2]
    \/ b[1] = a[1] /\ b[2] = a[2] /\ b[3] < a[3]

LEMMA LessonsFinite ==
    ASSUME NEW tree, NEW units, NEW at, Flattened(tree, units, at)
    PROVE  IsFiniteSet(places(tree))
<1> DEFINE f == [a \in places(tree) |-> inOrder(at, a)]
<1>1. f \in [places(tree) -> Places(units)]
  BY LessonInOrder
<1>2. ASSUME NEW a \in places(tree), NEW b \in places(tree), f[a] = f[b]
      PROVE  a = b
  <2>1. inOrder(at, a) = inOrder(at, b)
    BY <1>2
  <2>2. lessonAt(tree, a) = lessonAt(tree, b)
    <3> HIDE DEF f
    <3> QED  BY <2>1, LessonInOrder
  <2> QED  BY <2>2, LessonsApart
<1>3. f \in Injection(places(tree), Places(units))
  <2> HIDE DEF f
  <2> QED  BY <1>1, <1>2 DEF Injection, IsInjective
<1>4. IsFiniteSet(Places(units))
  BY FinitePlaces DEF Flattened
<1> QED  BY <1>3, <1>4, FS_Injection

\* The position shown for a lesson: a number, another one for each.
positionOf(tree, a) == 1 + Cardinality(earlier(tree, a))

LEMMA PositionsApart ==
    ASSUME NEW tree, NEW units, NEW at, Flattened(tree, units, at),
           NEW a \in places(tree)
    PROVE  /\ positionOf(tree, a) \in Nat /\ positionOf(tree, a) >= 1
           /\ positionOf(tree, a) <= 1 + Cardinality(places(tree))
           /\ Cardinality(places(tree)) \in Nat
           /\ \A b \in places(tree) : positionOf(tree, a) = positionOf(tree, b) => a = b
<1>1. IsFiniteSet(places(tree)) /\ Cardinality(places(tree)) \in Nat
  BY LessonsFinite, FS_CardinalityType
<1>2. ASSUME NEW b \in places(tree)
      PROVE  /\ IsFiniteSet(earlier(tree, b)) /\ Cardinality(earlier(tree, b)) \in Nat
             /\ Cardinality(earlier(tree, b)) <= Cardinality(places(tree))
  <2>1. earlier(tree, b) \in SUBSET places(tree)
    BY DEF earlier
  <2> QED  BY <1>1, <2>1, FS_Subset, FS_CardinalityType
<1>3. ASSUME NEW b \in places(tree), NEW c \in places(tree), placeBefore(b, c)
      PROVE  Cardinality(earlier(tree, b)) < Cardinality(earlier(tree, c))
  <2>0. /\ b[1] \in Nat /\ b[2] \in Nat /\ b[3] \in Nat
        /\ c[1] \in Nat /\ c[2] \in Nat /\ c[3] \in Nat
    BY LessonPlace
  <2>1. b \in earlier(tree, c) /\ b \notin earlier(tree, b)
    BY <1>3, <2>0 DEF earlier, placeBefore
  <2>2. ASSUME NEW d \in earlier(tree, b)
        PROVE  d \in earlier(tree, c)
    <3>1. d \in places(tree) /\ placeBefore(d, b)
      BY DEF earlier, placeBefore
    <3>2. d[1] \in Nat /\ d[2] \in Nat /\ d[3] \in Nat
      BY <3>1, LessonPlace
    <3>3. placeBefore(d, c)
      BY <3>1, <3>2, <2>0, <1>3 DEF placeBefore
    <3> QED  BY <3>1, <3>3 DEF earlier, placeBefore
  <2>3. earlier(tree, b) \in SUBSET earlier(tree, c) /\ earlier(tree, b) # earlier(tree, c)
    BY <2>1, <2>2
  <2>4. IsFiniteSet(earlier(tree, c))
    BY <1>2
  <2> QED  BY <2>3, <2>4, <1>2, FS_Subset
<1>4. ASSUME NEW b \in places(tree), a # b
      PROVE  placeBefore(a, b) \/ placeBefore(b, a)
  <2>1. /\ a = <<a[1], a[2], a[3]>> /\ b = <<b[1], b[2], b[3]>>
        /\ a[1] \in Nat /\ a[2] \in Nat /\ a[3] \in Nat
        /\ b[1] \in Nat /\ b[2] \in Nat /\ b[3] \in Nat
    BY LessonPlace
  <2>2. a[1] # b[1] \/ a[2] # b[2] \/ a[3] # b[3]
    BY <1>4, <2>1
  <2> QED  BY <2>1, <2>2 DEF placeBefore
<1>5. ASSUME NEW b \in places(tree), positionOf(tree, a) = positionOf(tree, b)
      PROVE  a = b
  <2>1. Cardinality(earlier(tree, a)) = Cardinality(earlier(tree, b))
    BY <1>2, <1>5 DEF positionOf
  <2> QED  BY <2>1, <1>2, <1>3, <1>4
<1> QED  BY <1>1, <1>2, <1>5 DEF positionOf

\* The lessons shown, each of one place.
entry(tree, a) ==
    [lessonId |-> lessonAt(tree, a), stage |-> a[1], position |-> positionOf(tree, a)]

LEMMA LessonsShown ==
    ASSUME NEW tree
    PROVE  flattenLessons(tree) = {entry(tree, a) : a \in places(tree)}
BY DEF flattenLessons, entry, lessonAt, positionOf

\* The statistics count as many lessons as the learner's page.
LEMMA CountedAlike ==
    ASSUME NEW tree, NEW units, NEW at, Flattened(tree, units, at), NEW a \in Learner
    PROVE  Cardinality(done(flattenLessons(tree), a.completedLessonIds))
               = Cardinality(lessonsDone(units, a))
<1> DEFINE shown == done(flattenLessons(tree), a.completedLessonIds)
           counted == lessonsDone(units, a)
           made == {b \in places(tree) : lessonAt(tree, b) \in a.completedLessonIds}
           f == [b \in made |-> entry(tree, b)]
           g == [b \in made |-> inOrder(at, b)]
<1>1. IsFiniteSet(made)
  BY LessonsFinite, FS_Subset
<1>2. f \in Bijection(made, shown)
  <2>1. shown = {entry(tree, b) : b \in made}
    <3>1. shown = {l \in {entry(tree, b) : b \in places(tree)} :
                      l.lessonId \in a.completedLessonIds}
      BY LessonsShown DEF done
    <3>2. \A b : entry(tree, b).lessonId = lessonAt(tree, b)
      BY DEF entry
    <3> QED  BY <3>1, <3>2
  <2>2. f \in [made -> shown]
    BY <2>1
  <2>3. ASSUME NEW b \in made, NEW c \in made, f[b] = f[c]
        PROVE  b = c
    <3>1. entry(tree, b).lessonId = entry(tree, c).lessonId
      BY <2>3
    <3>2. lessonAt(tree, b) = lessonAt(tree, c)
      BY <3>1 DEF entry
    <3> QED  BY <3>2, LessonsApart
  <2>4. \A l \in shown : \E b \in made : f[b] = l
    BY <2>1
  <2> HIDE DEF f, shown, made
  <2> QED  BY <2>2, <2>3, <2>4 DEF Bijection, Injection, Surjection, IsInjective
<1>3. g \in Bijection(made, counted)
  <2>1. ASSUME NEW p \in Places(units)
        PROVE  p \in counted <=> units[p[1]].lessons[p[2]] \in a.completedLessonIds
    BY DEF lessonsDone, lessonState
  <2>2. g \in [made -> counted]
    <3>1. \A b \in made : inOrder(at, b) \in counted
      <4> HIDE DEF counted
      <4> QED  BY <2>1, LessonInOrder
    <3> HIDE DEF counted, made
    <3> QED  BY <3>1
  <2>3. ASSUME NEW b \in made, NEW c \in made, g[b] = g[c]
        PROVE  b = c
    <3>1. inOrder(at, b) = inOrder(at, c)
      BY <2>3
    <3>2. lessonAt(tree, b) = lessonAt(tree, c)
      <4> HIDE DEF g
      <4> QED  BY <3>1, LessonInOrder
    <3> QED  BY <3>2, LessonsApart
  <2>4. ASSUME NEW p \in counted
        PROVE  \E b \in made : g[b] = p
    <3>1. p \in Places(units)
      BY DEF lessonsDone
    <3>2. PICK b \in places(tree) : inOrder(at, b) = p
      BY <3>1, LessonOfTree
    <3>3. lessonAt(tree, b) \in a.completedLessonIds
      <4> HIDE DEF counted
      <4> QED  BY <2>1, <3>1, <3>2, LessonInOrder
    <3> QED  BY <3>2, <3>3
  <2> HIDE DEF g, counted, made
  <2> QED  BY <2>2, <2>3, <2>4 DEF Bijection, Injection, Surjection, IsInjective
<1> HIDE DEF f, g, shown, counted, made
<1>4. Cardinality(shown) = Cardinality(made) /\ Cardinality(counted) = Cardinality(made)
  BY <1>1, <1>2, <1>3, FS_Bijection DEF ExistsBijection
<1> QED  BY <1>4 DEF shown, counted

\* The lesson done last, by position, is one of those done.
LEMMA LastOfDone ==
    ASSUME NEW tree, NEW units, NEW at, Flattened(tree, units, at), NEW completed,
           done(flattenLessons(tree), completed) # {}
    PROVE  \E l \in done(flattenLessons(tree), completed) :
               /\ \A m \in done(flattenLessons(tree), completed) : m.position <= l.position
               /\ lastOf(done(flattenLessons(tree), completed)) = l
               /\ Max({0} \union {m.position : m \in
                              done(flattenLessons(tree), completed)}) = l.position
               /\ l.position # 0
               /\ (CHOOSE m \in flattenLessons(tree) : m.position = l.position) = l
<1> DEFINE shown == flattenLessons(tree)
           last == done(shown, completed)
           positions == {m.position : m \in last}
<1>1. /\ last \in SUBSET shown
      /\ \A l \in shown : \E a \in places(tree) : l = entry(tree, a)
  BY LessonsShown DEF done
<1>2. ASSUME NEW l \in shown, NEW m \in shown
      PROVE  /\ l.position \in Nat /\ l.position >= 1
             /\ Cardinality(places(tree)) \in Nat
             /\ l.position <= 1 + Cardinality(places(tree))
             /\ l.position = m.position => l = m
  <2>1. PICK a \in places(tree) : l = entry(tree, a)
    BY <1>1
  <2>2. PICK b \in places(tree) : m = entry(tree, b)
    BY <1>1
  <2>3. l.position = positionOf(tree, a) /\ m.position = positionOf(tree, b)
    BY <2>1, <2>2 DEF entry
  <2> HIDE DEF shown
  <2> QED  BY <2>1, <2>2, <2>3, PositionsApart
<1>0. last # {}
  OBVIOUS
<1> HIDE DEF shown
<1>3. PICK l \in last : \A m \in last : m.position <= l.position
  <2>1. PICK any \in last : TRUE
    BY <1>0
  <2>2. Cardinality(places(tree)) \in Nat
    BY <2>1, <1>1, <1>2
  <2>3. positions \in SUBSET Nat /\ positions # {}
    BY <2>1, <1>1, <1>2
  <2>4. \A n \in positions : n <= 1 + Cardinality(places(tree))
    BY <1>1, <1>2
  <2>5. 1 + Cardinality(places(tree)) \in Nat
    BY <2>2
  <2>6. \E greatest \in positions : \A n \in positions : n <= greatest
    <3> HIDE DEF positions
    <3> QED  BY <2>3, <2>4, <2>5, GreatestNatural
  <2> QED  BY <2>6
<1>4. \A m \in last : m.position \in Nat /\ m.position >= 1
  BY <1>1, <1>2
<1>5. lastOf(last) = l
  <2>1. lastOf(last) \in last /\ \A m \in last : m.position <= lastOf(last).position
    BY <1>3 DEF lastOf
  <2>2. lastOf(last).position = l.position
    <3>1. \A x, y \in Nat : x <= y /\ y <= x => x = y
      OBVIOUS
    <3> HIDE DEF last
    <3> QED  BY <2>1, <1>3, <1>4, <3>1
  <2> HIDE DEF last
  <2> QED  BY <2>1, <2>2, <1>1, <1>2
<1>6. Max({0} \union positions) = l.position
  <2> DEFINE all == {0} \union positions
  <2>1. l.position \in all /\ \A n \in all : n \in Nat /\ l.position >= n
    BY <1>3, <1>4
  <2>2. \A n \in all : (\A k \in all : n >= k) => n = l.position
    <3> HIDE DEF all
    <3> QED  BY <2>1
  <2> HIDE DEF all
  <2>3. Max(all) = l.position
    BY <2>1, <2>2 DEF Max
  <2> QED  BY <2>3 DEF all
<1>7. (CHOOSE m \in shown : m.position = l.position) = l
  <2>1. l \in shown
    BY <1>1
  <2> QED  BY <2>1, <1>2
<1>8. l.position # 0
  BY <1>4
<1> QED  BY <1>3, <1>5, <1>6, <1>7, <1>8 DEF shown

\* A unit the learner starts from is open.
LEMMA StartIsOpen ==
    ASSUME NEW units \in Seq(Unit), NEW a \in Learner, a.enrolled,
           NEW i \in Nat, i <= startIndex(units, a)
    PROVE  unitState(units, i, a) # "locked"
BY DEF unitState, open

\* The stage shown is one the learner has reached.
LEMMA StageReached ==
    ASSUME NEW tree, NEW units, NEW at, Flattened(tree, units, at),
           NEW a \in Learner, a.enrolled, None \notin Nat
    PROVE  LET completed == a.completedLessonIds
               stage == reachedStage(tree, flattenLessons(tree), completed, a.startUnitId)
           IN  /\ statsStage(tree, a) = stage
               /\ stage # None => \/ ReachedBy(tree, units, stage, a)
                                  \/ stage = 1 /\ tree[1] = <<>>
               /\ stage = None => findUnit(units, a.startUnitId) = 0
<1> DEFINE shown == flattenLessons(tree)
           last == done(shown, a.completedLessonIds)
           stage == reachedStage(tree, shown, a.completedLessonIds, a.startUnitId)
<1>0. units \in Seq(Unit) /\ tree \in Seq(Seq(Unit))
  BY DEF Flattened
<1>1. CASE last # {}
  <2>1. PICK l \in last :
            /\ lastOf(last) = l
            /\ Max({0} \union {m.position : m \in last}) = l.position
            /\ l.position # 0
            /\ (CHOOSE m \in shown : m.position = l.position) = l
    BY <1>1, LastOfDone
  <2>2. stage = l.stage
    BY <1>1, <2>1 DEF reachedStage
  <2>3. statsStage(tree, a) = l.stage
    BY <2>1 DEF statsStage, furthest
  <2>4. PICK b \in places(tree) : l = entry(tree, b)
    BY LessonsShown DEF done
  <2>5. l.stage = b[1] /\ l.lessonId = lessonAt(tree, b)
    BY <2>4 DEF entry
  <2>6. l.lessonId \in a.completedLessonIds
    BY DEF done
  <2>7. /\ b[1] \in DOMAIN tree /\ b[2] \in DOMAIN tree[b[1]] /\ b[1] \in Nat
        /\ b[3] \in DOMAIN tree[b[1]][b[2]].lessons
    BY LessonPlace
  <2>8. lessonAt(tree, b) \in ToSet(tree[b[1]][b[2]].lessons)
    BY <2>7 DEF lessonAt, ToSet
  <2>9. ReachedBy(tree, units, b[1], a)
    BY <2>5, <2>6, <2>7, <2>8 DEF ReachedBy
  <2>10. b[1] # None
    BY <2>7
  <2> QED  BY <2>2, <2>3, <2>5, <2>9, <2>10
<1>2. CASE last = {}
  <2> DEFINE starts == {s \in DOMAIN tree : a.startUnitId \in UnitIds(tree[s])}
  <2>1. stage = IF a.startUnitId = None THEN IF tree = <<>> THEN None ELSE 1
                ELSE IF starts = {} THEN None ELSE Min(starts)
    BY <1>2 DEF reachedStage
  <2>2. statsStage(tree, a) = stage
    <3>1. done(shown, {}) = {}
      BY DEF done
    <3>2. {m.position : m \in last} = {}
      BY <1>2
    <3>3. Max({0} \union {m.position : m \in last}) = 0
      <4>1. {0} \union {m.position : m \in last} = {0}
        BY <3>2
      <4>2. Max({0}) = 0
        BY DEF Max
      <4> QED  BY <4>1, <4>2
    <3>4. statsStage(tree, a) = reachedStage(tree, shown, {}, a.startUnitId)
      BY <3>3 DEF statsStage, furthest
    <3> QED  BY <3>1, <3>4, <1>2 DEF reachedStage
  <2>3. CASE a.startUnitId = None /\ tree = <<>>
    <3>1. units = <<>>
      <4>1. Pairs(tree) = {}
        BY <2>3 DEF Pairs
      <4>2. DOMAIN units = {}
        BY <4>1 DEF Flattened, FlatPlaces
      <4> QED  BY <4>2, <1>0
    <3>2. findUnit(units, a.startUnitId) \in 0 .. Len(units)
      BY <1>0, FindUnitType
    <3>3. findUnit(units, a.startUnitId) = 0
      BY <3>1, <3>2
    <3>4. stage = None
      BY <2>1, <2>3
    <3> QED  BY <3>3, <3>4, <2>2
  <2>4. CASE a.startUnitId = None /\ tree # <<>>
    <3>1. stage = 1 /\ 1 # None /\ 1 \in DOMAIN tree
      BY <2>1, <2>4, <1>0
    <3>2. ASSUME tree[1] # <<>>
          PROVE  ReachedBy(tree, units, 1, a)
      <4>1. 1 \in DOMAIN tree[1]
        <5>1. tree[1] \in Seq(Unit)
          BY <1>0, <3>1
        <5> QED  BY <5>1, <3>2
      <4>2. at[<<1, 1>>] \in DOMAIN units /\ units[at[<<1, 1>>]] = tree[1][1]
        BY <3>1, <4>1, UnitPlace
      <4>3. tree[1][1].id \in UnitIds(units)
        BY <4>2 DEF UnitIds
      <4> DEFINE n == findUnit(units, tree[1][1].id)
      <4>4. n \in DOMAIN units /\ units[n].id = tree[1][1].id
        BY <4>3, <1>0, FindUnitType
      <4>5. n = at[<<1, 1>>]
        BY <4>2, <4>4 DEF Flattened, onePlaceEach
      <4>6. at[<<1, 1>>] <= 1
        <5>1. 1 \in DOMAIN units
          BY <4>2, <1>0
        <5>2. PICK q \in Pairs(tree) : at[q] = 1
          BY <5>1 DEF Flattened, FlatPlaces
        <5>3. q = <<q[1], q[2]>> /\ q[1] \in 1 .. Len(tree) /\ q[2] \in 1 .. Len(tree[q[1]])
              /\ q[1] \in Nat /\ q[2] \in Nat /\ q[1] >= 1 /\ q[2] >= 1
          BY <1>0, PairsAre
        <5>4. CASE q = <<1, 1>>
          BY <5>2, <5>4
        <5>5. CASE q # <<1, 1>>
          <6>1. Earlier(<<1, 1>>, q)
            BY <5>3, <5>5 DEF Earlier
          <6>2. <<1, 1>> \in Pairs(tree) /\ <<1, 1>>[1] <= Len(tree) /\ q[1] <= Len(tree)
            BY <3>1, <4>1, <5>3, <1>0, PairsMake
          <6>3. at[<<1, 1>>] < at[q]
            BY <6>1, <6>2 DEF Flattened, FlatPlaces
          <6>4. at[<<1, 1>>] \in Nat
            BY <4>2, <1>0
          <6> QED  BY <6>3, <6>4, <5>2
        <5> QED  BY <5>4, <5>5
      <4>7. n \in Nat /\ n <= startIndex(units, a)
        <5>1. startIndex(units, a) \in Nat /\ startIndex(units, a) >= 1
          BY <1>0, StartIndexType
        <5>2. n \in Nat
          BY <4>4, <1>0
        <5> HIDE DEF n
        <5> QED  BY <5>1, <5>2, <4>5, <4>6
      <4>8. unitState(units, n, a) # "locked"
        <5> HIDE DEF n
        <5> QED  BY <4>7, <1>0, StartIsOpen
      <4> QED  BY <4>1, <4>8 DEF ReachedBy
    <3> QED  BY <3>1, <3>2, <2>2
  <2>5. CASE a.startUnitId # None /\ starts = {}
    <3>1. stage = None
      BY <2>1, <2>5
    <3>2. findUnit(units, a.startUnitId) = 0
      <4> SUFFICES ASSUME findUnit(units, a.startUnitId) # 0
                   PROVE  FALSE
        OBVIOUS
      <4> DEFINE n == findUnit(units, a.startUnitId)
      <4>1. n \in DOMAIN units /\ units[n].id = a.startUnitId
        BY <1>0, FindUnitType
      <4> HIDE DEF n
      <4>2. PICK q \in Pairs(tree) : at[q] = n
        BY <4>1 DEF Flattened, FlatPlaces
      <4>3. q = <<q[1], q[2]>> /\ q[1] \in DOMAIN tree /\ q[2] \in DOMAIN tree[q[1]]
        BY <1>0, PairsAre
      <4>4. units[n] = tree[q[1]][q[2]]
        BY <4>2, <4>3, UnitPlace
      <4>5. q[1] \in starts
        BY <4>1, <4>3, <4>4 DEF UnitIds
      <4> QED  BY <4>5, <2>5
    <3> QED  BY <3>1, <3>2, <2>2
  <2>6. CASE a.startUnitId # None /\ starts # {}
    <3>1. stage = Min(starts)
      BY <2>1, <2>6
    <3>2. Min(starts) \in starts
      <4>1. starts \in SUBSET Nat
        BY <1>0
      <4>2. \E least \in starts : \A n \in starts : least <= n
        <5> HIDE DEF starts
        <5> QED  BY <4>1, <2>6, LeastNatural
      <4> HIDE DEF starts
      <4> QED  BY <4>2 DEF Min
    <3> DEFINE s == Min(starts)
               n == findUnit(units, a.startUnitId)
    <3>3. s \in DOMAIN tree /\ a.startUnitId \in UnitIds(tree[s])
      BY <3>2
    <3> HIDE DEF s, starts
    <3>4. PICK i \in DOMAIN tree[s] : tree[s][i].id = a.startUnitId
      BY <3>3 DEF UnitIds
    <3>5. at[<<s, i>>] \in DOMAIN units /\ units[at[<<s, i>>]] = tree[s][i] /\ s \in Nat
      BY <3>3, UnitPlace
    <3>6. a.startUnitId \in UnitIds(units)
      BY <3>4, <3>5 DEF UnitIds
    <3>7. n \in DOMAIN units /\ n \in Nat /\ n >= 1
      BY <3>6, <1>0, FindUnitType
    <3>8. n <= startIndex(units, a)
      BY <3>7 DEF startIndex, Later
    <3>9. unitState(units, n, a) # "locked"
      <4> HIDE DEF n
      <4> QED  BY <3>7, <3>8, <1>0, StartIsOpen
    <3>10. ReachedBy(tree, units, s, a)
      BY <3>4, <3>9 DEF ReachedBy
    <3>11. s # None
      BY <3>5
    <3> QED  BY <3>1, <3>10, <3>11, <2>2 DEF s
  <2> QED  BY <2>3, <2>4, <2>5, <2>6
<1> QED  BY <1>1, <1>2

\* Admins are told the same of a learner on both pages, and it is what the
\* learner sees.
THEOREM AdminsSeeTheSameHolds == Spec => []AdminsSeeTheSame
<1>1. TypeOK => AdminsSeeTheSame
  <2> SUFFICES ASSUME TypeOK, learner.enrolled, NEW r \in Releases
               PROVE  LET stage == statsStage(Tree[r], learner)
                          page == learnerProgress(Tree[r], learner)
                      IN  /\ page.stage = stage
                          /\ page.lessonsDone =
                                 pathTotals(Tree[r], Units[r], learner).lessonsCompleted
                          /\ stage # None =>
                                \/ ReachedBy(Tree[r], Units[r], stage, learner)
                                \/ stage = 1 /\ Tree[r][1] = <<>>
                          /\ stage = None => findUnit(Units[r], learner.startUnitId) = 0
    BY DEF AdminsSeeTheSame
  <2>1. PICK at : Flattened(Tree[r], Units[r], at)
    BY TreeIsFlattened
  <2>2. learner \in Learner
    BY DEF TypeOK
  <2> DEFINE stage == reachedStage(Tree[r], flattenLessons(Tree[r]),
                                   learner.completedLessonIds, learner.startUnitId)
  <2>3. /\ statsStage(Tree[r], learner) = stage
        /\ stage # None => \/ ReachedBy(Tree[r], Units[r], stage, learner)
                           \/ stage = 1 /\ Tree[r][1] = <<>>
        /\ stage = None => findUnit(Units[r], learner.startUnitId) = 0
    BY <2>1, <2>2, StageReached, StageAssumption
  <2>4. learnerProgress(Tree[r], learner).stage = stage
    BY DEF learnerProgress
  <2>5. learnerProgress(Tree[r], learner).lessonsDone =
            pathTotals(Tree[r], Units[r], learner).lessonsCompleted
    <3>1. learnerProgress(Tree[r], learner).lessonsDone =
              Cardinality(done(flattenLessons(Tree[r]), learner.completedLessonIds))
      BY DEF learnerProgress
    <3>2. pathTotals(Tree[r], Units[r], learner).lessonsCompleted =
              Cardinality(lessonsDone(Units[r], learner))
      BY PathTotalsAre
    <3> QED  BY <3>1, <3>2, <2>1, <2>2, CountedAlike
  <2> HIDE DEF stage
  <2> QED  BY <2>3, <2>4, <2>5
<1> QED  BY <1>1, TypeCorrect, PTL
=============================================================================
