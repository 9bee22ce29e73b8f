---------------------------- MODULE UnlockingProofs ----------------------------
(***************************************************************************)
(* Lemmas about unlocking that hold for every tree: computeProgress is     *)
(* monotone in the learner's rows, a placement moves forward, and an open  *)
(* unit always has something to do.                                        *)
(***************************************************************************)
EXTENDS PathTree, SequenceProofs

-----------------------------------------------------------------------------
(* Positions.                                                               *)

\* A non-empty set of positions of a sequence has a first one.
LEMMA FirstPosition ==
    ASSUME NEW n \in Nat, NEW T, T \subseteq 1 .. n, T # {}
    PROVE  \E x \in T : \A y \in T : x <= y
BY LeastNatural

\* findUnit is a position of the tree that holds the unit, or 0 when none does.
LEMMA FindUnitType ==
    ASSUME NEW units \in Seq(Unit), NEW unitId
    PROVE  /\ findUnit(units, unitId) \in 0 .. Len(units)
           /\ findUnit(units, unitId) # 0 =>
                 units[findUnit(units, unitId)].id = unitId
           /\ findUnit(units, unitId) = 0 => unitId \notin UnitIds(units)
<1> DEFINE I == {i \in 1 .. Len(units) : units[i].id = unitId}
<1>1. findUnit(units, unitId) = IF I # {} THEN Min(I) ELSE 0
  BY DEF findUnit, SelectInSeq
<1>2. ASSUME I # {}
      PROVE  Min(I) \in I
  <2>1. Len(units) \in Nat /\ I \subseteq 1 .. Len(units)
    OBVIOUS
  <2>2. \E x \in I : \A y \in I : x <= y
    <3> HIDE DEF I
    <3> QED  BY <1>2, <2>1, FirstPosition
  <2> QED  BY <2>2 DEF Min
<1> QED  BY <1>1, <1>2 DEF UnitIds

LEMMA StartIndexType ==
    ASSUME NEW units \in Seq(Unit), NEW a
    PROVE  startIndex(units, a) \in Nat /\ startIndex(units, a) >= 1
BY FindUnitType DEF startIndex, Later

-----------------------------------------------------------------------------
(* Unlocking is monotone.                                                   *)

LEMMA ClearedMonotone ==
    ASSUME NEW units \in Seq(Unit), NEW a \in Learner, NEW b \in Learner,
           NoFurther(units, a, b), NEW i \in DOMAIN units,
           cleared(units, i, a)
    PROVE  cleared(units, i, b)
<1>1. startIndex(units, a) \in Nat /\ startIndex(units, b) \in Nat
  BY StartIndexType
<1>2. CASE i < startIndex(units, a)
  BY <1>1, <1>2 DEF NoFurther, cleared
<1>3. CASE units[i].id \in a.skippedUnitIds
  BY <1>3 DEF NoFurther, cleared
<1>4. CASE passed(units[i], a)
  BY <1>4 DEF NoFurther, cleared, passed
<1>5. CASE units[i].checkpointId = None /\ allDone(units[i], a)
  BY <1>5 DEF NoFurther, cleared, allDone
<1> QED  BY <1>2, <1>3, <1>4, <1>5 DEF cleared

LEMMA OpenMonotone ==
    ASSUME NEW units \in Seq(Unit), NEW a \in Learner, NEW b \in Learner,
           NoFurther(units, a, b), NEW i \in DOMAIN units,
           open(units, i, a)
    PROVE  open(units, i, b)
<1>1. startIndex(units, a) \in Nat /\ startIndex(units, b) \in Nat
  BY StartIndexType
<1>2. CASE i <= startIndex(units, a)
  BY <1>1, <1>2 DEF NoFurther, open
<1>3. CASE cleared(units, i - 1, a) /\ i > startIndex(units, a)
  <2>1. i - 1 \in DOMAIN units
    BY <1>1, <1>3, StartIndexType
  <2> QED  BY <1>3, <2>1, ClearedMonotone DEF open, NoFurther
<1>4. CASE cleared(units, i, a)
  BY <1>4, ClearedMonotone DEF open, NoFurther
<1> QED  BY <1>1, <1>2, <1>3, <1>4 DEF open

\* Whoever is further along a path has everything unlocked that a learner less
\* far has (computeProgress is monotone in the learner's rows): a view of the
\* learner that is out of date can only be too strict.
THEOREM UnlockingMonotone ==
    ASSUME NEW units \in Seq(Unit), NEW a \in Learner, NEW b \in Learner,
           NoFurther(units, a, b)
    PROVE  UnlocksNoLess(units, a, b)
<1> SUFFICES ASSUME NEW i \in DOMAIN units
             PROVE  /\ Level(unitState(units, i, a)) <= Level(unitState(units, i, b))
                    /\ Level(checkpointState(units, i, a))
                          <= Level(checkpointState(units, i, b))
                    /\ \A k \in DOMAIN units[i].lessons :
                          Level(lessonState(units, i, k, a))
                              <= Level(lessonState(units, i, k, b))
  BY DEF UnlocksNoLess
<1>1. cleared(units, i, a) => cleared(units, i, b)
  BY ClearedMonotone
<1>2. open(units, i, a) => open(units, i, b)
  BY OpenMonotone
<1>3. passed(units[i], a) => passed(units[i], b)
  BY DEF passed, NoFurther
<1>4. allDone(units[i], a) => allDone(units[i], b)
  BY DEF allDone, NoFurther
<1>5. Level(unitState(units, i, a)) <= Level(unitState(units, i, b))
  BY <1>1, <1>2 DEF unitState, Level
<1>6. Level(checkpointState(units, i, a)) <= Level(checkpointState(units, i, b))
  BY <1>1, <1>2, <1>3, <1>4 DEF checkpointState, Level
<1>7. ASSUME NEW k \in DOMAIN units[i].lessons
      PROVE  Level(lessonState(units, i, k, a)) <= Level(lessonState(units, i, k, b))
  <2>1. \A j : units[i].lessons[j] \in a.completedLessonIds =>
                  units[i].lessons[j] \in b.completedLessonIds
    BY DEF NoFurther
  <2> QED  BY <1>1, <1>2, <2>1 DEF lessonState, Level
<1> QED  BY <1>5, <1>6, <1>7

-----------------------------------------------------------------------------
(* The parts of a tree.                                                     *)

LEMMA TreeType ==
    ASSUME NEW r \in Releases
    PROVE  Tree[r] \in Seq(Seq(Unit))
BY PathAssumption DEF TreesWellFormed

\* The units of a tree, in order, are units.
LEMMA UnitsType ==
    ASSUME NEW r \in Releases
    PROVE  Units[r] \in Seq(Unit)
BY TreeType, FlattenPlaces DEF Units, unitsInOrder

\* A unit's record, part by part.
LEMMA UnitParts ==
    ASSUME NEW units \in Seq(Unit), NEW i \in DOMAIN units
    PROVE  /\ units[i].id \in UnitId
           /\ units[i].lessons \in Seq(LessonId)
           /\ units[i].checkpointId \in CheckpointId \union {None}
<1>1. units[i] \in Unit
  OBVIOUS
<1> QED  BY <1>1 DEF Unit

LEMMA PlacementType ==
    ASSUME NEW units \in Seq(Unit), NEW p \in placedPositions(units),
           NEW current \in UnitId \union {None}
    PROVE  /\ laterStart(units, current, placedUnit(units, p))
                 \in UnitId \union {None}
           /\ skippedUnits(units, p) \in SUBSET UnitId
<1>1. p \in Nat /\ (p > 1 => p \in DOMAIN units)
  BY DEF placedPositions, Later
<1>2. placedUnit(units, p) \in UnitId \union {None}
  BY <1>1, UnitParts DEF placedUnit
<1>3. \A i \in 1 .. p - 1 : i \in DOMAIN units
  BY <1>1
<1> QED  BY <1>2, <1>3, UnitParts DEF laterStart, skippedUnits

-----------------------------------------------------------------------------
(* A placement: the later of two start units.                               *)

\* Taking the later start moves the start position to the later of the two.
LEMMA LaterStartIndex ==
    ASSUME NEW r \in Releases, NEW p \in placedPositions(Units[r]),
           NEW a \in Learner, NEW b \in Learner,
           b.startUnitId =
               laterStart(Units[r], a.startUnitId, placedUnit(Units[r], p))
    PROVE  /\ startIndex(Units[r], b) >= startIndex(Units[r], a)
           /\ startIndex(Units[r], b) >= p
<1> DEFINE units == Units[r]
           old == a.startUnitId
           placed == placedUnit(units, p)
<1>1. units \in Seq(Unit)
  BY UnitsType
<1>2. /\ findUnit(units, old) \in Nat
      /\ findUnit(units, placed) \in Nat
  BY <1>1, FindUnitType
<1>3. p > 1 => findUnit(units, placed) = p
  <2> SUFFICES ASSUME p > 1
               PROVE  findUnit(units, placed) = p
    OBVIOUS
  <2>0. p \in DOMAIN units
    BY <1>1 DEF placedPositions, Later
  <2>1. placed = units[p].id /\ placed \in UnitIds(units)
    BY <2>0 DEF placedUnit, UnitIds
  <2>2. findUnit(units, placed) \in DOMAIN units
        /\ units[findUnit(units, placed)].id = units[p].id
    BY <1>1, <2>1, FindUnitType
  <2> QED  BY <2>0, <2>2, PathAssumption DEF TreesWellFormed, onePlaceEach
<1>4. p \in Nat
  BY <1>1 DEF placedPositions, Later
<1> QED  BY <1>2, <1>3, <1>4 DEF startIndex, Later, laterStart, rank

\* The units a placement skips are those before the placed one.
LEMMA SkippedPosition ==
    ASSUME NEW r \in Releases, NEW p \in placedPositions(Units[r]),
           NEW i \in DOMAIN Units[r],
           Units[r][i].id \in skippedUnits(Units[r], p)
    PROVE  i < p
<1>1. Units[r] \in Seq(Unit) /\ p \in Nat /\ (p > 1 => p \in DOMAIN Units[r])
  BY UnitsType DEF placedPositions, Later
<1>2. PICK j \in 1 .. p - 1 : Units[r][i].id = Units[r][j].id
  BY DEF skippedUnits
<1>3. j \in DOMAIN Units[r] /\ i \in Nat
  BY <1>1
<1>4. i = j
  BY <1>2, <1>3, PathAssumption DEF TreesWellFormed, onePlaceEach
<1> QED  BY <1>1, <1>2, <1>4

\* A learner placed again is no less far, provided the units skipped before
\* are before the start unit; and they are again.
LEMMA PlacedFurther ==
    ASSUME NEW r \in Releases, NEW p \in placedPositions(Units[r]),
           NEW a \in Learner, NEW b \in Learner, b.enrolled,
           b.startUnitId =
               laterStart(Units[r], a.startUnitId, placedUnit(Units[r], p)),
           b.completedLessonIds = a.completedLessonIds,
           b.passedCheckpointIds = a.passedCheckpointIds,
           b.skippedUnitIds = skippedUnits(Units[r], p),
           SkippedBehindStart(Units[r], a)
    PROVE  /\ NoFurther(Units[r], a, b)
           /\ SkippedBehindStart(Units[r], b)
<1>1. /\ Units[r] \in Seq(Unit)
      /\ p \in Nat
      /\ startIndex(Units[r], a) \in Nat
      /\ startIndex(Units[r], b) \in Nat
  BY UnitsType, StartIndexType DEF placedPositions, Later
<1>2. /\ startIndex(Units[r], b) >= startIndex(Units[r], a)
      /\ startIndex(Units[r], b) >= p
  BY LaterStartIndex
<1>3. NoFurther(Units[r], a, b)
  BY <1>1, <1>2 DEF NoFurther, SkippedBehindStart
<1>4. SkippedBehindStart(Units[r], b)
  BY <1>1, <1>2, SkippedPosition DEF SkippedBehindStart
<1> QED  BY <1>3, <1>4

\* Being no further along is transitive.
LEMMA NoFurtherTransitive ==
    ASSUME NEW units \in Seq(Unit), NEW a, NEW b, NEW c,
           NoFurther(units, a, b), NoFurther(units, b, c)
    PROVE  NoFurther(units, a, c)
<1>1. /\ startIndex(units, a) \in Nat
      /\ startIndex(units, b) \in Nat
      /\ startIndex(units, c) \in Nat
  BY StartIndexType
<1> QED  BY <1>1 DEF NoFurther

\* More done from the same start takes nobody back.
LEMMA GrownFurther ==
    ASSUME NEW units \in Seq(Unit), NEW a \in Learner, NEW b \in Learner,
           a.enrolled => b.enrolled,
           b.startUnitId = a.startUnitId,
           a.completedLessonIds \subseteq b.completedLessonIds,
           a.passedCheckpointIds \subseteq b.passedCheckpointIds,
           b.skippedUnitIds = a.skippedUnitIds
    PROVE  NoFurther(units, a, b)
<1>1. startIndex(units, a) \in Nat /\ startIndex(units, b) = startIndex(units, a)
  BY StartIndexType DEF startIndex
<1> QED  BY <1>1 DEF NoFurther

\* Nobody is behind a learner without rows.
LEMMA BlankBehindAll ==
    ASSUME NEW units \in Seq(Unit), NEW b
    PROVE  NoFurther(units, Blank, b)
<1>1. findUnit(units, None) = 0
  <2> SUFFICES ASSUME findUnit(units, None) # 0
               PROVE  FALSE
    OBVIOUS
  <2>1. findUnit(units, None) \in DOMAIN units /\ units[findUnit(units, None)].id = None
    BY FindUnitType
  <2> QED  BY <2>1, UnitParts, PathAssumption
<1>2. startIndex(units, Blank) = 1
  BY <1>1 DEF startIndex, Later, Blank
<1>3. startIndex(units, b) \in Nat /\ startIndex(units, b) >= 1
  BY StartIndexType
<1> QED  BY <1>2, <1>3 DEF NoFurther, Blank

-----------------------------------------------------------------------------
(* Totals.                                                                  *)

LEMMA FinitePlaces ==
    ASSUME NEW units \in Seq(Unit)
    PROVE  IsFiniteSet(Places(units))
<1> DEFINE row == [i \in DOMAIN units |-> {i} \X DOMAIN units[i].lessons]
           S == {row[i] : i \in DOMAIN units}
<1>1. IsFiniteSet(S)
  <2>0. Len(units) \in Nat /\ DOMAIN units = 1 .. Len(units)
    OBVIOUS
  <2>1. row \in Seq(S) /\ Len(row) = Len(units)
    BY <2>0
  <2>2. \A T \in S : \E n \in 1 .. Len(row) : row[n] = T
    BY <2>0, <2>1
  <2> QED  BY <2>1, <2>2 DEF IsFiniteSet
<1>2. ASSUME NEW i \in DOMAIN units
      PROVE  IsFiniteSet(row[i])
  <2>1. units[i].lessons \in Seq(LessonId)
    BY UnitParts
  <2>2. IsFiniteSet(DOMAIN units[i].lessons)
    <3>1. PICK n \in Nat : DOMAIN units[i].lessons = 1 .. n
      BY <2>1
    <3>2. IsFiniteSet(1 .. n)
      BY FS_Interval
    <3> QED  BY <3>1, <3>2
  <2>3. IsFiniteSet({i})
    BY FS_Singleton
  <2>4. IsFiniteSet({i} \X DOMAIN units[i].lessons)
    BY <2>2, <2>3, FS_Product
  <2> QED  BY <2>4
<1>3. IsFiniteSet(UNION S)
  <2>1. \A T \in S : IsFiniteSet(T)
    BY <1>2
  <2> HIDE DEF S
  <2> QED  BY <1>1, <2>1, FS_UNION
<1> QED  BY <1>3 DEF Places

\* Counting the lessons done, the units earned and the stages finished over a
\* part of what they are counted over gives a natural number, and no more.
LEMMA CountMonotone ==
    ASSUME NEW S, NEW T, IsFiniteSet(T), S \subseteq T
    PROVE  /\ Cardinality(S) \in Nat
           /\ Cardinality(T) \in Nat
           /\ Cardinality(S) <= Cardinality(T)
BY FS_Subset, FS_CardinalityType

\* The sets pathTotals counts, by name.
lessonsDone(units, a) ==
    {p \in Places(units) : lessonState(units, p[1], p[2], a) = "completed"}
known(units, stage) == {findUnit(units, stage[k].id) : k \in DOMAIN stage} \ {0}
earnedIn(units, stage, a) == {i \in known(units, stage) : earned(units, i, a)}
finished(units, stage, a) ==
    /\ earnedIn(units, stage, a) # {}
    /\ Cardinality(known(units, stage)) = Len(stage)
    /\ \A i \in known(units, stage) : unitState(units, i, a) = "completed"
unitsEarned(tree, units, a) ==
    UNION {earnedIn(units, tree[s], a) : s \in DOMAIN tree}
stagesFinished(tree, units, a) == {s \in DOMAIN tree : finished(units, tree[s], a)}

LEMMA PathTotalsAre ==
    ASSUME NEW tree, NEW units, NEW a
    PROVE  pathTotals(tree, units, a) =
               [lessonsCompleted |-> Cardinality(lessonsDone(units, a)),
                unitsCompleted |-> Cardinality(unitsEarned(tree, units, a)),
                stagesCompleted |-> Cardinality(stagesFinished(tree, units, a))]
BY DEF pathTotals, lessonsDone, unitsEarned, stagesFinished, finished, earnedIn, known

LEMMA KnownPositions ==
    ASSUME NEW units \in Seq(Unit), NEW stage
    PROVE  known(units, stage) \subseteq DOMAIN units
BY FindUnitType DEF known

\* The sets counted are finite.
LEMMA CountedFinite ==
    ASSUME NEW tree \in Seq(Seq(Unit)), NEW units \in Seq(Unit), NEW a
    PROVE  /\ IsFiniteSet(lessonsDone(units, a))
           /\ IsFiniteSet(unitsEarned(tree, units, a))
           /\ IsFiniteSet(stagesFinished(tree, units, a))
<1>1. IsFiniteSet(lessonsDone(units, a))
  BY FinitePlaces, FS_Subset DEF lessonsDone
<1>2. unitsEarned(tree, units, a) \subseteq DOMAIN units
  BY KnownPositions DEF unitsEarned, earnedIn
<1>3. IsFiniteSet(DOMAIN units) /\ IsFiniteSet(DOMAIN tree)
  BY FS_Interval
<1>4. stagesFinished(tree, units, a) \subseteq DOMAIN tree
  BY DEF stagesFinished
<1> QED  BY <1>1, <1>2, <1>3, <1>4, FS_Subset

LEMMA EarnedMonotone ==
    ASSUME NEW units \in Seq(Unit), NEW a \in Learner, NEW b \in Learner,
           NoFurther(units, a, b), NEW stage
    PROVE  /\ earnedIn(units, stage, a) \subseteq earnedIn(units, stage, b)
           /\ finished(units, stage, a) => finished(units, stage, b)
<1>1. \A i : earned(units, i, a) => earned(units, i, b)
  BY DEF earned, passed, allDone, NoFurther
<1>2. \A i \in known(units, stage) :
          unitState(units, i, a) = "completed" => unitState(units, i, b) = "completed"
  BY KnownPositions, ClearedMonotone DEF unitState
<1> QED  BY <1>1, <1>2 DEF earnedIn, finished

\* Whoever is further along has no smaller totals, by whichever tree they are
\* grouped: what was once reported to learning-service stays true.
LEMMA TotalsMonotone ==
    ASSUME NEW tree \in Seq(Seq(Unit)), NEW units \in Seq(Unit),
           NEW a \in Learner, NEW b \in Learner, NoFurther(units, a, b)
    PROVE  LET before == pathTotals(tree, units, a)
               after == pathTotals(tree, units, b)
           IN  /\ DOMAIN before = DOMAIN after
               /\ \A field \in DOMAIN before :
                     /\ before[field] \in Nat
                     /\ after[field] \in Nat
                     /\ before[field] <= after[field]
<1>1. lessonsDone(units, a) \subseteq lessonsDone(units, b)
  BY DEF lessonsDone, lessonState, NoFurther
<1>2. unitsEarned(tree, units, a) \subseteq unitsEarned(tree, units, b)
  BY EarnedMonotone DEF unitsEarned
<1>3. stagesFinished(tree, units, a) \subseteq stagesFinished(tree, units, b)
  BY EarnedMonotone DEF stagesFinished
<1>4. /\ Cardinality(lessonsDone(units, a)) \in Nat
      /\ Cardinality(lessonsDone(units, b)) \in Nat
      /\ Cardinality(lessonsDone(units, a)) <= Cardinality(lessonsDone(units, b))
  BY <1>1, CountedFinite, CountMonotone
<1>5. /\ Cardinality(unitsEarned(tree, units, a)) \in Nat
      /\ Cardinality(unitsEarned(tree, units, b)) \in Nat
      /\ Cardinality(unitsEarned(tree, units, a))
            <= Cardinality(unitsEarned(tree, units, b))
  BY <1>2, CountedFinite, CountMonotone
<1>6. /\ Cardinality(stagesFinished(tree, units, a)) \in Nat
      /\ Cardinality(stagesFinished(tree, units, b)) \in Nat
      /\ Cardinality(stagesFinished(tree, units, a))
            <= Cardinality(stagesFinished(tree, units, b))
  BY <1>3, CountedFinite, CountMonotone
<1> QED  BY <1>4, <1>5, <1>6, PathTotalsAre

-----------------------------------------------------------------------------
(* No dead end.                                                             *)

\* A non-empty set of places has a first one, in path order.
LEMMA FirstPlace ==
    ASSUME NEW units \in Seq(Unit), NEW P, P \subseteq Places(units), P # {}
    PROVE  firstOf(P) \in P
<1> DEFINE I == {p[1] : p \in P}
<1>1. \A p \in P : /\ p[1] \in 1 .. Len(units)
                   /\ p[2] \in 1 .. Len(units[p[1]].lessons)
                   /\ p = <<p[1], p[2]>>
  <2> SUFFICES ASSUME NEW p \in P
               PROVE  /\ p[1] \in 1 .. Len(units)
                      /\ p[2] \in 1 .. Len(units[p[1]].lessons)
                      /\ p = <<p[1], p[2]>>
    OBVIOUS
  <2>1. PICK i \in DOMAIN units : p \in {i} \X DOMAIN units[i].lessons
    BY DEF Places
  <2>2. units[i].lessons \in Seq(LessonId)
    BY UnitParts
  <2> QED  BY <2>1, <2>2
<1>2. Len(units) \in Nat /\ I \subseteq 1 .. Len(units) /\ I # {}
  BY <1>1
<1>3. \E x \in I : \A y \in I : x <= y
  <2> HIDE DEF I
  <2> QED  BY <1>2, FirstPosition
<1>4. PICK i \in I : \A y \in I : i <= y
  BY <1>3
<1> DEFINE K == {p[2] : p \in {q \in P : q[1] = i}}
<1>5. /\ Len(units[i].lessons) \in Nat
      /\ K \subseteq 1 .. Len(units[i].lessons)
      /\ K # {}
  <2>1. i \in DOMAIN units
    <3> HIDE DEF I
    <3> QED  BY <1>2, <1>4
  <2> QED  BY <1>1, <2>1, UnitParts
<1>6. \E x \in K : \A y \in K : x <= y
  <2> HIDE DEF K
  <2> QED  BY <1>5, FirstPosition
<1>7. PICK k \in K : \A y \in K : k <= y
  BY <1>6
<1>8. PICK p \in P : p[1] = i /\ p[2] = k
  BY <1>7
<1>9. \A q \in P : p[1] < q[1] \/ (p[1] = q[1] /\ p[2] <= q[2])
  <2> SUFFICES ASSUME NEW q \in P, ~(p[1] < q[1])
               PROVE  p[1] = q[1] /\ p[2] <= q[2]
    OBVIOUS
  <2>1. q[1] \in I /\ q[1] \in Nat /\ i \in Nat
    BY <1>1, <1>2, <1>4
  <2>2. q[1] = i
    <3> HIDE DEF I
    <3> QED  BY <1>4, <1>8, <2>1
  <2>3. q[2] \in K
    BY <2>2
  <2> QED  BY <1>7, <1>8, <2>2, <2>3
<1> QED  BY <1>8, <1>9 DEF firstOf

\* In an open unit not cleared, a lesson is available, or the checkpoint is.
LEMMA OpenUnitHasNext ==
    ASSUME NEW units \in Seq(Unit), NEW a \in Learner, NEW i \in DOMAIN units,
           a.enrolled, open(units, i, a), ~cleared(units, i, a)
    PROVE  \/ \E k \in DOMAIN units[i].lessons :
                 lessonState(units, i, k, a) = "available"
           \/ /\ units[i].checkpointId # None
              /\ checkpointState(units, i, a) = "available"
<1>1. CASE allDone(units[i], a)
  <2>1. units[i].checkpointId # None /\ ~passed(units[i], a)
    BY <1>1 DEF cleared
  <2> QED  BY <1>1, <2>1 DEF checkpointState
<1>2. CASE ~allDone(units[i], a)
  <2> DEFINE n == Len(units[i].lessons)
             D == {k \in 1 .. n : units[i].lessons[k] \notin a.completedLessonIds}
  <2>1. units[i].lessons \in Seq(LessonId)
    BY UnitParts
  <2>2. n \in Nat /\ D \subseteq 1 .. n /\ D # {}
    BY <1>2, <2>1 DEF allDone
  <2>3. \E x \in D : \A y \in D : x <= y
    <3> HIDE DEF D, n
    <3> QED  BY <2>2, FirstPosition
  <2>4. PICK k \in D : \A y \in D : k <= y
    BY <2>3
  <2>5. k = 1 \/ units[i].lessons[k - 1] \in a.completedLessonIds
    <3> SUFFICES ASSUME k # 1, units[i].lessons[k - 1] \notin a.completedLessonIds
                 PROVE  FALSE
      OBVIOUS
    <3>1. k - 1 \in D /\ ~(k <= k - 1)
      BY <2>2, <2>4
    <3> QED  BY <2>4, <3>1
  <2>6. lessonState(units, i, k, a) = "available"
    BY <2>4, <2>5 DEF lessonState
  <2> QED  BY <2>1, <2>4, <2>6
<1> QED  BY <1>1, <1>2
=============================================================================
