------------------------------ MODULE ReleaseProofs ------------------------------
(***************************************************************************)
(* What buildRelease makes of a corpus, whatever its records: a release    *)
(* that is Whole and TaughtFirst (ReleaseLogic), when the corpus is one    *)
(* that rowsToCorpus or loadContent let through.                           *)
(***************************************************************************)
EXTENDS ReleaseLogic, SequenceProofs

\* What the argument takes of a corpus that was let through.
Publishable(corpus) ==
    /\ inFiles(corpus)
    /\ \A r \in corpus : r.slug \in ToSet(Slugs)
    /\ \A s \in of(corpus, "stage") : stageSchema(s)
    /\ \A u \in of(corpus, "unit") : unitFileSchema(unitFile(corpus, u))
    /\ checkContentRefs(corpus)

-----------------------------------------------------------------------------
(* Records in their order.                                                  *)

\* Records that byOrder can tell apart.
Ranked(records) ==
    /\ IsFiniteSet(records)
    /\ \A r \in records : r.order \in Nat /\ r.slug \in ToSet(Slugs)
    /\ \A a, b \in records : a.slug = b.slug => a = b

OrderOn(records) == {pair \in records \X records : byOrder(pair[1], pair[2])}

\* The place of a slug in the alphabet.
LEMMA SlugPlaces ==
    \E at : /\ \A s \in ToSet(Slugs) : at[s] \in Nat /\ at[s] \in DOMAIN Slugs /\ Slugs[at[s]] = s
            /\ \A a, b : a.slug \in ToSet(Slugs) /\ b.slug \in ToSet(Slugs) =>
                  (bySlug(a, b) <=> at[a.slug] < at[b.slug])
<1> DEFINE at == [s \in ToSet(Slugs) |-> CHOOSE i \in DOMAIN Slugs : Slugs[i] = s]
<1>1. DOMAIN Slugs \subseteq Nat
  BY SlugsAssumption
<1>2. \A s \in ToSet(Slugs) : \E i \in DOMAIN Slugs : Slugs[i] = s
  BY DEF ToSet
<1>3. \A s \in ToSet(Slugs) : at[s] \in DOMAIN Slugs /\ Slugs[at[s]] = s
  BY <1>2
<1>4. \A i \in DOMAIN Slugs : Slugs[i] \in ToSet(Slugs)
  BY DEF ToSet
<1> HIDE DEF at
<1>5. \A s \in ToSet(Slugs) : \A i \in DOMAIN Slugs : Slugs[i] = s => i = at[s]
  BY <1>3, SlugsAssumption
<1>6. ASSUME NEW a, NEW b, a.slug \in ToSet(Slugs), b.slug \in ToSet(Slugs)
      PROVE  bySlug(a, b) <=> at[a.slug] < at[b.slug]
  BY <1>3, <1>5, <1>6 DEF bySlug
<1> QED  BY <1>1, <1>3, <1>6

LEMMA ByOrderOrders ==
    ASSUME NEW records, Ranked(records)
    PROVE  Orders(OrderOn(records), records)
<1>1. PICK at : /\ \A s \in ToSet(Slugs) :
                      at[s] \in Nat /\ at[s] \in DOMAIN Slugs /\ Slugs[at[s]] = s
                /\ \A a, b : a.slug \in ToSet(Slugs) /\ b.slug \in ToSet(Slugs) =>
                      (bySlug(a, b) <=> at[a.slug] < at[b.slug])
  BY SlugPlaces
<1>2. \A a \in records : a.order \in Nat /\ a.slug \in ToSet(Slugs) /\ at[a.slug] \in Nat
  BY <1>1 DEF Ranked
<1>3. \A a, b \in records : a # b => at[a.slug] # at[b.slug]
  <2> SUFFICES ASSUME NEW a \in records, NEW b \in records, at[a.slug] = at[b.slug]
               PROVE  a = b
    OBVIOUS
  <2>1. a.slug = b.slug
    BY <1>1, <1>2
  <2> QED  BY <2>1 DEF Ranked
<1>4. \A a, b \in records : byOrder(a, b) <=>
          a.order < b.order \/ (a.order = b.order /\ at[a.slug] < at[b.slug])
  BY <1>1, <1>2 DEF byOrder
<1>5. \A a, b \in records : <<a, b>> \in OrderOn(records) <=> byOrder(a, b)
  BY DEF OrderOn
<1>6. \A a \in records : ~byOrder(a, a)
  BY <1>2, <1>4
<1>7. \A a, b \in records : a # b => byOrder(a, b) \/ byOrder(b, a)
  BY <1>2, <1>3, <1>4
<1>8. ASSUME NEW a \in records, NEW b \in records, NEW c \in records,
             byOrder(a, b), byOrder(b, c)
      PROVE  byOrder(a, c)
  <2>1. /\ a.order \in Nat /\ b.order \in Nat /\ c.order \in Nat
        /\ at[a.slug] \in Nat /\ at[b.slug] \in Nat /\ at[c.slug] \in Nat
    BY <1>2
  <2> QED  BY <2>1, <1>4, <1>8
<1> QED  BY <1>5, <1>6, <1>7, <1>8 DEF Orders

\* The records, each once, as byOrder has them.
InOrder(seq, records) ==
    /\ seq \in Seq(records)
    /\ \A r \in records : \E i \in DOMAIN seq : seq[i] = r
    /\ \A i, j \in DOMAIN seq : i < j => byOrder(seq[i], seq[j])
    /\ \A i, j \in DOMAIN seq : seq[i] = seq[j] => i = j

LEMMA SortedInOrder ==
    ASSUME NEW records, Ranked(records)
    PROVE  InOrder(sorted(records, byOrder), records)
<1> DEFINE R == OrderOn(records)
           seq == [i \in 1 .. Cardinality(records) |->
                      CHOOSE r \in records : RankIn(r, records, R) = i]
<1>1. Orders(R, records) /\ IsFiniteSet(records)
  BY ByOrderOrders DEF Ranked
<1>2. Enumerates(seq, records, R)
  <2> HIDE DEF R
  <2> QED  BY <1>1, PlacesEnumerate
<1>3. \A r \in records : RankIn(r, records, R)
          = 1 + Cardinality({q \in records : byOrder(q, r)})
  <2> SUFFICES ASSUME NEW r \in records
               PROVE  RankIn(r, records, R)
                          = 1 + Cardinality({q \in records : byOrder(q, r)})
    OBVIOUS
  <2>1. {q \in records : <<q, r>> \in R} = {q \in records : byOrder(q, r)}
    BY DEF OrderOn
  <2> QED  BY <2>1 DEF RankIn
<1>4. sorted(records, byOrder) = seq
  <2> DEFINE placed(i) == CHOOSE r \in records : RankIn(r, records, R) = i
             counted(i) == CHOOSE r \in records :
                               1 + Cardinality({q \in records : byOrder(q, r)}) = i
  <2>1. \A i : placed(i) = counted(i)
    <3> HIDE DEF R
    <3> QED  BY <1>3
  <2>2. seq = [i \in 1 .. Cardinality(records) |-> placed(i)]
    OBVIOUS
  <2>3. sorted(records, byOrder) = [i \in 1 .. Cardinality(records) |-> counted(i)]
    BY DEF sorted
  <2> HIDE DEF placed, counted, seq
  <2> QED  BY <2>1, <2>2, <2>3
<1>5. \A a, b \in records : <<a, b>> \in R <=> byOrder(a, b)
  BY DEF OrderOn
<1> HIDE DEF R, seq
<1>6. seq \in Seq(records) /\ DOMAIN seq \subseteq Nat /\ \A i \in DOMAIN seq : seq[i] \in records
  BY <1>2 DEF Enumerates
<1>7. \A i, j \in DOMAIN seq : i < j => byOrder(seq[i], seq[j])
  BY <1>2, <1>5, <1>6 DEF Enumerates
<1>8. \A i, j \in DOMAIN seq : seq[i] = seq[j] => i = j
  <2> SUFFICES ASSUME NEW i \in DOMAIN seq, NEW j \in DOMAIN seq, i < j
               PROVE  seq[i] # seq[j]
    BY <1>6
  <2>1. <<seq[i], seq[j]>> \in R /\ seq[i] \in records /\ seq[j] \in records
    BY <1>2, <1>6 DEF Enumerates
  <2> QED  BY <2>1, <1>1 DEF Orders
<1> QED  BY <1>2, <1>4, <1>6, <1>7, <1>8 DEF InOrder, Enumerates

-----------------------------------------------------------------------------
(* The parts of a corpus that was let through.                              *)

Stages(corpus) == of(corpus, "stage")
AllUnits(corpus) == of(corpus, "unit")
Lessons(corpus) == of(corpus, "lesson")
LessonsIn(corpus, u) == inUnit(corpus, "lesson", u.slug)
UnitsIn(corpus, s) == {u \in of(corpus, "unit") : u.stage = s.slug}

\* A record of a kind has a slug of its own.
LEMMA OneSlugEach ==
    ASSUME NEW corpus, Publishable(corpus), NEW kind,
           NEW a \in of(corpus, kind), NEW b \in of(corpus, kind), a.slug = b.slug
    PROVE  a = b
BY DEF Publishable, checkContentRefs, reportDuplicates, of

\* A child is in its unit's file, and its file was parsed.
LEMMA ChildrenParse ==
    ASSUME NEW corpus, Publishable(corpus), NEW r \in corpus, r.kind \in ChildKinds
    PROVE  /\ parseAdminRecord(r)
           /\ \E u \in AllUnits(corpus) : u.slug = r.unit
<1>1. PICK u \in AllUnits(corpus) : u.slug = r.unit
  BY DEF Publishable, inFiles, slugsOf, AllUnits
<1>2. r \in unitFile(corpus, u)
  BY <1>1 DEF unitFile
<1> QED  BY <1>1, <1>2 DEF Publishable, unitFileSchema, AllUnits

LEMMA LessonsParse ==
    ASSUME NEW corpus, Publishable(corpus), NEW l \in Lessons(corpus)
    PROVE  /\ l.order \in Nat \ {0}
           /\ lessonSchema(l)
           /\ \E u \in AllUnits(corpus) : u.slug = l.unit
<1>1. l \in corpus /\ l.kind = "lesson" /\ l.kind \in ChildKinds
  BY DEF Lessons, of, ChildKinds
<1> QED  BY <1>1, ChildrenParse DEF parseAdminRecord

LEMMA UnitsParse ==
    ASSUME NEW corpus, Publishable(corpus), NEW u \in AllUnits(corpus)
    PROVE  /\ u.order \in Nat
           /\ LessonsIn(corpus, u) # {}
           /\ \E s \in Stages(corpus) : s.slug = u.stage
<1>1. u \in corpus /\ u.kind = "unit" /\ unitFileSchema(unitFile(corpus, u))
  BY DEF Publishable, AllUnits, of
<1>2. parseAdminRecord(u)
  BY <1>1 DEF unitFileSchema, unitFile
<1>3. PICK l \in unitFile(corpus, u) : l.kind = "lesson"
  BY <1>1 DEF unitFileSchema
<1>4. l \in LessonsIn(corpus, u)
  BY <1>1, <1>3 DEF unitFile, LessonsIn, inUnit, of
<1>5. \E s \in Stages(corpus) : s.slug = u.stage
  BY DEF Publishable, checkContentRefs, UniqueOrders, slugsOf, Stages, AllUnits
<1> QED  BY <1>1, <1>2, <1>4, <1>5 DEF parseAdminRecord, unitRecordSchema

\* The stages, the units of a stage and the lessons of a unit have an order.
LEMMA AllRanked ==
    ASSUME NEW corpus, Publishable(corpus)
    PROVE  /\ Ranked(Stages(corpus))
           /\ \A s \in Stages(corpus) : Ranked(UnitsIn(corpus, s))
           /\ \A u \in AllUnits(corpus) : Ranked(LessonsIn(corpus, u))
<1>1. IsFiniteSet(corpus) /\ \A r \in corpus : r.slug \in ToSet(Slugs)
  BY DEF Publishable, inFiles
<1>2. Ranked(Stages(corpus))
  <2>1. Stages(corpus) \in SUBSET corpus
    BY DEF Stages, of
  <2>2. IsFiniteSet(Stages(corpus))
    BY <1>1, <2>1, FS_Subset
  <2>3. \A s \in Stages(corpus) : s.order \in Nat
    BY DEF Publishable, Stages, stageSchema
  <2> QED  BY <1>1, <2>1, <2>2, <2>3, OneSlugEach DEF Ranked, Stages
<1>3. ASSUME NEW s \in Stages(corpus) PROVE Ranked(UnitsIn(corpus, s))
  <2>1. UnitsIn(corpus, s) \in SUBSET corpus /\ UnitsIn(corpus, s) \subseteq AllUnits(corpus)
    BY DEF UnitsIn, AllUnits, of
  <2>2. IsFiniteSet(UnitsIn(corpus, s))
    BY <1>1, <2>1, FS_Subset
  <2> QED  BY <1>1, <2>1, <2>2, UnitsParse, OneSlugEach DEF Ranked, AllUnits
<1>4. ASSUME NEW u \in AllUnits(corpus) PROVE Ranked(LessonsIn(corpus, u))
  <2>1. LessonsIn(corpus, u) \in SUBSET corpus /\ LessonsIn(corpus, u) \subseteq Lessons(corpus)
    BY DEF LessonsIn, inUnit, Lessons, of
  <2>2. IsFiniteSet(LessonsIn(corpus, u))
    BY <1>1, <2>1, FS_Subset
  <2> QED  BY <1>1, <2>1, <2>2, LessonsParse, OneSlugEach DEF Ranked, Lessons
<1> QED  BY <1>2, <1>3, <1>4

LEMMA PartsInOrder ==
    ASSUME NEW corpus, Publishable(corpus)
    PROVE  /\ InOrder(stagesOf(corpus), Stages(corpus))
           /\ \A s \in Stages(corpus) : InOrder(unitsOf(corpus, s), UnitsIn(corpus, s))
           /\ \A u \in AllUnits(corpus) : InOrder(lessonsOf(corpus, u), LessonsIn(corpus, u))
<1>1. InOrder(stagesOf(corpus), Stages(corpus))
  BY AllRanked, SortedInOrder DEF stagesOf, Stages
<1>2. ASSUME NEW s \in Stages(corpus)
      PROVE  InOrder(unitsOf(corpus, s), UnitsIn(corpus, s))
  BY AllRanked, SortedInOrder DEF unitsOf, UnitsIn
<1>3. ASSUME NEW u \in AllUnits(corpus)
      PROVE  InOrder(lessonsOf(corpus, u), LessonsIn(corpus, u))
  BY AllRanked, SortedInOrder DEF lessonsOf, LessonsIn
<1> QED  BY <1>1, <1>2, <1>3

-----------------------------------------------------------------------------
(* The tree: every unit of the corpus, in learning order.                   *)

UnitBefore(corpus, u, v) ==
    IF u.stage = v.stage THEN byOrder(u, v)
    ELSE byOrder(stageOf(corpus, u), stageOf(corpus, v))

\* "at" says which unit of the corpus is at which position of the tree.
Listed(corpus, units, at) ==
    /\ units \in Seq({treeUnit(corpus, u) : u \in AllUnits(corpus)})
    /\ \A m \in DOMAIN units :
          at[m] \in AllUnits(corpus) /\ units[m] = treeUnit(corpus, at[m])
    /\ \A u \in AllUnits(corpus) : \E m \in DOMAIN units : at[m] = u
    /\ \A m, n \in DOMAIN units : m < n => UnitBefore(corpus, at[m], at[n])
    /\ \A m, n \in DOMAIN units : at[m] = at[n] => m = n

LEMMA StageOfUnit ==
    ASSUME NEW corpus, Publishable(corpus), NEW s \in Stages(corpus),
           NEW u \in UnitsIn(corpus, s)
    PROVE  stageOf(corpus, u) = s
BY OneSlugEach DEF stageOf, Stages, UnitsIn

LEMMA FlattenedTree == \A tree : Path!unitsInOrder(tree) = FlattenSeq(tree)
BY DEF Path!unitsInOrder, Path!FlattenSeq, FlattenSeq

LEMMA TreeListed ==
    ASSUME NEW corpus, Publishable(corpus)
    PROVE  \E at : Listed(corpus, Path!unitsInOrder(buildTree(corpus)), at)
<1> DEFINE stages == stagesOf(corpus)
           units(s) == unitsOf(corpus, stages[s])
           tree == buildTree(corpus)
           T == {treeUnit(corpus, u) : u \in AllUnits(corpus)}
           flat == FlattenSeq(tree)
<1>1. /\ stages \in Seq(Stages(corpus))
      /\ \A s \in DOMAIN stages : stages[s] \in Stages(corpus)
      /\ \A s \in Stages(corpus) : \E i \in DOMAIN stages : stages[i] = s
      /\ \A i, j \in DOMAIN stages : i < j => byOrder(stages[i], stages[j])
      /\ \A i, j \in DOMAIN stages : stages[i] = stages[j] => i = j
  BY PartsInOrder DEF InOrder
<1>2. ASSUME NEW s \in DOMAIN stages
      PROVE  /\ units(s) \in Seq(UnitsIn(corpus, stages[s]))
             /\ \A i \in DOMAIN units(s) : units(s)[i] \in UnitsIn(corpus, stages[s])
             /\ \A u \in UnitsIn(corpus, stages[s]) : \E i \in DOMAIN units(s) : units(s)[i] = u
             /\ \A i, j \in DOMAIN units(s) : i < j => byOrder(units(s)[i], units(s)[j])
             /\ \A i, j \in DOMAIN units(s) : units(s)[i] = units(s)[j] => i = j
  <2>1. InOrder(units(s), UnitsIn(corpus, stages[s]))
    BY <1>1, PartsInOrder
  <2> HIDE DEF units
  <2> QED  BY <2>1 DEF InOrder
<1>3. tree = [s \in DOMAIN stages |->
                 [i \in DOMAIN units(s) |-> treeUnit(corpus, units(s)[i])]]
  BY DEF buildTree
<1>4. \A s \in DOMAIN stages : UnitsIn(corpus, stages[s]) \subseteq AllUnits(corpus)
  BY DEF UnitsIn, AllUnits
<1> HIDE DEF stages, tree
<1>5. ASSUME NEW s \in DOMAIN stages
      PROVE  /\ tree[s] = [i \in DOMAIN units(s) |-> treeUnit(corpus, units(s)[i])]
             /\ tree[s] \in Seq(T) /\ DOMAIN tree[s] = DOMAIN units(s)
  <2>1. tree[s] = [i \in DOMAIN units(s) |-> treeUnit(corpus, units(s)[i])]
    BY <1>3
  <2>2. \A i \in DOMAIN units(s) : treeUnit(corpus, units(s)[i]) \in T
    BY <1>2, <1>4
  <2>3. Len(units(s)) \in Nat /\ DOMAIN units(s) = 1 .. Len(units(s))
    BY <1>2
  <2> HIDE DEF units, T
  <2> QED  BY <2>1, <2>2, <2>3
<1>6. tree \in Seq(Seq(T)) /\ DOMAIN tree = DOMAIN stages
  <2>1. Len(stages) \in Nat /\ DOMAIN stages = 1 .. Len(stages)
    BY <1>1
  <2>2. DOMAIN tree = DOMAIN stages
    BY <1>3
  <2>3. tree = [s \in DOMAIN stages |-> tree[s]]
    BY <1>3
  <2> HIDE DEF units, T
  <2> QED  BY <1>5, <2>1, <2>2, <2>3
<1>7. PICK pair :
          /\ \A m \in DOMAIN flat :
                pair[m] \in Pairs(tree) /\ flat[m] = tree[pair[m][1]][pair[m][2]]
          /\ \A p \in Pairs(tree) : \E m \in DOMAIN flat : pair[m] = p
          /\ \A m, n \in DOMAIN flat : m < n => Earlier(pair[m], pair[n])
  BY <1>6, FlattenPairs
<1>8. flat \in Seq(T)
  BY <1>6, FlattenPlaces
<1>9. ASSUME NEW p \in Pairs(tree)
      PROVE  /\ p[1] \in DOMAIN stages /\ p[1] \in Nat /\ p[1] <= Len(tree)
             /\ p[2] \in DOMAIN units(p[1]) /\ p[2] \in Nat
             /\ p = <<p[1], p[2]>>
             /\ units(p[1])[p[2]] \in UnitsIn(corpus, stages[p[1]])
             /\ units(p[1])[p[2]] \in AllUnits(corpus)
             /\ tree[p[1]][p[2]] = treeUnit(corpus, units(p[1])[p[2]])
  <2>1. /\ p = <<p[1], p[2]>>
        /\ p[1] \in 1 .. Len(tree) /\ p[1] \in Nat
        /\ tree[p[1]] \in Seq(T)
        /\ p[2] \in 1 .. Len(tree[p[1]]) /\ p[2] \in Nat
    BY <1>6, PairsAre
  <2>2. p[1] \in DOMAIN stages /\ p[1] <= Len(tree)
    BY <2>1, <1>6
  <2>3. p[2] \in DOMAIN tree[p[1]]
    BY <2>1
  <2>4. p[2] \in DOMAIN units(p[1])
    BY <2>2, <2>3, <1>5
  <2>5. units(p[1])[p[2]] \in UnitsIn(corpus, stages[p[1]])
    BY <2>2, <2>4, <1>2
  <2>6. units(p[1])[p[2]] \in AllUnits(corpus)
    BY <2>2, <2>5, <1>4
  <2>7. tree[p[1]][p[2]] = treeUnit(corpus, units(p[1])[p[2]])
    <3>1. tree[p[1]] = [i \in DOMAIN units(p[1]) |-> treeUnit(corpus, units(p[1])[i])]
      BY <2>2, <1>5
    <3> HIDE DEF units
    <3> QED  BY <3>1, <2>4
  <2> HIDE DEF units, T
  <2> QED  BY <2>1, <2>2, <2>4, <2>5, <2>6, <2>7
<1> DEFINE unitAt(p) == units(p[1])[p[2]]
           at == [m \in DOMAIN flat |-> unitAt(pair[m])]
<1>10. \A p, q \in Pairs(tree) : unitAt(p) = unitAt(q) => p = q
  <2> SUFFICES ASSUME NEW p \in Pairs(tree), NEW q \in Pairs(tree), unitAt(p) = unitAt(q)
               PROVE  p = q
    OBVIOUS
  <2>1. stages[p[1]] = stages[q[1]]
    BY <1>1, <1>9, OneSlugEach DEF UnitsIn, Stages
  <2>2. p[1] = q[1]
    BY <2>1, <1>1, <1>9
  <2>3. p[2] = q[2]
    BY <2>2, <1>2, <1>9
  <2> QED  BY <2>2, <2>3, <1>9
<1>11. \A p, q \in Pairs(tree) : Earlier(p, q) => UnitBefore(corpus, unitAt(p), unitAt(q))
  <2> SUFFICES ASSUME NEW p \in Pairs(tree), NEW q \in Pairs(tree), Earlier(p, q)
               PROVE  UnitBefore(corpus, unitAt(p), unitAt(q))
    OBVIOUS
  <2>1. /\ unitAt(p).stage = stages[p[1]].slug /\ unitAt(q).stage = stages[q[1]].slug
        /\ stageOf(corpus, unitAt(p)) = stages[p[1]]
        /\ stageOf(corpus, unitAt(q)) = stages[q[1]]
    BY <1>1, <1>9, StageOfUnit DEF UnitsIn
  <2>2. CASE p[1] < q[1]
    <3>1. p[1] # q[1]
      BY <2>2, <1>9
    <3>2. unitAt(p).stage # unitAt(q).stage
      BY <3>1, <2>1, <1>1, <1>9, OneSlugEach DEF Stages
    <3>3. byOrder(stages[p[1]], stages[q[1]])
      BY <2>2, <1>1, <1>9
    <3> HIDE DEF unitAt
    <3> QED  BY <3>2, <3>3, <2>1 DEF UnitBefore
  <2>3. CASE p[1] = q[1] /\ p[2] < q[2]
    <3>1. byOrder(unitAt(p), unitAt(q))
      BY <2>3, <1>2, <1>9
    <3>2. unitAt(p).stage = unitAt(q).stage
      BY <2>1, <2>3
    <3> HIDE DEF unitAt
    <3> QED  BY <3>1, <3>2 DEF UnitBefore
  <2> QED  BY <2>2, <2>3 DEF Earlier
<1>12. \A u \in AllUnits(corpus) : \E p \in Pairs(tree) : unitAt(p) = u
  <2> SUFFICES ASSUME NEW u \in AllUnits(corpus)
               PROVE  \E p \in Pairs(tree) : unitAt(p) = u
    OBVIOUS
  <2>1. PICK s \in Stages(corpus) : s.slug = u.stage
    BY UnitsParse
  <2>2. PICK k \in DOMAIN stages : stages[k] = s
    BY <1>1
  <2>3. u \in UnitsIn(corpus, stages[k])
    BY <2>1, <2>2 DEF UnitsIn, AllUnits
  <2>4. PICK i \in DOMAIN units(k) : units(k)[i] = u
    BY <2>3, <1>2
  <2>5. k \in DOMAIN tree /\ i \in DOMAIN tree[k]
    BY <1>5, <1>6
  <2>6. <<k, i>> \in Pairs(tree)
    BY <2>5, PairsMake
  <2>7. unitAt(<<k, i>>) = u
    BY <2>4
  <2> HIDE DEF unitAt
  <2> QED  BY <2>6, <2>7
<1>13. \A m \in DOMAIN flat :
           at[m] \in AllUnits(corpus) /\ flat[m] = treeUnit(corpus, at[m])
  <2>1. \A p \in Pairs(tree) : unitAt(p) \in AllUnits(corpus)
                               /\ tree[p[1]][p[2]] = treeUnit(corpus, unitAt(p))
    BY <1>9
  <2> HIDE DEF unitAt
  <2> QED  BY <2>1, <1>7
<1> HIDE DEF unitAt, units, T
<1>14. \A u \in AllUnits(corpus) : \E m \in DOMAIN flat : at[m] = u
  BY <1>7, <1>12
<1>15. \A m, n \in DOMAIN flat : m < n => UnitBefore(corpus, at[m], at[n])
  BY <1>7, <1>11
<1>16. \A m, n \in DOMAIN flat : at[m] = at[n] => m = n
  <2> SUFFICES ASSUME NEW m \in DOMAIN flat, NEW n \in DOMAIN flat, m < n
               PROVE  at[m] # at[n]
    BY <1>8
  <2>1. Earlier(pair[m], pair[n]) /\ pair[m] \in Pairs(tree) /\ pair[n] \in Pairs(tree)
    BY <1>7
  <2>2. pair[m] # pair[n]
    BY <2>1, <1>9 DEF Earlier
  <2> QED  BY <2>1, <2>2, <1>10
<1> HIDE DEF at, flat
<1>17. Listed(corpus, flat, at)
  BY <1>8, <1>13, <1>14, <1>15, <1>16 DEF Listed, T
<1> QED  BY <1>17, FlattenedTree DEF flat, tree

-----------------------------------------------------------------------------
(* What is stored of units and lessons.                                     *)

LEMMA TreeUnitIs ==
    ASSUME NEW corpus, Publishable(corpus), NEW u \in AllUnits(corpus)
    PROVE  /\ treeUnit(corpus, u).id = u.slug
           /\ DOMAIN treeUnit(corpus, u).lessons = DOMAIN lessonsOf(corpus, u)
           /\ \A k \in DOMAIN lessonsOf(corpus, u) :
                 treeUnit(corpus, u).lessons[k] = lessonsOf(corpus, u)[k].slug
           /\ treeUnit(corpus, u).lessons # <<>>
<1> DEFINE ls == lessonsOf(corpus, u)
           ids == [k \in DOMAIN ls |-> ls[k].slug]
<1>1. treeUnit(corpus, u).id = u.slug /\ treeUnit(corpus, u).lessons = ids
  BY DEF treeUnit
<1>2. InOrder(ls, LessonsIn(corpus, u)) /\ LessonsIn(corpus, u) # {}
  BY PartsInOrder, UnitsParse
<1> HIDE DEF ls
<1>3. DOMAIN ls # {}
  BY <1>2 DEF InOrder
<1>4. ids # <<>>
  BY <1>3
<1> QED  BY <1>1, <1>4 DEF ls

LEMMA TreeUnitCheckpoint ==
    ASSUME NEW corpus, NEW u
    PROVE  treeUnit(corpus, u).checkpointId =
               IF inUnit(corpus, "checkpoint", u.slug) = {} THEN None
               ELSE theOne(inUnit(corpus, "checkpoint", u.slug)).slug
BY DEF treeUnit

\* The lessons of a unit of the tree, as slugs of lessons of the corpus.
LEMMA TreeUnitLessons ==
    ASSUME NEW corpus, Publishable(corpus), NEW u \in AllUnits(corpus)
    PROVE  treeUnit(corpus, u).lessons \in Seq({l.slug : l \in Lessons(corpus)})
<1> DEFINE ls == lessonsOf(corpus, u)
           ids == [k \in DOMAIN ls |-> ls[k].slug]
<1>1. treeUnit(corpus, u).lessons = ids
  BY DEF treeUnit
<1>2. InOrder(ls, LessonsIn(corpus, u))
  BY PartsInOrder
<1> HIDE DEF ls
<1>3. /\ Len(ls) \in Nat /\ DOMAIN ls = 1 .. Len(ls)
      /\ \A k \in DOMAIN ls : ls[k] \in LessonsIn(corpus, u)
  BY <1>2 DEF InOrder
<1>4. \A k \in DOMAIN ls : ls[k].slug \in {l.slug : l \in Lessons(corpus)}
  BY <1>3 DEF LessonsIn, inUnit, Lessons
<1>5. ids \in Seq({l.slug : l \in Lessons(corpus)})
  BY <1>3, <1>4
<1> QED  BY <1>1, <1>5 DEF ls

LEMMA LessonPlace ==
    ASSUME NEW corpus, Publishable(corpus), NEW u \in AllUnits(corpus),
           NEW k \in DOMAIN lessonsOf(corpus, u)
    PROVE  /\ lessonsOf(corpus, u)[k] \in Lessons(corpus)
           /\ lessonsOf(corpus, u)[k].unit = u.slug
<1>1. InOrder(lessonsOf(corpus, u), LessonsIn(corpus, u))
  BY PartsInOrder
<1>2. lessonsOf(corpus, u)[k] \in LessonsIn(corpus, u)
  BY <1>1 DEF InOrder
<1> QED  BY <1>2 DEF LessonsIn, inUnit, Lessons

\* A lesson has one place.
LEMMA LessonPlaced ==
    ASSUME NEW corpus, Publishable(corpus), NEW l \in Lessons(corpus)
    PROVE  \E u \in AllUnits(corpus) :
               u.slug = l.unit /\ \E k \in DOMAIN lessonsOf(corpus, u) : lessonsOf(corpus, u)[k] = l
<1>1. PICK u \in AllUnits(corpus) : u.slug = l.unit
  BY LessonsParse
<1>2. InOrder(lessonsOf(corpus, u), LessonsIn(corpus, u)) /\ l \in LessonsIn(corpus, u)
  BY <1>1, PartsInOrder DEF LessonsIn, inUnit, Lessons
<1> QED  BY <1>1, <1>2 DEF InOrder

LEMMA OnePlaceOfLesson ==
    ASSUME NEW corpus, Publishable(corpus),
           NEW u \in AllUnits(corpus), NEW k \in DOMAIN lessonsOf(corpus, u),
           NEW v \in AllUnits(corpus), NEW n \in DOMAIN lessonsOf(corpus, v),
           lessonsOf(corpus, u)[k].slug = lessonsOf(corpus, v)[n].slug
    PROVE  u = v /\ k = n
<1>1. lessonsOf(corpus, u)[k] = lessonsOf(corpus, v)[n]
  BY LessonPlace, OneSlugEach DEF Lessons
<1>2. u.slug = v.slug
  BY <1>1, LessonPlace
<1>3. u = v
  BY <1>2, OneSlugEach DEF AllUnits
<1>4. InOrder(lessonsOf(corpus, u), LessonsIn(corpus, u))
  BY PartsInOrder
<1> QED  BY <1>1, <1>3, <1>4 DEF InOrder

LEMMA StoredLessonsAre ==
    ASSUME NEW corpus, NEW lesson
    PROVE  lesson \in buildRelease(corpus).lessons <=>
               \E u \in AllUnits(corpus) : \E k \in DOMAIN lessonsOf(corpus, u) :
                   lesson = lessonSnapshot(corpus, lessonsOf(corpus, u)[k], k)
<1>1. buildRelease(corpus).lessons = buildLessons(corpus)
  BY DEF buildRelease
<1>2. buildLessons(corpus) =
          UNION {{lessonSnapshot(corpus, lessonsOf(corpus, u)[k], k) :
                     k \in DOMAIN lessonsOf(corpus, u)} : u \in of(corpus, "unit")}
  BY DEF buildLessons
<1> QED  BY <1>1, <1>2 DEF AllUnits

\* A link leads to the item of its slug.
LEMMA LinkedItem ==
    ASSUME NEW corpus, Publishable(corpus), NEW l \in Lessons(corpus), NEW m \in DOMAIN l.items
    PROVE  /\ itemView(corpus, l.items[m].item) \in of(corpus, "item")
           /\ itemView(corpus, l.items[m].item).slug = l.items[m].item
<1>1. l.items[m].item \in slugsOf(corpus, "item")
  BY DEF Publishable, checkContentRefs, RecycledLater, linked, Lessons
<1>2. PICK i \in of(corpus, "item") : i.slug = l.items[m].item
  BY <1>1 DEF slugsOf
<1> DEFINE found == {j \in of(corpus, "item") : j.slug = l.items[m].item}
<1>3. i \in found
  BY <1>2
<1>4. itemView(corpus, l.items[m].item) \in found
  <2> HIDE DEF found
  <2>1. theOne(found) \in found
    BY <1>3 DEF theOne
  <2> QED  BY <2>1 DEF itemView, found
<1> QED  BY <1>4

\* What every learner of a release may count on, of the release of a corpus that
\* was let through: buildRelease.
THEOREM BuiltWhole ==
    ASSUME NEW corpus, Publishable(corpus)
    PROVE  Whole(buildRelease(corpus))
<1> DEFINE release == buildRelease(corpus)
           units == Path!unitsInOrder(release.tree)
<1>0. release.tree = buildTree(corpus)
  BY DEF buildRelease
<1>1. PICK at : Listed(corpus, units, at)
  BY <1>0, TreeListed
<1> HIDE DEF units, release
<1>2. ASSUME NEW m \in DOMAIN units
      PROVE
          /\ at[m] \in AllUnits(corpus)
          /\ units[m].id = at[m].slug
          /\ DOMAIN units[m].lessons = DOMAIN lessonsOf(corpus, at[m])
          /\ \A k \in DOMAIN lessonsOf(corpus, at[m]) :
                units[m].lessons[k] = lessonsOf(corpus, at[m])[k].slug
          /\ units[m].lessons # <<>>
          /\ units[m].checkpointId =
                IF inUnit(corpus, "checkpoint", at[m].slug) = {} THEN None
                ELSE theOne(inUnit(corpus, "checkpoint", at[m].slug)).slug
  <2>1. PICK u \in AllUnits(corpus) : u = at[m] /\ units[m] = treeUnit(corpus, u)
    BY <1>1 DEF Listed
  <2>2. /\ treeUnit(corpus, u).id = u.slug
        /\ DOMAIN treeUnit(corpus, u).lessons = DOMAIN lessonsOf(corpus, u)
        /\ \A k \in DOMAIN lessonsOf(corpus, u) :
              treeUnit(corpus, u).lessons[k] = lessonsOf(corpus, u)[k].slug
        /\ treeUnit(corpus, u).lessons # <<>>
    BY TreeUnitIs
  <2>3. treeUnit(corpus, u).checkpointId =
            IF inUnit(corpus, "checkpoint", u.slug) = {} THEN None
            ELSE theOne(inUnit(corpus, "checkpoint", u.slug)).slug
    BY TreeUnitCheckpoint, Zenon
  <2> QED  BY <2>1, <2>2, <2>3
<1>3. \A m, n \in DOMAIN units : at[m] = at[n] => m = n
  BY <1>1 DEF Listed
<1>4. \A u \in AllUnits(corpus) : \E m \in DOMAIN units : at[m] = u
  BY <1>1 DEF Listed
<1>5. Path!onePlaceEach(units)
  <2>1. \A i, j \in DOMAIN units : units[i].id = units[j].id => i = j
    BY <1>2, <1>3, OneSlugEach DEF AllUnits
  <2>2. ASSUME NEW i \in DOMAIN units, NEW j \in DOMAIN units,
               NEW k \in DOMAIN units[i].lessons, NEW n \in DOMAIN units[j].lessons,
               units[i].lessons[k] = units[j].lessons[n]
        PROVE  i = j /\ k = n
    <3>1. lessonsOf(corpus, at[i])[k].slug = lessonsOf(corpus, at[j])[n].slug
      BY <1>2, <2>2
    <3>2. at[i] = at[j] /\ k = n
      BY <3>1, <1>2, OnePlaceOfLesson
    <3> QED  BY <3>2, <1>3
  <2>3. \A i, j \in DOMAIN units : \A k \in DOMAIN units[i].lessons :
            units[i].lessons[k] \in Path!ToSet(units[j].lessons) => i = j
    BY <2>2 DEF Path!ToSet
  <2>4. \A i \in DOMAIN units : \A k, m \in DOMAIN units[i].lessons :
            units[i].lessons[k] = units[i].lessons[m] => k = m
    BY <2>2
  <2> QED  BY <2>1, <2>3, <2>4 DEF Path!onePlaceEach
<1>6. ASSUME NEW i \in DOMAIN units, NEW k \in DOMAIN units[i].lessons
      PROVE  \E lesson \in release.lessons : lesson.lessonId = units[i].lessons[k]
  <2> DEFINE lesson == lessonSnapshot(corpus, lessonsOf(corpus, at[i])[k], k)
  <2>1. lesson \in release.lessons
    <3>1. at[i] \in AllUnits(corpus) /\ k \in DOMAIN lessonsOf(corpus, at[i])
      BY <1>2
    <3> QED  BY <3>1, StoredLessonsAre DEF release
  <2>2. lesson.lessonId = units[i].lessons[k]
    <3>1. lesson.lessonId = lessonsOf(corpus, at[i])[k].slug
      BY DEF lessonSnapshot
    <3> QED  BY <3>1, <1>2
  <2> HIDE DEF lesson
  <2> QED  BY <2>1, <2>2
<1>7. ASSUME NEW i \in DOMAIN units, units[i].checkpointId # None
      PROVE  \E c \in release.checkpoints : c.checkpointId = units[i].checkpointId
  <2> DEFINE checkpoints == inUnit(corpus, "checkpoint", at[i].slug)
  <2>1. units[i].checkpointId = IF checkpoints = {} THEN None ELSE theOne(checkpoints).slug
    BY <1>2
  <2>2. theOne(checkpoints) \in checkpoints
    BY <1>7, <2>1 DEF theOne
  <2>3. theOne(checkpoints) \in of(corpus, "checkpoint")
    BY <2>2 DEF inUnit
  <2>4. checkpointSnapshot(theOne(checkpoints)) \in release.checkpoints
    BY <2>3 DEF release, buildRelease
  <2>5. checkpointSnapshot(theOne(checkpoints)).checkpointId = theOne(checkpoints).slug
    BY DEF checkpointSnapshot
  <2> HIDE DEF checkpoints
  <2> QED  BY <1>7, <2>1, <2>2, <2>4, <2>5
<1>8. ASSUME NEW lesson \in release.lessons
      PROVE  /\ \E i \in DOMAIN units :
                   /\ lesson.unitId = units[i].id
                   /\ lesson.order \in DOMAIN units[i].lessons
                   /\ lesson.lessonId = units[i].lessons[lesson.order]
             /\ \A k \in DOMAIN lesson.items : lesson.items[k].item \in release.items
             /\ \A other \in release.lessons :
                   lesson.lessonId = other.lessonId => lesson = other
  <2>1. PICK u \in AllUnits(corpus) : \E k \in DOMAIN lessonsOf(corpus, u) :
            lesson = lessonSnapshot(corpus, lessonsOf(corpus, u)[k], k)
    BY StoredLessonsAre DEF release
  <2>2. PICK k \in DOMAIN lessonsOf(corpus, u) :
            lesson = lessonSnapshot(corpus, lessonsOf(corpus, u)[k], k)
    BY <2>1
  <2> DEFINE l == lessonsOf(corpus, u)[k]
  <2>3. l \in Lessons(corpus) /\ l.unit = u.slug
    BY LessonPlace
  <2>4. /\ lesson.lessonId = l.slug /\ lesson.unitId = l.unit /\ lesson.order = k
        /\ DOMAIN lesson.items = DOMAIN l.items
        /\ \A m \in DOMAIN l.items : lesson.items[m].item = itemView(corpus, l.items[m].item)
    BY <2>2 DEF lessonSnapshot
  <2>5. PICK i \in DOMAIN units : at[i] = u
    BY <1>4
  <2>6. /\ lesson.unitId = units[i].id
        /\ lesson.order \in DOMAIN units[i].lessons
        /\ lesson.lessonId = units[i].lessons[lesson.order]
    BY <2>3, <2>4, <2>5, <1>2
  <2>7. \A m \in DOMAIN lesson.items : lesson.items[m].item \in release.items
    <3>1. release.items = of(corpus, "item")
      BY DEF release, buildRelease
    <3> HIDE DEF l
    <3> QED  BY <3>1, <2>3, <2>4, LinkedItem
  <2>8. ASSUME NEW other \in release.lessons, lesson.lessonId = other.lessonId
        PROVE  lesson = other
    <3>1. PICK v \in AllUnits(corpus) : \E n \in DOMAIN lessonsOf(corpus, v) :
              other = lessonSnapshot(corpus, lessonsOf(corpus, v)[n], n)
      BY StoredLessonsAre DEF release
    <3>2. PICK n \in DOMAIN lessonsOf(corpus, v) :
              other = lessonSnapshot(corpus, lessonsOf(corpus, v)[n], n)
      BY <3>1
    <3>3. other.lessonId = lessonsOf(corpus, v)[n].slug
      BY <3>2 DEF lessonSnapshot
    <3>4. lessonsOf(corpus, u)[k].slug = lessonsOf(corpus, v)[n].slug
      BY <3>3, <2>4, <2>8
    <3>5. u = v /\ k = n
      BY <3>4, OnePlaceOfLesson
    <3> QED  BY <3>5, <3>2, <2>2
  <2> QED  BY <2>6, <2>7, <2>8
<1>9. ASSUME NEW c \in release.checkpoints
      PROVE  /\ \E i \in DOMAIN units :
                   c.unitId = units[i].id /\ c.checkpointId = units[i].checkpointId
             /\ \A other \in release.checkpoints :
                   c.checkpointId = other.checkpointId => c = other
  <2>1. \A d \in release.checkpoints : \E r \in of(corpus, "checkpoint") :
            d = checkpointSnapshot(r) /\ d.unitId = r.unit /\ d.checkpointId = r.slug
    BY DEF release, buildRelease, checkpointSnapshot
  <2>2. PICK r \in of(corpus, "checkpoint") :
            c = checkpointSnapshot(r) /\ c.unitId = r.unit /\ c.checkpointId = r.slug
    BY <2>1
  <2>3. r \in corpus /\ r.kind = "checkpoint" /\ r.kind \in ChildKinds
    BY DEF of, ChildKinds
  <2>4. PICK u \in AllUnits(corpus) : u.slug = r.unit
    BY <2>3, ChildrenParse
  <2>5. PICK i \in DOMAIN units : at[i] = u
    BY <1>4
  <2>6. units[i].checkpointId = r.slug
    <3> DEFINE checkpoints == inUnit(corpus, "checkpoint", u.slug)
    <3>1. units[i].checkpointId = IF checkpoints = {} THEN None ELSE theOne(checkpoints).slug
      BY <1>2, <2>5
    <3>2. r \in checkpoints
      BY <2>4 DEF inUnit
    <3>3. \A d \in checkpoints : d = r
      BY <2>4 DEF Publishable, inFiles, inUnit
    <3>4. theOne(checkpoints) = r
      <4> HIDE DEF checkpoints
      <4> QED  BY <3>2, <3>3 DEF theOne
    <3> HIDE DEF checkpoints
    <3> QED  BY <3>1, <3>2, <3>4
  <2>7. c.unitId = units[i].id
    BY <2>2, <2>4, <2>5, <1>2
  <2>8. \A other \in release.checkpoints : c.checkpointId = other.checkpointId => c = other
    BY <2>1, <2>2, OneSlugEach
  <2> QED  BY <2>2, <2>6, <2>7, <2>8
<1>10. Whole(release)
  BY <1>2, <1>5, <1>6, <1>7, <1>8, <1>9 DEF Whole, units
<1> QED  BY <1>10 DEF release


-----------------------------------------------------------------------------
(* The path: every lesson of the corpus, in learning order.                 *)

pathOf(release) ==
    FlattenSeq([i \in DOMAIN Path!unitsInOrder(release.tree) |->
                   Path!unitsInOrder(release.tree)[i].lessons])

\* "taught" says which lesson of the corpus is at which position of the path.
Taught(corpus, ids, taught) ==
    /\ DOMAIN ids \subseteq Nat \ {0} /\ Len(ids) \in Nat /\ DOMAIN ids = 1 .. Len(ids)
    /\ \A p \in DOMAIN ids : taught[p] \in Lessons(corpus) /\ ids[p] = taught[p].slug
    /\ \A l \in Lessons(corpus) : \E p \in DOMAIN ids : taught[p] = l
    /\ \A p, q \in DOMAIN ids : comesBefore(corpus, taught[q], taught[p]) => q < p
    /\ \A p, q \in DOMAIN ids : taught[p] = taught[q] => p = q

LEMMA ByOrderOneWay ==
    ASSUME NEW records, Ranked(records), NEW a \in records, NEW b \in records, byOrder(a, b)
    PROVE  ~byOrder(b, a)
<1>1. Orders(OrderOn(records), records)
  BY ByOrderOrders
<1>2. \A c, d \in records : <<c, d>> \in OrderOn(records) <=> byOrder(c, d)
  BY DEF OrderOn
<1> HIDE DEF byOrder
<1> QED  BY <1>1, <1>2 DEF Orders

LEMMA UnitBeforeOneWay ==
    ASSUME NEW corpus, Publishable(corpus), NEW u \in AllUnits(corpus),
           NEW v \in AllUnits(corpus), UnitBefore(corpus, u, v)
    PROVE  u # v /\ ~UnitBefore(corpus, v, u)
<1>1. PICK s \in Stages(corpus) : s.slug = u.stage
  BY UnitsParse
<1>2. PICK t \in Stages(corpus) : t.slug = v.stage
  BY UnitsParse
<1>3. u \in UnitsIn(corpus, s) /\ v \in UnitsIn(corpus, t)
  BY <1>1, <1>2 DEF UnitsIn, AllUnits
<1>4. stageOf(corpus, u) = s /\ stageOf(corpus, v) = t
  BY <1>3, StageOfUnit
<1>5. Ranked(Stages(corpus)) /\ Ranked(UnitsIn(corpus, s))
  BY AllRanked
<1>6. CASE u.stage = v.stage
  <2>1. v \in UnitsIn(corpus, s)
    BY <1>1, <1>6 DEF UnitsIn, AllUnits
  <2>2. byOrder(u, v)
    BY <1>6 DEF UnitBefore
  <2>3. ~byOrder(v, u)
    BY <2>1, <2>2, <1>3, <1>5, ByOrderOneWay
  <2> HIDE DEF byOrder
  <2> QED  BY <2>2, <2>3, <1>6 DEF UnitBefore
<1>7. CASE u.stage # v.stage
  <2>1. byOrder(s, t)
    BY <1>4, <1>7 DEF UnitBefore
  <2>2. ~byOrder(t, s)
    BY <2>1, <1>5, ByOrderOneWay
  <2> HIDE DEF byOrder
  <2> QED  BY <2>2, <1>4, <1>7 DEF UnitBefore
<1> QED  BY <1>6, <1>7

LEMMA PathTaught ==
    ASSUME NEW corpus, Publishable(corpus)
    PROVE  \E taught : Taught(corpus, pathOf(buildRelease(corpus)), taught)
<1> DEFINE units == Path!unitsInOrder(buildRelease(corpus).tree)
           T == {l.slug : l \in Lessons(corpus)}
           seqs == [i \in DOMAIN units |-> units[i].lessons]
           ids == FlattenSeq(seqs)
<1>1. PICK at : Listed(corpus, units, at)
  BY TreeListed DEF buildRelease
<1>2. ids = pathOf(buildRelease(corpus))
  BY DEF pathOf
<1> HIDE DEF units
<1>3. ASSUME NEW i \in DOMAIN units
      PROVE  /\ at[i] \in AllUnits(corpus)
             /\ seqs[i] \in Seq(T)
             /\ DOMAIN seqs[i] = DOMAIN lessonsOf(corpus, at[i])
             /\ \A k \in DOMAIN lessonsOf(corpus, at[i]) :
                   seqs[i][k] = lessonsOf(corpus, at[i])[k].slug
  <2>1. PICK u \in AllUnits(corpus) : u = at[i] /\ seqs[i] = treeUnit(corpus, u).lessons
    BY <1>1 DEF Listed
  <2>2. /\ DOMAIN treeUnit(corpus, u).lessons = DOMAIN lessonsOf(corpus, u)
        /\ \A k \in DOMAIN lessonsOf(corpus, u) :
              treeUnit(corpus, u).lessons[k] = lessonsOf(corpus, u)[k].slug
    BY TreeUnitIs
  <2>3. treeUnit(corpus, u).lessons \in Seq(T)
    BY TreeUnitLessons
  <2> HIDE DEF seqs, T
  <2> QED  BY <2>1, <2>2, <2>3
<1>4. seqs \in Seq(Seq(T)) /\ DOMAIN seqs = DOMAIN units
  <2>1. Len(units) \in Nat /\ DOMAIN units = 1 .. Len(units)
    BY <1>1 DEF Listed
  <2>2. seqs = [i \in DOMAIN units |-> seqs[i]]
    OBVIOUS
  <2>3. DOMAIN seqs = DOMAIN units
    OBVIOUS
  <2> HIDE DEF seqs, T
  <2> QED  BY <1>3, <2>1, <2>2, <2>3
<1>5. PICK pair :
          /\ \A m \in DOMAIN ids :
                pair[m] \in Pairs(seqs) /\ ids[m] = seqs[pair[m][1]][pair[m][2]]
          /\ \A p \in Pairs(seqs) : \E m \in DOMAIN ids : pair[m] = p
          /\ \A m, n \in DOMAIN ids : m < n => Earlier(pair[m], pair[n])
  <2> HIDE DEF T, seqs
  <2> QED  BY <1>4, FlattenPairs
<1>6. ids \in Seq(T)
  <2> HIDE DEF T, seqs
  <2> QED  BY <1>4, FlattenPlaces
<1> DEFINE lessonAt(p) == lessonsOf(corpus, at[p[1]])[p[2]]
<1>7. ASSUME NEW p \in Pairs(seqs)
      PROVE  /\ p[1] \in DOMAIN units /\ p[1] \in Nat
             /\ at[p[1]] \in AllUnits(corpus)
             /\ p[2] \in DOMAIN lessonsOf(corpus, at[p[1]]) /\ p[2] \in Nat
             /\ p = <<p[1], p[2]>>
             /\ lessonAt(p) \in Lessons(corpus)
             /\ lessonAt(p).unit = at[p[1]].slug
             /\ seqs[p[1]][p[2]] = lessonAt(p).slug
  <2>1. /\ p = <<p[1], p[2]>>
        /\ p[1] \in 1 .. Len(seqs) /\ p[1] \in Nat
        /\ seqs[p[1]] \in Seq(T)
        /\ p[2] \in 1 .. Len(seqs[p[1]]) /\ p[2] \in Nat
    <3> HIDE DEF T, seqs
    <3> QED  BY <1>4, PairsAre
  <2>2. p[1] \in DOMAIN units
    <3> HIDE DEF T, seqs
    <3> QED  BY <2>1, <1>4
  <2>3. p[2] \in DOMAIN seqs[p[1]]
    <3> HIDE DEF T, seqs
    <3> QED  BY <2>1
  <2>4. /\ at[p[1]] \in AllUnits(corpus)
        /\ p[2] \in DOMAIN lessonsOf(corpus, at[p[1]])
        /\ seqs[p[1]][p[2]] = lessonAt(p).slug
    <3> HIDE DEF T, seqs
    <3> QED  BY <2>2, <2>3, <1>3
  <2>5. lessonAt(p) \in Lessons(corpus) /\ lessonAt(p).unit = at[p[1]].slug
    BY <2>4, LessonPlace
  <2> HIDE DEF T, seqs, lessonAt
  <2> QED  BY <2>1, <2>2, <2>4, <2>5
<1> HIDE DEF seqs, T, lessonAt
<1>8. \A p, q \in Pairs(seqs) : lessonAt(p) = lessonAt(q) => p = q
  <2> SUFFICES ASSUME NEW p \in Pairs(seqs), NEW q \in Pairs(seqs), lessonAt(p) = lessonAt(q)
               PROVE  p = q
    OBVIOUS
  <2>1. at[p[1]] = at[q[1]] /\ p[2] = q[2]
    BY <1>7, OnePlaceOfLesson DEF lessonAt
  <2>2. p[1] = q[1]
    BY <2>1, <1>1, <1>7 DEF Listed
  <2> QED  BY <2>1, <2>2, <1>7
<1>9. \A l \in Lessons(corpus) : \E p \in Pairs(seqs) : lessonAt(p) = l
  <2> SUFFICES ASSUME NEW l \in Lessons(corpus) PROVE \E p \in Pairs(seqs) : lessonAt(p) = l
    OBVIOUS
  <2>1. PICK u \in AllUnits(corpus) : \E k \in DOMAIN lessonsOf(corpus, u) :
            lessonsOf(corpus, u)[k] = l
    BY LessonPlaced
  <2>2. PICK k \in DOMAIN lessonsOf(corpus, u) : lessonsOf(corpus, u)[k] = l
    BY <2>1
  <2>3. PICK i \in DOMAIN units : at[i] = u
    BY <1>1 DEF Listed
  <2>4. i \in DOMAIN seqs /\ k \in DOMAIN seqs[i]
    BY <2>3, <1>3, <1>4
  <2>5. <<i, k>> \in Pairs(seqs)
    BY <2>4, PairsMake
  <2>6. lessonAt(<<i, k>>) = l
    BY <2>2, <2>3 DEF lessonAt
  <2> QED  BY <2>5, <2>6
<1>10. ASSUME NEW p \in Pairs(seqs), NEW q \in Pairs(seqs), Earlier(p, q)
       PROVE  lessonAt(p) # lessonAt(q) /\ ~comesBefore(corpus, lessonAt(q), lessonAt(p))
  <2> DEFINE l == lessonAt(p)
             m == lessonAt(q)
             u == at[p[1]]
             v == at[q[1]]
  <2>1. /\ l \in Lessons(corpus) /\ l.unit = u.slug /\ u \in AllUnits(corpus)
        /\ m \in Lessons(corpus) /\ m.unit = v.slug /\ v \in AllUnits(corpus)
    BY <1>7
  <2>2. p[1] \in Nat /\ q[1] \in Nat /\ p[2] \in Nat /\ q[2] \in Nat
    BY <1>7
  <2>3. l # m
    BY <1>8, <1>10, <2>2 DEF Earlier
  <2>4. CASE p[1] < q[1]
    <3>1. UnitBefore(corpus, u, v)
      BY <2>4, <1>1, <1>7 DEF Listed
    <3>2. u # v /\ ~UnitBefore(corpus, v, u)
      BY <3>1, <2>1, UnitBeforeOneWay
    <3>3. l.unit # m.unit
      BY <3>2, <2>1, OneSlugEach DEF AllUnits
    <3>4. unitOf(corpus, l) = u /\ unitOf(corpus, m) = v
      BY <2>1, OneSlugEach DEF unitOf, AllUnits
    <3>5. comesBefore(corpus, m, l) = UnitBefore(corpus, v, u)
      <4> HIDE DEF l, m, u, v, byOrder
      <4> QED  BY <3>3, <3>4 DEF comesBefore, UnitBefore
    <3> QED  BY <3>2, <3>5, <2>3
  <2>5. CASE p[1] = q[1] /\ p[2] < q[2]
    <3>1. InOrder(lessonsOf(corpus, u), LessonsIn(corpus, u)) /\ Ranked(LessonsIn(corpus, u))
      BY <2>1, PartsInOrder, AllRanked
    <3>2. /\ p[2] \in DOMAIN lessonsOf(corpus, u) /\ l = lessonsOf(corpus, u)[p[2]]
          /\ q[2] \in DOMAIN lessonsOf(corpus, u) /\ m = lessonsOf(corpus, u)[q[2]]
      BY <2>5, <1>7 DEF lessonAt
    <3> HIDE DEF l, m, u, v, byOrder
    <3>3. byOrder(l, m) /\ l \in LessonsIn(corpus, u) /\ m \in LessonsIn(corpus, u)
      BY <3>1, <3>2, <2>5 DEF InOrder
    <3>4. ~byOrder(m, l)
      BY <3>1, <3>3, ByOrderOneWay
    <3>5. l.unit = m.unit
      BY <2>1, <2>5 DEF u, v
    <3>6. comesBefore(corpus, m, l) = byOrder(m, l)
      BY <3>5 DEF comesBefore
    <3> QED  BY <3>4, <3>6, <2>3 DEF l, m
  <2> QED  BY <2>4, <2>5, <1>10 DEF Earlier
<1> DEFINE taught == [m \in DOMAIN ids |-> lessonAt(pair[m])]
<1>11. \A m \in DOMAIN ids : taught[m] = lessonAt(pair[m]) /\ pair[m] \in Pairs(seqs)
  BY <1>5
<1>12. Len(ids) \in Nat /\ DOMAIN ids = 1 .. Len(ids)
  BY <1>6
<1>13. \A m \in DOMAIN ids : taught[m] \in Lessons(corpus) /\ ids[m] = taught[m].slug
  BY <1>5, <1>7
<1>14. \A l \in Lessons(corpus) : \E m \in DOMAIN ids : taught[m] = l
  <2> SUFFICES ASSUME NEW l \in Lessons(corpus) PROVE \E m \in DOMAIN ids : taught[m] = l
    OBVIOUS
  <2>1. PICK p \in Pairs(seqs) : lessonAt(p) = l
    BY <1>9
  <2>2. PICK m \in DOMAIN ids : pair[m] = p
    BY <1>5
  <2> QED  BY <2>1, <2>2
<1> HIDE DEF taught, ids
<1>15. ASSUME NEW m \in DOMAIN ids, NEW n \in DOMAIN ids, m < n
       PROVE  taught[m] # taught[n] /\ ~comesBefore(corpus, taught[n], taught[m])
  <2>1. Earlier(pair[m], pair[n])
    BY <1>5, <1>15 DEF ids
  <2> QED  BY <2>1, <1>10, <1>11
<1>16. \A m \in DOMAIN ids : ~comesBefore(corpus, taught[m], taught[m])
  <2> SUFFICES ASSUME NEW m \in DOMAIN ids PROVE ~comesBefore(corpus, taught[m], taught[m])
    OBVIOUS
  <2>1. taught[m] \in Lessons(corpus)
    BY <1>13
  <2>2. PICK u \in AllUnits(corpus) : u.slug = taught[m].unit
    BY <2>1, LessonsParse
  <2>3. taught[m] \in LessonsIn(corpus, u) /\ Ranked(LessonsIn(corpus, u))
    BY <2>1, <2>2, AllRanked DEF LessonsIn, inUnit, Lessons
  <2>4. ~byOrder(taught[m], taught[m])
    BY <2>3, ByOrderOneWay
  <2> HIDE DEF byOrder
  <2> QED  BY <2>4 DEF comesBefore
<1>17. Taught(corpus, ids, taught)
  <2>1. \A m \in DOMAIN ids : m \in Nat \ {0}
    BY <1>12
  <2>2. \A p, q \in DOMAIN ids : comesBefore(corpus, taught[q], taught[p]) => q < p
    <3> SUFFICES ASSUME NEW p \in DOMAIN ids, NEW q \in DOMAIN ids, ~(q < p)
                 PROVE  ~comesBefore(corpus, taught[q], taught[p])
      OBVIOUS
    <3>1. CASE p = q
      BY <3>1, <1>16
    <3>2. CASE p < q
      BY <3>2, <1>15
    <3> QED  BY <3>1, <3>2, <2>1
  <2>3. \A p, q \in DOMAIN ids : taught[p] = taught[q] => p = q
    BY <2>1, <1>15
  <2> QED  BY <2>1, <2>2, <2>3, <1>12, <1>13, <1>14 DEF Taught
<1> QED  BY <1>2, <1>17

-----------------------------------------------------------------------------
(* What is taught and what is used.                                         *)

\* The stored lesson of a slug is the snapshot of the lesson of that slug.
LEMMA LessonInIs ==
    ASSUME NEW corpus, Publishable(corpus), NEW l \in Lessons(corpus)
    PROVE  \E k : lessonIn(buildRelease(corpus), l.slug) = lessonSnapshot(corpus, l, k)
<1> DEFINE stored == buildRelease(corpus).lessons
           found == {s \in stored : s.lessonId = l.slug}
<1>1. PICK u \in AllUnits(corpus) : \E k \in DOMAIN lessonsOf(corpus, u) :
          lessonsOf(corpus, u)[k] = l
  BY LessonPlaced
<1>2. PICK k \in DOMAIN lessonsOf(corpus, u) : lessonsOf(corpus, u)[k] = l
  BY <1>1
<1> DEFINE snapshot == lessonSnapshot(corpus, l, k)
<1>3. snapshot \in stored /\ snapshot.lessonId = l.slug
  <2>1. snapshot \in stored
    BY <1>2, StoredLessonsAre
  <2> QED  BY <2>1 DEF lessonSnapshot
<1>4. \A s, t \in stored : s.lessonId = t.lessonId => s = t
  BY BuiltWhole DEF Whole
<1> HIDE DEF stored, snapshot
<1>5. theOne(found) = snapshot
  <2>1. snapshot \in found /\ \A s \in found : s = snapshot
    BY <1>3, <1>4
  <2> HIDE DEF found
  <2> QED  BY <2>1 DEF theOne
<1>6. lessonIn(buildRelease(corpus), l.slug) = theOne(found)
  BY DEF lessonIn, found, stored
<1> QED  BY <1>5, <1>6 DEF snapshot

\* A stored lesson introduces what its record links to as introduced, and uses
\* nothing that it does not link to.
LEMMA SnapshotTeaches ==
    ASSUME NEW corpus, Publishable(corpus), NEW l \in Lessons(corpus), NEW k
    PROVE  /\ introducedIn(lessonSnapshot(corpus, l, k)) = linkedAs(l, "INTRODUCE")
           /\ usedItems(lessonSnapshot(corpus, l, k))
                 \subseteq linkedAs(l, "INTRODUCE") \union linkedAs(l, "RECYCLE")
<1> DEFINE snapshot == lessonSnapshot(corpus, l, k)
<1>1. /\ DOMAIN snapshot.items = DOMAIN l.items
      /\ DOMAIN snapshot.steps = DOMAIN l.steps
      /\ \A m \in DOMAIN l.items : snapshot.items[m].role = l.items[m].role
      /\ \A m \in DOMAIN l.items : snapshot.items[m].item = itemView(corpus, l.items[m].item)
      /\ \A m \in DOMAIN l.steps : snapshot.steps[m] = stepView(corpus, l, l.steps[m])
  BY DEF lessonSnapshot
<1> HIDE DEF snapshot
<1>2. \A m \in DOMAIN l.items : snapshot.items[m].item.slug = l.items[m].item
  BY <1>1, LinkedItem
<1>3. introducedIn(snapshot) = linkedAs(l, "INTRODUCE")
  <2>1. \A x : x \in introducedIn(snapshot) <=>
                  \E m \in DOMAIN l.items :
                      snapshot.items[m].role = "INTRODUCE" /\ x = snapshot.items[m].item.slug
    BY <1>1 DEF introducedIn
  <2>2. \A x : x \in linkedAs(l, "INTRODUCE") <=>
                  \E m \in DOMAIN l.items : l.items[m].role = "INTRODUCE" /\ x = l.items[m].item
    BY DEF linkedAs
  <2>3. \A x : x \in introducedIn(snapshot) <=> x \in linkedAs(l, "INTRODUCE")
    <3> HIDE DEF introducedIn, linkedAs
    <3> QED  BY <2>1, <2>2, <1>1, <1>2
  <2>4. \A x \in introducedIn(snapshot) : x \in linkedAs(l, "INTRODUCE")
    BY <2>3
  <2>5. \A x \in linkedAs(l, "INTRODUCE") : x \in introducedIn(snapshot)
    BY <2>3
  <2> QED  BY <2>4, <2>5
<1>4. linked(l) \subseteq linkedAs(l, "INTRODUCE") \union linkedAs(l, "RECYCLE")
  <2>1. lessonSchema(l)
    BY LessonsParse
  <2> QED  BY <2>1 DEF lessonSchema, linked, linkedAs
<1>5. checkSteps(corpus, l)
  BY DEF Publishable, checkContentRefs, Lessons
<1>6. ASSUME NEW m \in DOMAIN l.steps
      PROVE  /\ stepItems(snapshot.steps[m]) \subseteq linked(l)
             /\ snapshot.steps[m].type = "PATTERN_DRILL" => snapshot.steps[m].pattern \in linked(l)
  <2>1. /\ stepItems(l.steps[m]) \subseteq linked(l)
        /\ l.steps[m].type = "PATTERN_DRILL" => l.steps[m].pattern \in linked(l)
    BY <1>5 DEF checkSteps
  <2>2. CASE l.steps[m].type = "DIALOGUE"
    <3>1. stepView(corpus, l, l.steps[m]).type = "DIALOGUE"
      BY <2>2 DEF stepView
    <3>2. snapshot.steps[m].type = "DIALOGUE"
      BY <3>1, <1>1, Zenon
    <3> QED  BY <3>2 DEF stepItems
  <2>3. CASE l.steps[m].type # "DIALOGUE"
    <3>1. snapshot.steps[m] = l.steps[m]
      BY <2>3, <1>1 DEF stepView
    <3> QED  BY <3>1, <2>1
  <2> QED  BY <2>2, <2>3
<1>7. usedItems(snapshot) \subseteq linked(l)
  <2>1. \A x \in usedItems(snapshot) : \E m \in DOMAIN l.steps :
            \/ x \in stepItems(snapshot.steps[m])
            \/ snapshot.steps[m].type = "PATTERN_DRILL" /\ x = snapshot.steps[m].pattern
    BY <1>1 DEF usedItems
  <2> QED  BY <2>1, <1>6
<1> QED  BY <1>3, <1>4, <1>7 DEF snapshot

\* A learner is taught an item before a step uses it, and once, in the release of
\* a corpus that was let through: checkContentRefs.
THEOREM BuiltTaughtFirst ==
    ASSUME NEW corpus, Publishable(corpus)
    PROVE  TaughtFirst(buildRelease(corpus))
<1> DEFINE release == buildRelease(corpus)
           ids == pathOf(release)
           lesson(p) == lessonIn(release, ids[p])
           intro(p) == introducedIn(lesson(p))
<1>1. PICK taught : Taught(corpus, ids, taught)
  BY PathTaught
<1> HIDE DEF ids, release
<1>2. ASSUME NEW p \in DOMAIN ids
      PROVE  /\ p \in Nat \ {0} /\ taught[p] \in Lessons(corpus)
             /\ intro(p) = linkedAs(taught[p], "INTRODUCE")
             /\ usedItems(lesson(p)) \subseteq
                    linkedAs(taught[p], "INTRODUCE") \union linkedAs(taught[p], "RECYCLE")
  <2>1. p \in Nat \ {0} /\ taught[p] \in Lessons(corpus) /\ ids[p] = taught[p].slug
    BY <1>1 DEF Taught
  <2>2. PICK k : lesson(p) = lessonSnapshot(corpus, taught[p], k)
    BY <2>1, LessonInIs DEF release
  <2> HIDE DEF lesson
  <2> QED  BY <2>1, <2>2, SnapshotTeaches
<1>3. DOMAIN ids = 1 .. Len(ids) /\ Len(ids) \in Nat
  BY <1>1 DEF Taught
<1> HIDE DEF lesson
<1>4. ASSUME NEW p \in DOMAIN ids
      PROVE  usedItems(lesson(p)) \subseteq UNION {introducedIn(lesson(q)) : q \in 1 .. p}
  <2> SUFFICES ASSUME NEW x \in usedItems(lesson(p))
               PROVE  \E q \in 1 .. p : x \in intro(q)
    OBVIOUS
  <2>1. CASE x \in linkedAs(taught[p], "INTRODUCE")
    <3>1. p \in 1 .. p /\ x \in intro(p)
      BY <2>1, <1>2
    <3> QED  BY <3>1
  <2>2. CASE x \in linkedAs(taught[p], "RECYCLE")
    <3>1. PICK m \in Lessons(corpus) :
              comesBefore(corpus, m, taught[p]) /\ x \in linkedAs(m, "INTRODUCE")
      BY <2>2, <1>2 DEF Publishable, checkContentRefs, RecycledLater, Lessons
    <3>2. PICK q \in DOMAIN ids : taught[q] = m
      BY <1>1 DEF Taught
    <3>3. q < p
      BY <3>1, <3>2, <1>1 DEF Taught
    <3>4. q \in 1 .. p /\ x \in intro(q)
      BY <3>1, <3>2, <3>3, <1>2
    <3> QED  BY <3>4
  <2> QED  BY <2>1, <2>2, <1>2
<1>5. ASSUME NEW p \in DOMAIN ids, NEW q \in DOMAIN ids, p # q
      PROVE  intro(p) \intersect intro(q) = {}
  <2> SUFFICES ASSUME NEW x \in intro(p), x \in intro(q) PROVE FALSE
    OBVIOUS
  <2>1. PICK k \in DOMAIN taught[p].items :
            taught[p].items[k].item = x /\ taught[p].items[k].role = "INTRODUCE"
    BY <1>2 DEF linkedAs
  <2>2. PICK n \in DOMAIN taught[q].items :
            taught[q].items[n].item = x /\ taught[q].items[n].role = "INTRODUCE"
    BY <1>2 DEF linkedAs
  <2>3. taught[p] \in of(corpus, "lesson") /\ taught[q] \in of(corpus, "lesson")
    BY <1>2 DEF Lessons
  <2>4. <<taught[p], k>> \in introductions(corpus, x) /\ <<taught[q], n>> \in introductions(corpus, x)
    BY <2>1, <2>2, <2>3 DEF introductions
  <2>5. PICK item \in of(corpus, "item") : item.slug = x
    <3>1. itemView(corpus, x) \in of(corpus, "item") /\ itemView(corpus, x).slug = x
      BY <1>2, <2>1, LinkedItem
    <3> QED  BY <3>1
  <2>6. PICK link \in introductions(corpus, x) : introductions(corpus, x) = {link}
    BY <2>5 DEF Publishable, checkContentRefs, IntroducedOnce
  <2>7. taught[p] = taught[q]
    BY <2>4, <2>6
  <2> QED  BY <2>7, <1>1, <1>5 DEF Taught
<1>6. itemIds(release) = UNION {introducedIn(lesson(p)) : p \in DOMAIN ids}
  <2>1. ASSUME NEW x \in itemIds(release)
        PROVE  \E p \in DOMAIN ids : x \in intro(p)
    <3>1. PICK item \in of(corpus, "item") : item.slug = x
      BY DEF itemIds, release, buildRelease
    <3>2. PICK link \in introductions(corpus, x) : TRUE
      BY <3>1 DEF Publishable, checkContentRefs, IntroducedOnce
    <3>3. PICK l \in Lessons(corpus) : x \in linkedAs(l, "INTRODUCE")
      BY DEF introductions, Lessons, linkedAs
    <3>4. PICK p \in DOMAIN ids : taught[p] = l
      BY <1>1 DEF Taught
    <3> QED  BY <3>3, <3>4, <1>2
  <2>2. ASSUME NEW p \in DOMAIN ids, NEW x \in intro(p)
        PROVE  x \in itemIds(release)
    <3>1. PICK k \in DOMAIN taught[p].items : taught[p].items[k].item = x
      BY <1>2 DEF linkedAs
    <3>2. itemView(corpus, x) \in of(corpus, "item") /\ itemView(corpus, x).slug = x
      BY <1>2, <3>1, LinkedItem
    <3> QED  BY <3>2 DEF itemIds, release, buildRelease
  <2> QED  BY <2>1, <2>2
<1>7. TaughtFirst(release)
  BY <1>4, <1>5, <1>6 DEF TaughtFirst, ids, pathOf, lesson
<1> QED  BY <1>7 DEF release

-----------------------------------------------------------------------------
(* What is let through can be published.                                    *)

\* From files: loadContent.
LEMMA FilesPublishable ==
    ASSUME NEW corpus, inFiles(corpus), \A r \in corpus : r.slug \in ToSet(Slugs),
           loadContent(corpus)
    PROVE  Publishable(corpus)
<1>1. \A s \in of(corpus, "stage") : stageSchema(s)
  BY DEF loadContent, parseAdminRecord, of
<1> QED  BY <1>1 DEF Publishable, loadContent

\* From rows: rowsToCorpus.
LEMMA RowsPublishable ==
    ASSUME NEW copy, IsFiniteSet(copy), \A r \in copy : r.slug \in ToSet(Slugs),
           \A a, b \in of(copy, "checkpoint") : a.unit = b.unit => a = b,
           rowsToCorpus(copy)
    PROVE  Publishable(corpusOf(copy))
<1> DEFINE corpus == corpusOf(copy)
<1>1. corpus \in SUBSET copy
  BY DEF corpusOf
<1>2. \A r \in copy : r.kind # "checkpoint" => r \in corpus
  BY DEF corpusOf, orphanCheckpoints, of
<1>3. of(corpus, "unit") = of(copy, "unit") /\ slugsOf(corpus, "unit") = slugsOf(copy, "unit")
  <2>1. \A r : r \in of(corpus, "unit") <=> r \in of(copy, "unit")
    BY <1>1, <1>2 DEF of
  <2> QED  BY <2>1 DEF slugsOf
<1>4. \A r \in corpus : r.kind \in ChildKinds => r.unit \in slugsOf(corpus, "unit")
  <2> SUFFICES ASSUME NEW r \in corpus, r.kind \in ChildKinds
               PROVE  r.unit \in slugsOf(copy, "unit")
    BY <1>3
  <2>1. CASE r.kind = "checkpoint"
    BY <2>1 DEF corpusOf, orphanCheckpoints, of
  <2>2. CASE r.kind \in {"item", "dialogue", "lesson"}
    BY <2>2, <1>1 DEF rowsToCorpus, rowsFit
  <2> QED  BY <2>1, <2>2 DEF ChildKinds
<1>5. inFiles(corpus)
  <2>1. IsFiniteSet(corpus)
    BY <1>1, FS_Subset
  <2> QED  BY <1>1, <1>4, <2>1 DEF inFiles, of
<1>6. \A s \in of(corpus, "stage") : stageSchema(s)
  BY <1>1 DEF rowsToCorpus, rowsFit, of
<1>7. ASSUME NEW u \in of(corpus, "unit")
      PROVE  unitFileSchema(unitFile(corpus, u))
  <2>1. unitFileSchema(unitFile(copy, u))
    BY <1>3 DEF rowsToCorpus, rowsFit
  <2>2. \A r \in copy : r.kind \in ChildKinds /\ r.unit = u.slug => r \in corpus
    BY <1>3 DEF corpusOf, orphanCheckpoints, slugsOf
  <2>3. unitFile(corpus, u) = unitFile(copy, u)
    BY <1>1, <2>2 DEF unitFile
  <2> QED  BY <2>1, <2>3
<1>8. checkContentRefs(corpus) /\ \A r \in corpus : r.slug \in ToSet(Slugs)
  BY <1>1 DEF rowsToCorpus
<1> HIDE DEF corpus
<1>9. Publishable(corpus)
  BY <1>5, <1>6, <1>7, <1>8 DEF Publishable
<1> QED  BY <1>9 DEF corpus
=============================================================================
