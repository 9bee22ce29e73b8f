------------------------------- MODULE ReleaseLogic -------------------------------
(***************************************************************************)
(* The snapshot a release stores: src/src/release/release.logic.ts, and    *)
(* the reads of it in src/src/path-content/published-content.service.ts.   *)
(* An id is the slug it is derived from (ContentSchema), so a view is its  *)
(* record; a dialogue step alone takes in more, the dialogue itself.       *)
(***************************************************************************)
EXTENDS ContentRules, TLC

Path == INSTANCE PlacementLogic

-----------------------------------------------------------------------------
(* buildRelease.                                                            *)

theOne(set) == IF set = {} THEN None ELSE CHOOSE r \in set : TRUE

itemView(corpus, slug) ==
    theOne({i \in of(corpus, "item") : i.slug = slug})

\* Mutant: a dialogue is stored to be listened to, whatever its step says.
stepViewListens(corpus, lesson, step) ==
    IF step.type = "DIALOGUE"
    THEN [type |-> "DIALOGUE", mode |-> "listen",
          dialogue |-> theOne({d \in inUnit(corpus, "dialogue", lesson.unit) :
                                  d.slug = step.dialogue})]
    ELSE step

stepView(corpus, lesson, step) ==
    IF step.type = "DIALOGUE"
    THEN [type |-> "DIALOGUE", mode |-> step.mode,
          dialogue |-> theOne({d \in inUnit(corpus, "dialogue", lesson.unit) :
                                  d.slug = step.dialogue})]
    ELSE step

\* The payload of a lesson at a position of its unit.
lessonSnapshot(corpus, lesson, position) ==
    [lessonId |-> lesson.slug, unitId |-> lesson.unit, order |-> position,
     items |-> [k \in DOMAIN lesson.items |->
                   [item |-> itemView(corpus, lesson.items[k].item),
                    role |-> lesson.items[k].role]],
     steps |-> [k \in DOMAIN lesson.steps |->
                   stepView(corpus, lesson, lesson.steps[k])]]

checkpointSnapshot(checkpoint) ==
    [checkpointId |-> checkpoint.slug, unitId |-> checkpoint.unit,
     passPercent |-> checkpoint.passPercent, questions |-> checkpoint.questions]

\* A unit of the tree, as UnitLogic reads it.
treeUnit(corpus, unit) ==
    LET lessons == lessonsOf(corpus, unit)
        checkpoints == inUnit(corpus, "checkpoint", unit.slug)
    IN  [id |-> unit.slug,
         lessons |-> [k \in DOMAIN lessons |-> lessons[k].slug],
         checkpointId |-> IF checkpoints = {} THEN None
                          ELSE theOne(checkpoints).slug]

buildTree(corpus) ==
    LET stages == stagesOf(corpus)
        units(s) == unitsOf(corpus, stages[s])
    IN  [s \in DOMAIN stages |->
            [i \in DOMAIN units(s) |-> treeUnit(corpus, units(s)[i])]]

\* Mutant: the lessons of a stage's last unit only are stored.
buildLessonsOfLast(corpus) ==
    LET units == unitsInPathOrder(corpus)
        lessons == lessonsOf(corpus, units[Len(units)])
    IN  {lessonSnapshot(corpus, lessons[k], k) : k \in DOMAIN lessons}

buildLessons(corpus) ==
    UNION {LET lessons == lessonsOf(corpus, u)
           IN  {lessonSnapshot(corpus, lessons[k], k) : k \in DOMAIN lessons} :
               u \in of(corpus, "unit")}

buildRelease(corpus) ==
    [tree |-> buildTree(corpus),
     lessons |-> buildLessons(corpus),
     checkpoints |-> {checkpointSnapshot(c) : c \in of(corpus, "checkpoint")},
     items |-> of(corpus, "item"),
     placement |-> theOne(of(corpus, "placement"))]

itemIds(release) == {i.slug : i \in release.items}

\* The items the new release drops from those learners had.
retiredItemIds(previous, next) == previous \ next

-----------------------------------------------------------------------------
(* Reading a release.                                                       *)

lessonIn(release, lessonId) ==
    theOne({l \in release.lessons : l.lessonId = lessonId})
checkpointIn(release, checkpointId) ==
    theOne({c \in release.checkpoints : c.checkpointId = checkpointId})
filterPublished(release, ids) == ids \intersect itemIds(release)
hydrate(release, ids) ==
    {i \in release.items : i.slug \in filterPublished(release, ids)}

-----------------------------------------------------------------------------
(* What learners may count on.                                              *)

\* A unit and a lesson have one place each in the tree, and no unit is empty.
\* What the tree names is stored once, where the tree has it and with the items
\* it uses, and nothing else is.
Whole(release) ==
    LET units == Path!unitsInOrder(release.tree)
    IN  /\ Path!onePlaceEach(units)
        /\ \A i \in DOMAIN units :
              /\ units[i].lessons # <<>>
              /\ \A k \in DOMAIN units[i].lessons :
                    \E lesson \in release.lessons :
                        lesson.lessonId = units[i].lessons[k]
              /\ units[i].checkpointId # None =>
                    \E c \in release.checkpoints :
                        c.checkpointId = units[i].checkpointId
        /\ \A lesson \in release.lessons :
              /\ \E i \in DOMAIN units :
                    /\ lesson.unitId = units[i].id
                    /\ lesson.order \in DOMAIN units[i].lessons
                    /\ lesson.lessonId = units[i].lessons[lesson.order]
              /\ \A k \in DOMAIN lesson.items : lesson.items[k].item \in release.items
              /\ \A other \in release.lessons :
                    lesson.lessonId = other.lessonId => lesson = other
        /\ \A c \in release.checkpoints :
              /\ \E i \in DOMAIN units :
                    c.unitId = units[i].id /\ c.checkpointId = units[i].checkpointId
              /\ \A other \in release.checkpoints :
                    c.checkpointId = other.checkpointId => c = other

\* The items a lesson's steps put to use.
usedItems(lesson) ==
    UNION {stepItems(lesson.steps[k]) \union
           (IF lesson.steps[k].type = "PATTERN_DRILL"
            THEN {lesson.steps[k].pattern} ELSE {}) : k \in DOMAIN lesson.steps}

introducedIn(lesson) ==
    {lesson.items[k].item.slug : k \in {m \in DOMAIN lesson.items :
        lesson.items[m].role = "INTRODUCE"}}

\* Who goes along the path is taught an item before a step uses it, and once.
TaughtFirst(release) ==
    LET ids == FlattenSeq([i \in DOMAIN Path!unitsInOrder(release.tree) |->
                              Path!unitsInOrder(release.tree)[i].lessons])
        lesson(p) == lessonIn(release, ids[p])
    IN  /\ \A p \in DOMAIN ids :
              usedItems(lesson(p)) \subseteq
                  UNION {introducedIn(lesson(q)) : q \in 1..p}
        /\ \A p, q \in DOMAIN ids :
              p # q => introducedIn(lesson(p)) \intersect introducedIn(lesson(q)) = {}
        /\ itemIds(release) = UNION {introducedIn(lesson(p)) : p \in DOMAIN ids}

-----------------------------------------------------------------------------
(* What admins may count on.                                                *)

\* A stored lesson is what its record says, a dialogue by its slug.
TellsLesson(stored, record) ==
    /\ stored.lessonId = record.slug /\ stored.unitId = record.unit
    /\ DOMAIN stored.items = DOMAIN record.items
    /\ \A k \in DOMAIN record.items :
          /\ stored.items[k].item.slug = record.items[k].item
          /\ stored.items[k].role = record.items[k].role
    /\ DOMAIN stored.steps = DOMAIN record.steps
    /\ \A k \in DOMAIN record.steps :
          LET step == record.steps[k]
          IN  IF step.type = "DIALOGUE"
              THEN /\ stored.steps[k].type = "DIALOGUE"
                   /\ stored.steps[k].mode = step.mode
                   /\ stored.steps[k].dialogue.slug = step.dialogue
              ELSE stored.steps[k] = step

\* A release has a record as it stands: a unit is in the tree, a lesson and a
\* checkpoint are stored and in the tree under their unit, a dialogue is the one
\* every stored step of its slug tells.  A stage is seen in the places of its
\* units (InPlaces).  A checkpoint whose unit is not in the tree is in no release.
HoldsRecord(release, record) ==
    LET units == ToSet(Path!unitsInOrder(release.tree))
    IN  /\ record.kind = "item" => record \in release.items
        /\ record.kind = "placement" => release.placement = record
        /\ record.kind = "unit" => \E u \in units : u.id = record.slug
        /\ record.kind = "lesson" =>
              \E stored \in release.lessons, u \in units :
                  /\ TellsLesson(stored, record)
                  /\ u.id = record.unit
                  /\ stored.order \in DOMAIN u.lessons
                  /\ u.lessons[stored.order] = record.slug
        /\ record.kind = "dialogue" =>
              \A stored \in release.lessons : \A k \in DOMAIN stored.steps :
                  /\ stored.steps[k].type = "DIALOGUE"
                  /\ stored.steps[k].dialogue.slug = record.slug
                  => stored.steps[k].dialogue = record
        /\ record.kind = "checkpoint" =>
              \A u \in units : u.id = record.unit =>
                  /\ u.checkpointId = record.slug
                  /\ checkpointSnapshot(record) \in release.checkpoints

\* The lessons of a unit, the units of a stage and the stages are in the release
\* in the order of their positions, and units share a stage as their records do.
InPlaces(release, records) ==
    LET tree == release.tree
    IN  /\ \A a, b \in of(records, "lesson") : \A l, m \in release.lessons :
              /\ l.lessonId = a.slug /\ m.lessonId = b.slug
              /\ a.unit = b.unit /\ byOrder(a, b)
              => l.order < m.order
        /\ \A a, b \in of(records, "unit") : \A s, t \in DOMAIN tree :
              \A i \in DOMAIN tree[s], j \in DOMAIN tree[t] :
                  tree[s][i].id = a.slug /\ tree[t][j].id = b.slug =>
                      /\ s = t <=> a.stage = b.stage
                      /\ a.stage = b.stage /\ byOrder(a, b) => i < j
                      /\ \A x, y \in of(records, "stage") :
                            a.stage = x.slug /\ b.stage = y.slug /\ byOrder(x, y)
                            => s < t
=============================================================================
