------------------------------- MODULE ContentRules -------------------------------
(***************************************************************************)
(* The rules across records: rowsToCorpus of src/src/content/              *)
(* content-rows.ts, checkContentRefs of content-refs.logic.ts and          *)
(* loadContent of content-loader.ts.                                       *)
(*                                                                         *)
(* A corpus is the set of its seed records (toSeedRecords): a unit file is *)
(* its unit with the records that name it, a lesson's place in the file is *)
(* its "order".  Two records with one kind and slug are a duplicate.  The  *)
(* code collects messages; only whether there are any decides anything.    *)
(***************************************************************************)
EXTENDS ContentSchema, FiniteSets, FiniteSetsExt

CONSTANT Slugs  \* every slug there is, in alphabetical order

ASSUME SlugsAssumption ==
    /\ Slugs \in Seq(ToSet(Slugs))
    /\ \A i, j \in DOMAIN Slugs : Slugs[i] = Slugs[j] => i = j

PLACEMENT_MIN_QUESTIONS_PER_UNIT == 2

bySlug(a, b) ==
    \E i, j \in DOMAIN Slugs : Slugs[i] = a.slug /\ Slugs[j] = b.slug /\ i < j
byOrder(a, b) == a.order < b.order \/ (a.order = b.order /\ bySlug(a, b))

of(corpus, kind) == {r \in corpus : r.kind = kind}
slugsOf(corpus, kind) == {r.slug : r \in of(corpus, kind)}
inUnit(corpus, kind, unit) == {r \in of(corpus, kind) : r.unit = unit}

\* The records in the order "before" puts them in.
sorted(records, before(_, _)) ==
    LET place(r) == 1 + Cardinality({q \in records : before(q, r)})
    IN  [i \in 1..Cardinality(records) |-> CHOOSE r \in records : place(r) = i]

stagesOf(corpus) == sorted(of(corpus, "stage"), byOrder)
unitsOf(corpus, stage) ==
    sorted({u \in of(corpus, "unit") : u.stage = stage.slug}, byOrder)
lessonsOf(corpus, unit) == sorted(inUnit(corpus, "lesson", unit.slug), byOrder)

\* "ordered": units and lessons in learning order.
unitsInPathOrder(corpus) ==
    LET stages == stagesOf(corpus)
    IN  FlattenSeq([s \in DOMAIN stages |-> unitsOf(corpus, stages[s])])

\* Lessons in learning order.
unitOf(corpus, lesson) ==
    CHOOSE u \in of(corpus, "unit") : u.slug = lesson.unit
stageOf(corpus, unit) == CHOOSE s \in of(corpus, "stage") : s.slug = unit.stage
comesBefore(corpus, a, b) ==
    IF a.unit = b.unit THEN byOrder(a, b)
    ELSE LET u == unitOf(corpus, a)
             v == unitOf(corpus, b)
         IN  IF u.stage = v.stage THEN byOrder(u, v)
             ELSE byOrder(stageOf(corpus, u), stageOf(corpus, v))

-----------------------------------------------------------------------------
(* checkContentRefs, one rule each.                                         *)

reportDuplicates(corpus) ==
    \A a, b \in corpus : a.kind = b.kind /\ a.slug = b.slug => a = b

UniqueOrders(corpus) ==
    /\ \A a, b \in of(corpus, "stage") : a.order = b.order => a = b
    /\ \A u \in of(corpus, "unit") : u.stage \in slugsOf(corpus, "stage")
    /\ \A a, b \in of(corpus, "unit") :
          a.stage = b.stage /\ a.order = b.order => a = b

linked(lesson) == {lesson.items[k].item : k \in DOMAIN lesson.items}
linkedAs(lesson, role) ==
    {lesson.items[k].item : k \in {m \in DOMAIN lesson.items :
                                      lesson.items[m].role = role}}

\* An item is introduced by one link, in a lesson of the unit that defines it.
introductions(corpus, item) ==
    UNION {{<<l, k>> : k \in {m \in DOMAIN l.items :
               l.items[m].item = item /\ l.items[m].role = "INTRODUCE"}} :
                   l \in of(corpus, "lesson")}
IntroducedOnce(corpus) ==
    \A item \in of(corpus, "item") :
        \E link \in introductions(corpus, item.slug) :
            introductions(corpus, item.slug) = {link}
IntroducedAtHome(corpus) ==
    \A l \in of(corpus, "lesson") :
        linkedAs(l, "INTRODUCE")
            \subseteq {i.slug : i \in inUnit(corpus, "item", l.unit)}

\* Mutant: an item may be recycled by any lesson.
RecycledAnywhere(corpus) ==
    \A l \in of(corpus, "lesson") :
        Cardinality(linked(l)) = Len(l.items) /\ linked(l) \subseteq slugsOf(corpus, "item")

RecycledLater(corpus) ==
    LET lessons == of(corpus, "lesson")
    IN  \A l \in lessons :
            /\ Cardinality(linked(l)) = Len(l.items)
            /\ linked(l) \subseteq slugsOf(corpus, "item")
            /\ \A item \in linkedAs(l, "RECYCLE") :
                  \E m \in lessons : /\ comesBefore(corpus, m, l)
                                     /\ item \in linkedAs(m, "INTRODUCE")

checkQuestions(corpus, questions) ==
    \A i \in DOMAIN questions :
        questions[i].item \in slugsOf(corpus, "item") \union {None}

checkSteps(corpus, lesson) ==
    \A i \in DOMAIN lesson.steps :
        LET step == lesson.steps[i]
        IN  /\ step.type = "INTRO" => step.items \subseteq linkedAs(lesson, "INTRODUCE")
            /\ stepItems(step) \subseteq linked(lesson)
            /\ step.type = "PATTERN_DRILL" =>
                  /\ step.pattern \in linked(lesson)
                  /\ \A item \in of(corpus, "item") : item.slug = step.pattern =>
                        /\ item.type = "PATTERN"
                        /\ step.fills \subseteq item.pattern.slots
            /\ step.type = "DIALOGUE" =>
                  \E d \in inUnit(corpus, "dialogue", lesson.unit) :
                      d.slug = step.dialogue
            /\ step.type = "QUIZ" => checkQuestions(corpus, step.questions)

\* Mutant: one question about a unit is enough.
checkPlacementOrderOnly(corpus, placement) ==
    LET units == unitsInPathOrder(corpus)
        rank(i) == SelectInSeq(units, LAMBDA u : u.slug = placement.questions[i].unit)
    IN  \A i, j \in DOMAIN placement.questions :
            rank(i) > 0 /\ (i < j => rank(i) <= rank(j))

checkPlacement(corpus, placement) ==
    LET units == unitsInPathOrder(corpus)
        questions == placement.questions
        rank(i) == SelectInSeq(units, LAMBDA u : u.slug = questions[i].unit)
    IN  /\ checkQuestions(corpus, questions)
        /\ \A i \in DOMAIN questions :
              /\ rank(i) > 0
              /\ \A j \in DOMAIN questions : i < j => rank(i) <= rank(j)
              /\ Cardinality({j \in DOMAIN questions :
                     questions[j].unit = questions[i].unit})
                         >= PLACEMENT_MIN_QUESTIONS_PER_UNIT

checkContentRefs(corpus) ==
    /\ reportDuplicates(corpus)
    /\ UniqueOrders(corpus)
    /\ IntroducedOnce(corpus)
    /\ IntroducedAtHome(corpus)
    /\ RecycledLater(corpus)
    /\ \A l \in of(corpus, "lesson") : checkSteps(corpus, l)
    /\ \A c \in of(corpus, "checkpoint") : checkQuestions(corpus, c.questions)
    /\ \A p \in of(corpus, "placement") : checkPlacement(corpus, p)

-----------------------------------------------------------------------------
(* From rows.  "copy" holds the records of the rows that are not archived.  *)
(* A checkpoint is looked up from its unit: one whose unit is not there is  *)
(* in no unit file, and nothing says so.                                    *)

unitFile(copy, unit) ==
    {unit} \union {r \in copy : r.kind \in ChildKinds /\ r.unit = unit.slug}

orphanCheckpoints(copy) ==
    {c \in of(copy, "checkpoint") : c.unit \notin slugsOf(copy, "unit")}

corpusOf(copy) == copy \ orphanCheckpoints(copy)

rowsFit(copy) ==
    /\ \A r \in copy : r.kind \in {"item", "dialogue", "lesson"} =>
          r.unit \in slugsOf(copy, "unit")
    /\ \A u \in of(copy, "unit") :
          u.stage \in slugsOf(copy, "stage") /\ unitFileSchema(unitFile(copy, u))
    /\ \A s \in of(copy, "stage") : stageSchema(s)
    /\ \A l \in of(copy, "lesson") : linked(l) \subseteq slugsOf(copy, "item")
    /\ Cardinality(of(copy, "placement")) <= 1
    /\ \A p \in of(copy, "placement") : placementSchema(p)

rowsToCorpus(copy) == rowsFit(copy) /\ checkContentRefs(corpusOf(copy))

-----------------------------------------------------------------------------
(* From files.  Every file parses and the corpus holds together; a unit's   *)
(* file is named for its slug and its stage.                                *)

\* What a corpus read from files is: a child is in the file of its unit, which
\* has one field for a checkpoint.
inFiles(corpus) ==
    /\ IsFiniteSet(corpus)
    /\ \A r \in corpus : r.kind \in ChildKinds => r.unit \in slugsOf(corpus, "unit")
    /\ \A a, b \in of(corpus, "checkpoint") : a.unit = b.unit => a = b

loadContent(corpus) ==
    /\ of(corpus, "stage") # {}
    /\ \A r \in corpus : r.kind \in {"stage", "placement"} => parseAdminRecord(r)
    /\ \A u \in of(corpus, "unit") : unitFileSchema(unitFile(corpus, u))
    /\ checkContentRefs(corpus)

\* Every record of a corpus, parents before children; among those of one kind
\* the order of the slugs stands for the order of the files.
byKind(a, b) ==
    \/ \E i, j \in DOMAIN IMPORT_ORDER :
          IMPORT_ORDER[i] = a.kind /\ IMPORT_ORDER[j] = b.kind /\ i < j
    \/ a.kind = b.kind /\ bySlug(a, b)

toSeedRecords(corpus) == sorted(corpus, byKind)
=============================================================================
