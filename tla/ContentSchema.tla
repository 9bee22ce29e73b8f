------------------------------ MODULE ContentSchema ------------------------------
(***************************************************************************)
(* What one content record must look like: the zod schemas of              *)
(* src/src/content/content.schema.ts and parseAdminRecord of               *)
(* src/src/admin-path/admin-records.ts, as predicates.                     *)
(*                                                                         *)
(* A record is in its seed shape: it has a kind and a slug, and points at  *)
(* other records by slug.  An id is a function of the kind and the slug    *)
(* (contentId), one for each, so a slug stands for the id too.  Texts are  *)
(* opaque, and what only a text can get wrong (a highlight not in its      *)
(* sentence, a slug not in kebab-case) is left out.                        *)
(***************************************************************************)
EXTENDS Naturals, SequencesExt

CONSTANT None  \* an absent field, null

\* Parents before children.
IMPORT_ORDER == <<"stage", "unit", "item", "dialogue", "lesson", "checkpoint",
                  "placement">>
Kinds == ToSet(IMPORT_ORDER)

\* The kinds whose record names the unit it belongs to.
ChildKinds == {"item", "dialogue", "lesson", "checkpoint"}

-----------------------------------------------------------------------------
(* Items and questions.  A pattern is its sets of slot names: those its     *)
(* template has and those it declares.                                      *)

patternSchema(pattern) ==
    /\ pattern.slots # {}
    /\ pattern.inTemplate = pattern.slots

itemSchema(item) ==
    /\ item.type \in {"LEXICAL", "PHRASE", "PATTERN", "GRAMMAR"}
    /\ (item.pattern # None) <=> (item.type = "PATTERN")
    /\ item.pattern # None => patternSchema(item.pattern)
    /\ item.hasGrammar <=> (item.type = "GRAMMAR")

\* Mutant: an answer one past the last option is let through.
answerUpToLength(q) == q.answer <= Len(q.options)

\* The options are numbered from 0.
checkChoiceAnswer(q) == q.answer < Len(q.options)

questionSchema(q) ==
    \/ q.kind = "choice" /\ Len(q.options) \in 2..6 /\ checkChoiceAnswer(q)
    \/ q.kind = "gap" /\ q.answers # <<>>
    \/ q.kind = "order"

questionsSchema(questions) ==
    questions # <<>> /\ \A i \in DOMAIN questions : questionSchema(questions[i])

placementQuestionSchema(q) == "unit" \in DOMAIN q /\ questionSchema(q)

-----------------------------------------------------------------------------
(* Steps: each type has a payload of its own.  EXPLAIN's items are          *)
(* optional, slugList wants one at least.  A drill has so many "prompts",   *)
(* which fill the slots "fills", none of them maybe.                        *)

stepPayloadSchemas(step) ==
    \/ step.type = "WARMUP" /\ step.maxItems \in 1..30
    \/ step.type = "INTRO" /\ step.items # {}
    \/ step.type = "EXPLAIN" /\ step.items # {}
    \/ step.type = "PRACTICE" /\ step.items # {} /\ step.modes # {}
    \/ step.type = "PATTERN_DRILL" /\ step.prompts > 0
    \/ step.type = "SPEAK" /\ step.lines > 0
    \/ step.type = "DIALOGUE" /\ step.mode \in {"listen", "roleplay"}
    \/ step.type = "QUIZ" /\ questionsSchema(step.questions)

\* "items" is None in an EXPLAIN step that names none.
stepItems(step) ==
    IF step.type \in {"INTRO", "EXPLAIN", "PRACTICE"} /\ step.items # None
    THEN step.items ELSE {}

-----------------------------------------------------------------------------
(* The kinds of records.  Every schema is strict: a field it does not know   *)
(* is an error.  The fields are spelled out where a record is rewritten, of *)
(* a unit and of a lesson.                                                  *)

stageSchema(stage) == stage.order \in Nat \ {0}

dialogueSchema(dialogue) == dialogue.lines >= 2

lessonSchema(lesson) ==
    /\ DOMAIN lesson = {"kind", "slug", "unit", "order", "items", "steps"}
    /\ lesson.steps # <<>>
    /\ \A i \in DOMAIN lesson.steps : stepPayloadSchemas(lesson.steps[i])
    /\ \A i \in DOMAIN lesson.items :
          lesson.items[i].role \in {"INTRODUCE", "RECYCLE"}

checkpointSchema(checkpoint) ==
    /\ checkpoint.passPercent \in 1..100
    /\ questionsSchema(checkpoint.questions)

\* A unit's own fields: unitFileSchema without the children.
unitRecordSchema(unit) ==
    /\ DOMAIN unit = {"kind", "slug", "stage", "order"}
    /\ unit.order \in Nat \ {0}

placementSchema(placement) ==
    /\ placement.questions # <<>>
    /\ \A i \in DOMAIN placement.questions :
          placementQuestionSchema(placement.questions[i])

\* The body of a create or an update.  A child has its reference to a unit, and
\* a lesson its position, besides what its schema asks.
parseAdminRecord(record) ==
    CASE record.kind = "stage" -> stageSchema(record)
      [] record.kind = "unit" -> unitRecordSchema(record)
      [] record.kind = "item" -> itemSchema(record)
      [] record.kind = "dialogue" -> dialogueSchema(record)
      [] record.kind = "lesson" -> record.order \in Nat \ {0} /\ lessonSchema(record)
      [] record.kind = "checkpoint" -> checkpointSchema(record)
      [] record.kind = "placement" -> placementSchema(record)

\* A file under units/: the unit with all its children, one lesson at least.
unitFileSchema(file) ==
    /\ \A record \in file : parseAdminRecord(record)
    /\ \E record \in file : record.kind = "lesson"
=============================================================================
