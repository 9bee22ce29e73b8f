--------------------------------- MODULE Grading ---------------------------------
(***************************************************************************)
(* Grading: src/src/path-progress/checkpoint.logic.ts, and gradePlacement  *)
(* of placement.logic.ts, on the questions a release stores.               *)
(*                                                                         *)
(* A text is the sequence of its words, spaces and final marks.  A         *)
(* response is a number, a text or the texts of the tiles in order, each   *)
(* tagged with its type; None is a question left out.                      *)
(***************************************************************************)
EXTENDS ReleaseLogic, Bags

CONSTANT Plain  \* lower case and straight apostrophes, where they differ

PLACEMENT_UNIT_PERCENT == 50
PLACEMENT_RUNNING_PERCENT == 75

Marks == {".", "!", "?", ",", ";", ":"}

-----------------------------------------------------------------------------
(* Texts.                                                                   *)

\* Runs of spaces become one.
collapsed(text) ==
    FoldLeft(LAMBDA t, c : IF c = " " /\ t # <<>> /\ Last(t) = " " THEN t
                           ELSE Append(t, c), <<>>, text)

\* The text up to the last token that is not in "dropped".
withoutLast(text, dropped) ==
    SubSeq(text, 1, Max({0} \union {i \in DOMAIN text : text[i] \notin dropped}))

trimmed(text) ==
    Reverse(withoutLast(Reverse(withoutLast(text, {" "})), {" "}))

\* Trimmed before the marks go: a space in front of them stays.
normalizeAnswer(text) ==
    LET bare == withoutLast(trimmed(collapsed(text)), Marks)
    IN  [i \in DOMAIN bare |-> IF bare[i] \in DOMAIN Plain THEN Plain[bare[i]]
                               ELSE bare[i]]

\* The words between spaces, marks attached.
orderTiles(answer) ==
    LET tiles == FoldLeft(LAMBDA ts, c :
                     IF c = " " THEN Append(ts, <<>>)
                     ELSE ReplaceAt(ts, Len(ts), Append(Last(ts), c)),
                     << <<>> >>, answer)
    IN  SelectSeq(tiles, LAMBDA tile : tile # <<>>)

\* words.join(' ')
joined(words) ==
    IF words = <<>> THEN <<>>
    ELSE Tail(FlattenSeq([i \in DOMAIN words |-> <<" ">> \o words[i]]))

-----------------------------------------------------------------------------
(* Questions.                                                               *)

Number(n) == [type |-> "number", value |-> n]
Typed(text) == [type |-> "text", value |-> text]
Tiles(words) == [type |-> "words", value |-> words]

\* What the learner is shown of a question: sorted tiles, so a bag of them.
learnerQuestion(q) ==
    CASE q.kind = "choice" -> [kind |-> q.kind, options |-> q.options, item |-> q.item]
      [] q.kind = "gap" -> [kind |-> q.kind, item |-> q.item]
      [] q.kind = "order" -> [kind |-> q.kind, tiles |-> ToBag(orderTiles(q.answer)),
                              item |-> q.item]

learnerQuestions(questions) ==
    [i \in DOMAIN questions |-> learnerQuestion(questions[i])]

isCorrect(q, response) ==
    /\ response # None
    /\ \/ q.kind = "choice" /\ response = Number(q.answer)
       \/ /\ q.kind = "gap" /\ response.type = "text"
          /\ normalizeAnswer(response.value) # <<>>
          /\ \E i \in DOMAIN q.answers :
                normalizeAnswer(q.answers[i]) = normalizeAnswer(response.value)
       \/ /\ q.kind = "order" /\ response.type = "words"
          /\ normalizeAnswer(joined(response.value)) = normalizeAnswer(q.answer)

\* What is revealed once the checkpoint is passed, as the response it stands
\* for: the option, the text in the gap, the sentence.
correctAnswerText(q) ==
    CASE q.kind = "choice" -> Number(q.answer)
      [] q.kind = "gap" -> Typed(q.answers[1])
      [] q.kind = "order" -> Tiles(<<q.answer>>)

\* Math.round of a percentage: half a percent is rounded up.
percent(part, total) == (200 * part + total) \div (2 * total)

responseTo(responses, i) == IF i \in DOMAIN responses THEN responses[i] ELSE None

verdicts(questions, responses) ==
    [i \in DOMAIN questions |-> isCorrect(questions[i], responseTo(responses, i))]
correctIn(verdict, among) == Cardinality({i \in among : verdict[i]})

gradeCheckpoint(checkpoint, responses) ==
    LET questions == checkpoint.questions
        verdict == verdicts(questions, responses)
        scorePercent == IF questions = <<>> THEN 100
                        ELSE percent(correctIn(verdict, DOMAIN verdict), Len(verdict))
        passed == scorePercent >= checkpoint.passPercent
    IN  [scorePercent |-> scorePercent, passed |-> passed,
         results |-> [i \in DOMAIN questions |->
                         [correct |-> verdict[i],
                          correctAnswer |-> IF passed THEN correctAnswerText(questions[i])
                                            ELSE None]]]

-----------------------------------------------------------------------------
(* gradePlacement: the learner knows the probed units as far as every one   *)
(* of them was answered well enough, alone and with those before it.        *)

\* How many of the probed units, in path order, are known.
knownUpTo(probed, tally) ==
    LET sum(part, k) == SumFunction([j \in 1..k |-> tally[probed[j]][part]])
    IN  {k \in DOMAIN probed : \A j \in 1..k :
            /\ tally[probed[j]].correct * 100
                   >= tally[probed[j]].total * PLACEMENT_UNIT_PERCENT
            /\ sum("correct", j) * 100 >= sum("total", j) * PLACEMENT_RUNNING_PERCENT}

gradePlacement(questions, responses, unitOrder) ==
    LET verdict == verdicts(questions, responses)
        about(unit) == {i \in DOMAIN questions : questions[i].unit = unit}
        tally == [u \in ToSet(unitOrder) |->
                     [correct |-> correctIn(verdict, about(u)),
                      total |-> Cardinality(about(u))]]
        probed == SelectSeq(unitOrder, LAMBDA u : about(u) # {})
        known == knownUpTo(probed, tally)
        lastKnown == IF known = {} THEN 0
                     ELSE SelectInSeq(unitOrder, LAMBDA u : u = probed[Max(known)])
        placed == Min({lastKnown + 1, Len(unitOrder)})
    IN  [scorePercent |-> IF questions = <<>> THEN 0
                          ELSE percent(correctIn(verdict, DOMAIN verdict), Len(verdict)),
         placedUnitId |-> IF placed > 1 THEN unitOrder[placed] ELSE None,
         skippedUnitIds |-> SubSeq(unitOrder, 1, Max({placed - 1, 0})),
         units |-> [k \in DOMAIN probed |->
                       [unitId |-> probed[k], correct |-> tally[probed[k]].correct,
                        total |-> tally[probed[k]].total, known |-> k \in known]]]
=============================================================================
