--------------------------- MODULE PathProgressProofs ---------------------------
(***************************************************************************)
(* What the path-progress service guarantees for every tree, set of        *)
(* requests and number of processes, with Redis, Kafka and instances       *)
(* failing at any step: types, one grade per request, and what each step   *)
(* does to the jobs and to the rows.                                       *)
(*                                                                         *)
(* Then what holds of requests that overlap (SideBySide): every view is    *)
(* behind the rows, nothing unearned is reported, and the tables implement *)
(* LearnerPath.                                                            *)
(*                                                                         *)
(* Then what the comments of the service say holds of requests served one  *)
(* at a time, by an instance that does not die, with Redis and Kafka up    *)
(* (OneByOne): the cached view is the stored one, nothing goes unreported, *)
(* a resend changes nothing, and the tables implement LearnerPath,         *)
(* erasures and releases that come and go included.                        *)
(***************************************************************************)
EXTENDS PathProgress, UnlockingProofs

-----------------------------------------------------------------------------
(* Types.                                                                   *)

\* The lesson a job is for is one of its release, open in its view.
OpenLesson(j) ==
    \E i \in DOMAIN Units[j.release] : \E k \in DOMAIN Units[j.release][i].lessons :
        /\ Units[j.release][i].lessons[k] = Requests[j.request].target
        /\ lessonState(Units[j.release], i, k, j.view) # "locked"

\* What a process has where it is: a request, the operation the step belongs
\* to, the release it serves from, the row it found.
Fits(j) ==
    LET op == Requests[j.request].op
    IN  /\ j.pc # "idle" => j.request \in RequestId
        /\ j.pc = "idle" => j.request = None
        /\ j.pc \in {"view", "read", "gate", "find", "write", "insert", "start", "commit"}
              => j.release \in Releases
        /\ j.pc = "upsert" \/ j.then = "upsert" => op = "enroll"
        /\ j.pc = "erase" => op \in {"reset", "purge"}
        /\ j.pc \in {"find", "write"} => op = "complete" /\ OpenLesson(j)
        /\ j.pc = "write" => j.found \in {None} \union Completion
        /\ j.pc = "insert" => op \in {"checkpoint", "placement"}
        /\ j.pc \in {"start", "commit"} => op = "placement"
        /\ j.pc = "commit" => j.found \in {None} \union Enrollment
        /\ j.pc = "invalidate" /\ op = "complete" => j.release \in Releases
        /\ j.pc = "publish" /\ op # "reset" => j.release \in Releases
        /\ op = "placement"
           /\ (j.pc \in {"insert", "start", "commit", "invalidate", "publish"}
               \/ j.then = "publish")
              => j.graded \in Releases

Jobs == job \in [Process -> Job] /\ \A p \in Process : Fits(job[p])

\* There is a latest one in any set of placements.
Bounded == \E n \in Nat : \A row \in placements : row.createdAt \in 1 .. n

Stored ==
    /\ enrollment \in {None} \union Enrollment
    /\ completions \in [LessonId -> {None} \union Completion]
    /\ attempts \in SUBSET Attempt
    /\ placements \in SUBSET Placement
    /\ Bounded

Typed == TypeOK /\ Jobs /\ Stored

LEMMA LatestIs ==
    ASSUME Stored, NEW some, some \subseteq placements, some # {}
    PROVE  /\ latest(some) \in some
           /\ \A other \in some : other.createdAt <= latest(some).createdAt
<1>1. PICK n \in Nat : \A row \in placements : row.createdAt \in 1 .. n
  BY DEF Stored, Bounded
<1> DEFINE T == {n + 1 - row.createdAt : row \in some}
<1>2. T \subseteq 1 .. n /\ T # {}
  BY <1>1
<1>3. \E x \in T : \A y \in T : x <= y
  <2> HIDE DEF T
  <2> QED  BY <1>2, FirstPosition
<1>4. PICK x \in T : \A y \in T : x <= y
  BY <1>3
<1>5. PICK row \in some : x = n + 1 - row.createdAt
  BY <1>4
<1>6. ASSUME NEW other \in some
      PROVE  other.createdAt <= row.createdAt
  <2>1. x <= n + 1 - other.createdAt
    BY <1>4
  <2> QED  BY <1>1, <1>5, <2>1
<1> QED  BY <1>6 DEF latest

LEMMA RowsType ==
    ASSUME Stored
    PROVE  Rows \in Learner
<1>1. Committed # {} => latest(Committed) \in Placement
  BY LatestIs DEF Committed, Stored
<1>2. (IF enrollment = None THEN None ELSE enrollment.startUnitId)
          \in UnitId \union {None}
  BY DEF Stored, Enrollment
<1>3. {a.checkpointId : a \in {b \in attempts : b.passed}} \subseteq CheckpointId
  BY DEF Stored, Attempt
<1>4. (IF Committed = {} THEN {} ELSE latest(Committed).skippedUnitIds)
          \in SUBSET UnitId
  BY <1>1 DEF Placement
<1> QED  BY <1>2, <1>3, <1>4 DEF Rows, Learner

LEMMA RowsTyped == Typed => Rows \in Learner
BY RowsType DEF Typed

LEMMA BlankType == Blank \in Learner
BY DEF Blank, Learner

\* A process that goes on with a fitting job leaves the others as they are.
LEMMA GoFits ==
    ASSUME Jobs, NEW p \in Process, NEW j \in Job, Fits(j), Go(p, j)
    PROVE  Jobs'
BY DEF Jobs, Go

LEMMA EndFits ==
    ASSUME Jobs, NEW p \in Process, End(p)
    PROVE  Jobs'
<1>1. Idle \in Job
  BY BlankType DEF Idle, Job
<1>2. Fits(Idle)
  BY DEF Idle, Fits
<1> QED  BY <1>1, <1>2, GoFits DEF End

LEMMA RequestType ==
    ASSUME NEW q \in RequestId
    PROVE  /\ Requests[q].op \in Operation
           /\ Requests[q].passes \subseteq BOOLEAN
           /\ Requests[q].score \in Scores
           /\ Requests[q].sends \in Nat
BY RequestAssumption

\* A lesson open in a job's view is a lesson.
LEMMA OpenLessonType ==
    ASSUME NEW j, j.release \in Releases, OpenLesson(j)
    PROVE  Requests[j.request].target \in LessonId
<1>1. PICK i \in DOMAIN Units[j.release] :
         \E k \in DOMAIN Units[j.release][i].lessons :
            Units[j.release][i].lessons[k] = Requests[j.request].target
  BY DEF OpenLesson
<1>2. Units[j.release][i].lessons \in Seq(LessonId)
  BY UnitsType, UnitParts
<1> QED  BY <1>1, <1>2

LEMMA WithViewFits ==
    ASSUME Jobs, NEW p \in Process, job[p].pc \in {"view", "read"},
           NEW view \in Learner, WithView(p, view)
    PROVE  Jobs'
<1>1. job[p] \in Job /\ Fits(job[p])
  BY DEF Jobs
<1>2. CASE job[p].then = "idle"
  BY <1>2, EndFits DEF WithView
<1>3. CASE job[p].then # "idle"
  <2> DEFINE j == [job[p] EXCEPT !.view = view, !.unread = {}, !.pc = job[p].then]
  <2>1. j \in Job
    BY <1>1 DEF Job
  <2>2. Fits(j)
    BY <1>1, <1>3 DEF Job, Fits
  <2>3. Go(p, j)
    BY <1>3 DEF WithView
  <2> QED  BY <2>1, <2>2, <2>3, GoFits
<1> QED  BY <1>2, <1>3

\* The steps that only read go on with a job that fits.
LEMMA ReadersFit ==
    ASSUME Typed, NEW p \in Process,
           \/ Open(p) \/ CacheHit(p) \/ CacheMiss(p) \/ CacheSet(p)
           \/ \E t \in Tables : ReadTable(p, t)
           \/ GateLesson(p) \/ FindCompletion(p) \/ Lookup(p)
           \/ GateSubmission(p) \/ ReadEnrollment(p)
    PROVE  Jobs'
<1>1. job[p] \in Job /\ Fits(job[p]) /\ Jobs
  BY DEF Typed, Jobs
<1>2. Rows \in Learner
  BY RowsType DEF Typed
<1>3. CASE Open(p)
  <2>1. PICK r \in Releases :
           Go(p, [job[p] EXCEPT
                     !.release = r,
                     !.pc = IF job[p].then = "upsert" THEN "upsert" ELSE "view"])
    BY <1>3 DEF Open
  <2> DEFINE j == [job[p] EXCEPT
                     !.release = r,
                     !.pc = IF job[p].then = "upsert" THEN "upsert" ELSE "view"]
  <2>2. j \in Job /\ Fits(j)
    BY <1>1, <1>3 DEF Job, Fits, Open, At
  <2> QED  BY <1>1, <2>1, <2>2, GoFits
<1>4. CASE CacheHit(p)
  <2>1. job[p].release \in Releases
    BY <1>1, <1>4 DEF CacheHit, At, Fits
  <2>2. cache[job[p].release] \in Learner
    BY <1>4, <2>1 DEF CacheHit, Typed, TypeOK
  <2> QED  BY <1>1, <1>4, <2>2, WithViewFits DEF CacheHit, At
<1>5. CASE CacheMiss(p)
  <2> DEFINE j == [job[p] EXCEPT !.view = Blank, !.unread = Tables, !.pc = "read"]
  <2>1. j \in Job /\ Fits(j)
    BY <1>1, <1>5, BlankType DEF Job, Fits, CacheMiss, At
  <2> QED  BY <1>1, <1>5, <2>1, GoFits DEF CacheMiss
<1>6. CASE CacheSet(p)
  <2>1. job[p].view \in Learner
    BY <1>1 DEF Job
  <2> QED  BY <1>1, <1>6, <2>1, WithViewFits DEF CacheSet, At
<1>7. ASSUME NEW t \in Tables, ReadTable(p, t)
      PROVE  Jobs'
  <2> DEFINE seen == job[p].view
             view ==
               CASE t = "enrollments" ->
                      [seen EXCEPT !.enrolled = Rows.enrolled,
                                   !.startUnitId = Rows.startUnitId]
                 [] t = "lesson_completions" ->
                      [seen EXCEPT !.completedLessonIds = Rows.completedLessonIds]
                 [] t = "checkpoint_attempts" ->
                      [seen EXCEPT !.passedCheckpointIds = Rows.passedCheckpointIds]
                 [] t = "placement_results" ->
                      [seen EXCEPT !.skippedUnitIds = Rows.skippedUnitIds]
             j == [job[p] EXCEPT !.view = view, !.unread = @ \ {t}]
  <2>1. seen \in Learner
    BY <1>1 DEF Job
  <2>2. view \in Learner
    <3> HIDE DEF seen
    <3> QED  BY <1>2, <2>1 DEF Learner, Tables
  <2>3. j \in Job /\ Fits(j)
    <3> HIDE DEF view
    <3> QED  BY <1>1, <1>7, <2>2 DEF Job, Fits, ReadTable, At
  <2>4. Go(p, j)
    BY <1>7 DEF ReadTable
  <2> QED  BY <1>1, <2>3, <2>4, GoFits
<1>8. CASE GateLesson(p)
  <2> DEFINE j == [job[p] EXCEPT !.pc = "find"]
  <2>1. CASE LessonOpen(p)
    <3>1. j \in Job
      BY <1>1 DEF Job
    <3>2. OpenLesson(j)
      BY <1>1, <2>1 DEF OpenLesson, LessonOpen, Job, units, request
    <3>3. Fits(j)
      BY <1>1, <1>8, <3>2 DEF Job, Fits, GateLesson, At, request
    <3> QED  BY <1>1, <1>8, <2>1, <3>1, <3>3, GoFits DEF GateLesson
  <2> QED  BY <1>1, <1>8, <2>1, EndFits DEF GateLesson
<1>9. CASE FindCompletion(p)
  <2> DEFINE row == completions[request(p).target]
             back == [job[p] EXCEPT !.pc = "view", !.then = "idle"]
             on == [job[p] EXCEPT !.found = row, !.pc = "write"]
  <2>1. request(p).target \in LessonId
    BY <1>1, <1>9, OpenLessonType DEF FindCompletion, At, Fits, request
  <2>2. row \in {None} \union Completion
    BY <2>1 DEF Typed, TypeOK
  <2>3. back \in Job /\ Fits(back)
    BY <1>1, <1>9 DEF Job, Fits, FindCompletion, At
  <2>4. on \in Job /\ Fits(on)
    <3>1. on \in Job
      BY <1>1, <2>2 DEF Job
    <3>2. OpenLesson(on)
      BY <1>1, <1>9 DEF OpenLesson, Job, FindCompletion, At, Fits
    <3> HIDE DEF row
    <3> QED  BY <1>1, <1>9, <2>2, <3>1, <3>2 DEF Job, Fits, FindCompletion, At
  <2> QED  BY <1>1, <1>9, <2>3, <2>4, GoFits DEF FindCompletion
<1>10. CASE Lookup(p)
  <2> DEFINE back == [job[p] EXCEPT !.pc = "open", !.then = "idle"]
             new == [job[p] EXCEPT !.pc = "open", !.then = "gate"]
  <2>1. back \in Job /\ Fits(back) /\ new \in Job /\ Fits(new)
    BY <1>1, <1>10 DEF Job, Fits, Lookup, At
  <2> QED  BY <1>1, <1>10, <2>1, GoFits, EndFits DEF Lookup
<1>11. CASE GateSubmission(p)
  <2> DEFINE j == [job[p] EXCEPT !.pc = "insert", !.graded = job[p].release]
  <2>1. j \in Job /\ Fits(j)
    BY <1>1, <1>11 DEF Job, Fits, GateSubmission, At, request
  <2> QED  BY <1>1, <1>11, <2>1, GoFits, EndFits DEF GateSubmission
<1>12. CASE ReadEnrollment(p)
  <2> DEFINE j == [job[p] EXCEPT !.found = enrollment, !.pc = "commit"]
  <2>1. enrollment \in {None} \union Enrollment
    BY DEF Typed, TypeOK
  <2>2. j \in Job /\ Fits(j)
    BY <1>1, <1>12, <2>1 DEF Job, Fits, ReadEnrollment, At
  <2> QED  BY <1>1, <1>12, <2>2, GoFits DEF ReadEnrollment
<1> QED  BY <1>3, <1>4, <1>5, <1>6, <1>7, <1>8, <1>9, <1>10, <1>11, <1>12

LEMMA ReceiveFits ==
    ASSUME Typed, NEW p \in Process, NEW q \in RequestId, Receive(p, q)
    PROVE  Jobs'
<1> DEFINE start == CASE Requests[q].op \in {"checkpoint", "placement"} -> "lookup"
                      [] Requests[q].op \in {"reset", "purge"} -> "erase"
                      [] OTHER -> "open"
           then == CASE Requests[q].op = "complete" -> "gate"
                     [] Requests[q].op = "enroll" -> "upsert"
                     [] OTHER -> "idle"
           j == [Idle EXCEPT !.pc = start, !.request = q, !.then = then]
<1>1. /\ start \in {"lookup", "erase", "open"}
      /\ then \in {"gate", "upsert", "idle"}
      /\ start = "erase" => Requests[q].op \in {"reset", "purge"}
      /\ then = "upsert" => Requests[q].op = "enroll"
  OBVIOUS
<1>2. j \in Job /\ Fits(j)
  <2> HIDE DEF start, then
  <2> QED  BY <1>1, BlankType DEF Idle, Job, Fits
<1>3. Go(p, j)
  BY DEF Receive
<1> QED  BY <1>2, <1>3, GoFits DEF Typed

\* The steps that write go on with a job that fits.
LEMMA WritersFit ==
    ASSUME Typed, NEW p \in Process,
           \/ Invalidate(p) \/ UpsertEnrollment(p) \/ UpdateCompletion(p)
           \/ CreateCompletion(p) \/ InsertAttempt(p) \/ InsertPlacement(p)
           \/ CommitPlacement(p) \/ Publish(p) \/ Erase(p) \/ Crash(p)
    PROVE  Jobs'
<1>1. job[p] \in Job /\ Fits(job[p]) /\ Jobs
  BY DEF Typed, Jobs
<1> DEFINE to(pc) == [job[p] EXCEPT !.pc = pc]
<1>2. CASE Invalidate(p)
  <2> DEFINE view == [job[p] EXCEPT !.pc = "view", !.then = "publish"]
             answer == [job[p] EXCEPT !.pc = "open", !.then = "idle"]
             report == [job[p] EXCEPT !.pc = "open", !.then = "publish"]
  <2>0. requestId(p) \in RequestId
    BY <1>1, <1>2 DEF Fits, Invalidate, At, requestId
  <2>1. view \in Job /\ answer \in Job /\ report \in Job /\ to("publish") \in Job
    BY <1>1 DEF Job
  <2>2. request(p).op = "complete" => Fits(view)
    BY <1>1, <1>2 DEF Job, Fits, Invalidate, At, request
  <2>3. Fits(answer)
    BY <1>1, <1>2 DEF Job, Fits, Invalidate, At
  <2>4. Fits(report)
    BY <1>1, <1>2 DEF Job, Fits, Invalidate, At
  <2>5. request(p).op = "reset" => Fits(to("publish"))
    BY <1>1, <1>2 DEF Job, Fits, Invalidate, At, request
  <2>6. \/ request(p).op = "complete" /\ Go(p, view)
        \/ Go(p, answer)
        \/ Go(p, report)
        \/ request(p).op = "reset" /\ Go(p, to("publish"))
        \/ End(p)
    <3>1. request(p).op \in Operation
      BY <2>0, RequestType DEF request, requestId
    <3> HIDE DEF view, answer, report
    <3> QED  BY <1>2, <3>1 DEF Invalidate, Operation, view, answer, report
  <2> HIDE DEF view, answer, report, to
  <2> QED  BY <1>1, <2>1, <2>2, <2>3, <2>4, <2>5, <2>6, GoFits, EndFits
<1>3. ASSUME NEW pc \in {"invalidate", "start"}, Go(p, to(pc)),
             job[p].pc \in {"upsert", "write", "insert", "commit", "erase"},
             pc = "start" => job[p].pc = "insert" /\ request(p).op = "placement"
      PROVE  Jobs'
  <2>1. to(pc) \in Job
    BY <1>1 DEF Job
  <2>2. Fits(to(pc))
    BY <1>1, <1>3 DEF Job, Fits, request
  <2> HIDE DEF to
  <2> QED  BY <1>1, <1>3, <2>1, <2>2, GoFits
<1>4. ASSUME job[p].pc \in {"write", "insert"},
             \/ Go(p, [job[p] EXCEPT !.pc = "lookup", !.retried = TRUE])
             \/ Go(p, [job[p] EXCEPT !.pc = "open", !.then = "idle"])
      PROVE  Jobs'
  <2> DEFINE lookup == [job[p] EXCEPT !.pc = "lookup", !.retried = TRUE]
             answer == [job[p] EXCEPT !.pc = "open", !.then = "idle"]
  <2>1. lookup \in Job /\ answer \in Job /\ Fits(lookup) /\ Fits(answer)
    BY <1>1, <1>4 DEF Job, Fits
  <2> QED  BY <1>1, <1>4, <2>1, GoFits
<1>5. CASE UpsertEnrollment(p)
  BY <1>3, <1>5 DEF UpsertEnrollment, At
<1>6. CASE UpdateCompletion(p)
  BY <1>1, <1>3, <1>6, EndFits DEF UpdateCompletion, At
<1>7. CASE CreateCompletion(p)
  <2> DEFINE again == [job[p] EXCEPT !.pc = "find", !.retried = TRUE]
  <2>1. again \in Job
    BY <1>1 DEF Job
  <2>2. OpenLesson(again)
    BY <1>1, <1>7 DEF OpenLesson, Job, CreateCompletion, At, Fits
  <2>3. Fits(again)
    BY <1>1, <1>7, <2>2 DEF Job, Fits, CreateCompletion, At
  <2> QED  BY <1>1, <1>3, <1>7, <2>1, <2>3, GoFits, EndFits DEF CreateCompletion, At
<1>8. CASE InsertAttempt(p)
  BY <1>3, <1>4, <1>8 DEF InsertAttempt, At
<1>9. CASE InsertPlacement(p)
  BY <1>3, <1>4, <1>9 DEF InsertPlacement, At
<1>10. CASE CommitPlacement(p)
  BY <1>3, <1>10 DEF CommitPlacement, At
<1>11. CASE Publish(p)
  BY <1>1, <1>11, EndFits DEF Publish
<1>12. CASE Erase(p)
  BY <1>3, <1>12 DEF Erase, At
<1>13. CASE Crash(p)
  BY <1>1, <1>13, EndFits DEF Crash
<1> QED  BY <1>2, <1>5, <1>6, <1>7, <1>8, <1>9, <1>10, <1>11, <1>12, <1>13

\* Every step of a process, by name.
LEMMA StepCases ==
    ASSUME NEW p \in Process, Step(p)
    PROVE  \/ /\ UNCHANGED <<rows, reported, sends>>
              /\ \/ Open(p) \/ CacheHit(p) \/ CacheMiss(p) \/ CacheSet(p)
                 \/ \E t \in Tables : ReadTable(p, t)
                 \/ GateLesson(p) \/ FindCompletion(p) \/ Lookup(p)
                 \/ GateSubmission(p) \/ ReadEnrollment(p)
           \/ Invalidate(p) \/ UpsertEnrollment(p) \/ UpdateCompletion(p)
           \/ CreateCompletion(p) \/ InsertAttempt(p) \/ InsertPlacement(p)
           \/ CommitPlacement(p) \/ Publish(p) \/ Erase(p)
<1> USE DEF Step
<1>1. CASE Open(p)
  BY <1>1 DEF Open
<1>2. CASE CacheHit(p)
  BY <1>2 DEF CacheHit
<1>3. CASE CacheMiss(p)
  BY <1>3 DEF CacheMiss
<1>4. CASE CacheSet(p)
  BY <1>4 DEF CacheSet
<1>5. ASSUME NEW t \in Tables, ReadTable(p, t)
      PROVE  UNCHANGED <<rows, reported, sends>>
  BY <1>5 DEF ReadTable
<1>6. CASE GateLesson(p)
  BY <1>6 DEF GateLesson
<1>7. CASE FindCompletion(p)
  BY <1>7 DEF FindCompletion
<1>8. CASE Lookup(p)
  BY <1>8 DEF Lookup
<1>9. CASE GateSubmission(p)
  BY <1>9 DEF GateSubmission
<1>10. CASE ReadEnrollment(p)
  BY <1>10 DEF ReadEnrollment
<1> QED  BY <1>1, <1>2, <1>3, <1>4, <1>5, <1>6, <1>7, <1>8, <1>9, <1>10

-----------------------------------------------------------------------------
(* What is stored, cached and reported keeps its type.                      *)

LEMMA BestScoreType ==
    ASSUME NEW row \in Completion, NEW score \in Scores
    PROVE  bestScore(row, score) \in Scores
BY DEF bestScore, Completion, Scores, Later

\* A row inserted is later than all others.
LEMMA NowIsLater ==
    ASSUME Stored
    PROVE  /\ now \in Nat /\ now >= 1
           /\ \A row \in placements : row.createdAt < now
<1>1. CASE placements = {}
  BY <1>1 DEF now
<1>2. CASE placements # {}
  <2>1. /\ latest(placements) \in placements
        /\ \A row \in placements : row.createdAt <= latest(placements).createdAt
    BY <1>2, LatestIs
  <2>2. \A row \in placements : row.createdAt \in Nat
    BY DEF Stored, Placement
  <2> QED  BY <1>2, <2>1, <2>2 DEF now
<1> QED  BY <1>1, <1>2

LEMMA PlacementAtType ==
    ASSUME Typed, NEW p \in Process, At(p, "insert"),
           NEW at \in placedPositions(units(p))
    PROVE  placementAt(p, at) \in Placement
<1>1. job[p].release \in Releases /\ requestId(p) \in RequestId
  BY DEF Typed, Jobs, Fits, At, requestId
<1>2. /\ placedUnit(units(p), at) \in UnitId \union {None}
      /\ skippedUnits(units(p), at) \in SUBSET UnitId
  <2>1. units(p) \in Seq(Unit)
    BY <1>1, UnitsType DEF units
  <2>2. at \in Nat /\ (at > 1 => at \in DOMAIN units(p))
        /\ \A i \in 1 .. at - 1 : i \in DOMAIN units(p)
    BY <2>1 DEF placedPositions, Later
  <2> QED  BY <2>1, <2>2, UnitParts DEF placedUnit, skippedUnits
<1> QED  BY <1>1, <1>2, NowIsLater DEF Typed, Placement, placementAt

LEMMA BoundedShrinks ==
    ASSUME Bounded, placements' \subseteq placements
    PROVE  Bounded'
BY DEF Bounded

\* What is written of a lesson is a completion of it, if anything.
LEMMA CompletionWritten ==
    ASSUME Typed, NEW p \in Process, UpdateCompletion(p) \/ CreateCompletion(p)
    PROVE  /\ request(p).target \in LessonId
           /\ \/ UNCHANGED completions
              \/ \E row \in Completion :
                    completions' = [completions EXCEPT ![request(p).target] = row]
<1>1. job[p] \in Job /\ Fits(job[p]) /\ job[p].pc = "write"
  BY DEF Typed, Jobs, UpdateCompletion, CreateCompletion, At
<1>2. /\ requestId(p) \in RequestId
      /\ request(p).target \in LessonId
      /\ job[p].release \in Releases
      /\ job[p].found \in {None} \union Completion
  BY <1>1, OpenLessonType DEF Fits, requestId, request
<1>3. request(p).score \in Scores
  BY <1>2, RequestType DEF request, requestId
<1>4. CASE UNCHANGED completions
  BY <1>2, <1>4
<1>5. CASE UpdateCompletion(p) /\ ~UNCHANGED completions
  <2> DEFINE row == [timesCompleted |-> completions[request(p).target].timesCompleted + 1,
                     bestScore |-> bestScore(job[p].found, request(p).score),
                     lastClientRequestId |-> requestId(p),
                     releaseId |-> job[p].release]
  <2>1. completions[request(p).target] \in Completion
    BY <1>2, <1>5 DEF UpdateCompletion, Typed, Stored
  <2>2. bestScore(job[p].found, request(p).score) \in Scores
    BY <1>2, <1>3, <1>5, BestScoreType DEF UpdateCompletion
  <2>3. row \in Completion
    BY <1>2, <2>1, <2>2 DEF Completion
  <2>4. completions' = [completions EXCEPT ![request(p).target] = row]
    BY <1>5 DEF UpdateCompletion
  <2> HIDE DEF row
  <2> QED  BY <1>2, <2>3, <2>4
<1>6. CASE CreateCompletion(p) /\ ~UNCHANGED completions
  <2> DEFINE row == [timesCompleted |-> 1, bestScore |-> request(p).score,
                     lastClientRequestId |-> requestId(p),
                     releaseId |-> job[p].release]
  <2>1. row \in Completion
    BY <1>2, <1>3 DEF Completion
  <2>2. completions' = [completions EXCEPT ![request(p).target] = row]
    BY <1>6 DEF CreateCompletion
  <2> HIDE DEF row
  <2> QED  BY <1>2, <2>1, <2>2
<1> QED  BY <1>4, <1>5, <1>6

\* Every write leaves rows of their tables.
LEMMA StoredStays ==
    ASSUME Typed, [Next]_vars
    PROVE  Stored'
<1>0. Stored /\ Jobs /\ TypeOK
  BY DEF Typed
<1>1. CASE UNCHANGED rows
  BY <1>0, <1>1 DEF rows, Stored, Bounded
<1>2. ASSUME NEW p \in Process, UpsertEnrollment(p)
      PROVE  Stored'
  BY <1>0, <1>2 DEF UpsertEnrollment, Stored, Bounded, Enrollment
<1>3. ASSUME NEW p \in Process, UpdateCompletion(p) \/ CreateCompletion(p)
      PROVE  Stored'
  <2>1. completions' \in [LessonId -> {None} \union Completion]
    BY <1>0, <1>3, CompletionWritten DEF Stored
  <2> QED  BY <1>0, <1>3, <2>1 DEF UpdateCompletion, CreateCompletion, Stored, Bounded
<1>4. ASSUME NEW p \in Process, InsertAttempt(p)
      PROVE  Stored'
  <2>1. /\ requestId(p) \in RequestId
        /\ job[p].release \in Releases
    BY <1>0, <1>4 DEF Jobs, Fits, InsertAttempt, At, requestId
  <2>2. request(p).passes \subseteq BOOLEAN
    BY <2>1, RequestType DEF request, requestId
  <2>3. \A i \in checkpointUnits(p) : units(p)[i].checkpointId \in CheckpointId
    BY <2>1, UnitsType, UnitParts DEF checkpointUnits, units
  <2>4. attempts' \in SUBSET Attempt
    BY <1>0, <1>4, <2>1, <2>2, <2>3 DEF InsertAttempt, attemptAt, Stored, Attempt
  <2> QED  BY <1>0, <1>4, <2>4 DEF InsertAttempt, Stored, Bounded
<1>5. ASSUME NEW p \in Process, InsertPlacement(p)
      PROVE  Stored'
  <2>1. CASE UNCHANGED placements
    BY <1>0, <1>5, <2>1 DEF InsertPlacement, Stored, Bounded
  <2>2. ASSUME NEW at \in placedPositions(units(p)),
               placements' = placements \union {placementAt(p, at)}
        PROVE  Stored'
    <3>1. placementAt(p, at) \in Placement
      BY <1>5, PlacementAtType DEF InsertPlacement
    <3>2. Bounded'
      <4>1. PICK n \in Nat : \A row \in placements : row.createdAt \in 1 .. n
        BY <1>0 DEF Stored, Bounded
      <4>2. placementAt(p, at).createdAt = now
        BY DEF placementAt
      <4>3. now \in Nat /\ now >= 1
        BY <1>0, NowIsLater
      <4>4. \A row \in placements' : row.createdAt \in 1 .. (n + now)
        BY <2>2, <4>1, <4>2, <4>3
      <4> QED  BY <4>3, <4>4 DEF Bounded
    <3> QED  BY <1>0, <1>5, <2>2, <3>1, <3>2 DEF InsertPlacement, Stored
  <2> QED  BY <1>5, <2>1, <2>2 DEF InsertPlacement
<1>6. ASSUME NEW p \in Process, CommitPlacement(p)
      PROVE  Stored'
  <2>1. job[p] \in Job /\ Fits(job[p]) /\ job[p].pc = "commit"
    BY <1>0, <1>6 DEF Jobs, CommitPlacement, At
  <2> DEFINE current == IF job[p].found = None THEN None ELSE job[p].found.startUnitId
  <2>2. PICK row \in inserted(p) :
           /\ placements' = (placements \ {row}) \union {[row EXCEPT !.committed = TRUE]}
           /\ enrollment' = [startUnitId |->
                                laterStart(units(p), current, row.placedUnitId)]
    BY <1>6 DEF CommitPlacement
  <2>3. row \in Placement /\ row \in placements
    BY <1>0 DEF Stored, inserted
  <2>4. current \in UnitId \union {None}
    BY <2>1 DEF Fits, Enrollment
  <2>5. enrollment' \in Enrollment
    BY <2>2, <2>3, <2>4 DEF laterStart, Placement, Enrollment
  <2>6. [row EXCEPT !.committed = TRUE] \in Placement
        /\ [row EXCEPT !.committed = TRUE].createdAt = row.createdAt
    BY <2>3 DEF Placement
  <2>7. placements' \in SUBSET Placement
    BY <1>0, <2>2, <2>6 DEF Stored
  <2>8. Bounded'
    <3>1. PICK n \in Nat : \A other \in placements : other.createdAt \in 1 .. n
      BY <1>0 DEF Stored, Bounded
    <3>2. \A other \in placements' : other.createdAt \in 1 .. n
      BY <2>2, <2>3, <2>6, <3>1
    <3> QED  BY <3>2 DEF Bounded
  <2> QED  BY <1>0, <1>6, <2>5, <2>7, <2>8 DEF CommitPlacement, Stored
<1>7. ASSUME NEW p \in Process, Erase(p)
      PROVE  Stored'
  <2>1. Bounded'
    BY <1>0, <1>7, BoundedShrinks DEF Erase, Stored
  <2> QED  BY <1>0, <1>7, <2>1 DEF Erase, Stored
<1>8. ASSUME NEW p \in Process, Crash(p)
      PROVE  Stored'
  <2>1. placements' \subseteq placements
    BY <1>8 DEF Crash
  <2>2. Bounded'
    BY <1>0, <2>1, BoundedShrinks DEF Stored
  <2> QED  BY <1>0, <1>8, <2>1, <2>2 DEF Crash, Stored
<1>9. ASSUME NEW p \in Process, Invalidate(p) \/ Publish(p)
      PROVE  Stored'
  BY <1>1, <1>9 DEF Invalidate, Publish
<1>10. ASSUME NEW p \in Process, NEW q \in RequestId, Receive(p, q)
       PROVE  Stored'
  BY <1>1, <1>10 DEF Receive
<1>11. ASSUME NEW r \in Releases, Expire(r)
       PROVE  Stored'
  BY <1>1, <1>11 DEF Expire
<1>12. CASE UNCHANGED vars
  BY <1>1, <1>12 DEF vars, rows
<1>13. ASSUME NEW p \in Process, Step(p)
       PROVE  Stored'
  BY <1>13, StepCases, <1>1, <1>2, <1>3, <1>4, <1>5, <1>6, <1>7, <1>9
<1> QED  BY <1>8, <1>10, <1>11, <1>12, <1>13 DEF Next

LEMMA JobsStay ==
    ASSUME Typed, [Next]_vars
    PROVE  Jobs'
<1>1. ASSUME NEW p \in Process, Step(p)
      PROVE  Jobs'
  BY <1>1, StepCases, ReadersFit, WritersFit
<1>2. ASSUME NEW r \in Releases, Expire(r)
      PROVE  Jobs'
  BY <1>2 DEF Expire, Typed, Jobs
<1>3. CASE UNCHANGED vars
  BY <1>3 DEF vars, Typed, Jobs
<1> QED  BY <1>1, <1>2, <1>3, ReceiveFits, WritersFit DEF Next

LEMMA CacheStays ==
    ASSUME Typed, [Next]_vars
    PROVE  cache' \in [Releases -> {None} \union Learner]
<1>0. cache \in [Releases -> {None} \union Learner] /\ Jobs
  BY DEF Typed, TypeOK
<1>1. ASSUME NEW p \in Process, CacheSet(p)
      PROVE  cache' \in [Releases -> {None} \union Learner]
  <2>1. job[p].view \in Learner
    BY <1>0 DEF Jobs, Job
  <2> QED  BY <1>0, <1>1, <2>1 DEF CacheSet
<1>2. ASSUME NEW p \in Process, Invalidate(p)
      PROVE  cache' \in [Releases -> {None} \union Learner]
  BY <1>0, <1>2 DEF Invalidate
<1>3. ASSUME NEW r \in Releases, Expire(r)
      PROVE  cache' \in [Releases -> {None} \union Learner]
  BY <1>0, <1>3 DEF Expire
<1>4. ASSUME NEW p \in Process, Step(p), ~CacheSet(p), ~Invalidate(p)
      PROVE  UNCHANGED cache
  BY <1>4 DEF Step, Open, CacheHit, CacheMiss, ReadTable, UpsertEnrollment, GateLesson,
              FindCompletion, UpdateCompletion, CreateCompletion, Lookup, GateSubmission,
              InsertAttempt, InsertPlacement, ReadEnrollment, CommitPlacement, Publish,
              Erase
<1>5. ASSUME NEW p \in Process, Crash(p) \/ \E q \in RequestId : Receive(p, q)
      PROVE  UNCHANGED cache
  BY <1>5 DEF Crash, Receive
<1>6. CASE UNCHANGED vars
  BY <1>0, <1>6 DEF vars
<1> QED  BY <1>0, <1>1, <1>2, <1>3, <1>4, <1>5, <1>6 DEF Next

\* A view in the cache was there, or was read by a process.
LEMMA NextCache ==
    ASSUME Typed, [Next]_vars, NEW r \in Releases, cache'[r] # None
    PROVE  \/ cache[r] # None /\ cache'[r] = cache[r]
           \/ \E p \in Process : CacheSet(p) /\ cache'[r] = job[p].view
<1>0. cache \in [Releases -> {None} \union Learner]
  BY DEF Typed, TypeOK
<1>1. ASSUME NEW p \in Process, CacheSet(p)
      PROVE  cache'[r] = cache[r] \/ cache'[r] = job[p].view
  BY <1>0, <1>1 DEF CacheSet
<1>2. ASSUME NEW p \in Process, Invalidate(p)
      PROVE  cache'[r] = cache[r]
  BY <1>0, <1>2 DEF Invalidate
<1>3. ASSUME NEW s \in Releases, Expire(s)
      PROVE  cache'[r] = cache[r]
  BY <1>0, <1>3 DEF Expire
<1>4. ASSUME NEW p \in Process, Step(p), ~CacheSet(p), ~Invalidate(p)
      PROVE  UNCHANGED cache
  BY <1>4 DEF Step, Open, CacheHit, CacheMiss, ReadTable, UpsertEnrollment, GateLesson,
              FindCompletion, UpdateCompletion, CreateCompletion, Lookup, GateSubmission,
              InsertAttempt, InsertPlacement, ReadEnrollment, CommitPlacement, Publish,
              Erase
<1>5. ASSUME NEW p \in Process, Crash(p) \/ \E q \in RequestId : Receive(p, q)
      PROVE  UNCHANGED cache
  BY <1>5 DEF Crash, Receive
<1>6. CASE UNCHANGED vars
  BY <1>6 DEF vars
<1> QED  BY <1>1, <1>2, <1>3, <1>4, <1>5, <1>6 DEF Next

LEMMA TotalsType ==
    ASSUME NEW tree \in Seq(Seq(Unit)), NEW us \in Seq(Unit), NEW a
    PROVE  pathTotals(tree, us, a) \in Totals
<1>1. /\ Cardinality(lessonsDone(us, a)) \in Nat
      /\ Cardinality(unitsEarned(tree, us, a)) \in Nat
      /\ Cardinality(stagesFinished(tree, us, a)) \in Nat
  BY CountedFinite, CountMonotone
<1> QED  BY <1>1, PathTotalsAre DEF Totals

LEMMA ReportedChanges ==
    ASSUME [Next]_vars
    PROVE  UNCHANGED reported \/ \E p \in Process : Publish(p)
<1>1. ASSUME NEW p \in Process, Step(p), ~Publish(p)
      PROVE  UNCHANGED reported
  BY <1>1 DEF Step, Open, CacheHit, CacheMiss, ReadTable, CacheSet, Invalidate,
              UpsertEnrollment, GateLesson, FindCompletion, UpdateCompletion,
              CreateCompletion, Lookup, GateSubmission, InsertAttempt, InsertPlacement,
              ReadEnrollment, CommitPlacement, Erase
<1>2. ASSUME NEW p \in Process, Crash(p) \/ \E q \in RequestId : Receive(p, q)
      PROVE  UNCHANGED reported
  BY <1>2 DEF Crash, Receive
<1>3. ASSUME NEW r \in Releases, Expire(r)
      PROVE  UNCHANGED reported
  BY <1>3 DEF Expire
<1>4. CASE UNCHANGED vars
  BY <1>4 DEF vars
<1> QED  BY <1>1, <1>2, <1>3, <1>4 DEF Next

LEMMA ReportedStays ==
    ASSUME Typed, [Next]_vars
    PROVE  reported' \in {None} \union Report
<1>0. reported \in {None} \union Report /\ Jobs
  BY DEF Typed, TypeOK
<1>1. ASSUME NEW p \in Process, Publish(p)
      PROVE  reported' \in {None} \union Report
  <2>1. job[p] \in Job /\ Fits(job[p]) /\ job[p].pc = "publish"
    BY <1>0, <1>1 DEF Jobs, Publish, At
  <2> DEFINE release == job[p].release
             tree == IF request(p).op = "placement" THEN job[p].graded ELSE release
             totals == IF request(p).op = "reset" THEN zeroTotals
                       ELSE pathTotals(Tree[tree], units(p), job[p].view)
             message == [tree |-> tree, release |-> release, totals |-> totals]
  <2>2. totals \in Totals
    <3>1. CASE request(p).op = "reset"
      BY <3>1 DEF zeroTotals, Totals
    <3>2. CASE request(p).op # "reset"
      <4>1. release \in Releases /\ tree \in Releases
        BY <2>1, <3>2 DEF Fits, request
      <4>2. Tree[tree] \in Seq(Seq(Unit)) /\ units(p) \in Seq(Unit)
        BY <4>1, TreeType, UnitsType DEF units
      <4> QED  BY <3>2, <4>2, TotalsType
    <3> QED  BY <3>1, <3>2
  <2>3. release \in Releases \union {None} /\ tree \in Releases \union {None}
    BY <2>1 DEF Job
  <2>4. message \in Report
    <3> HIDE DEF release, tree, totals
    <3> QED  BY <2>2, <2>3 DEF Report
  <2>5. reported' = message \/ UNCHANGED reported
    BY <1>1 DEF Publish
  <2> HIDE DEF message
  <2> QED  BY <1>0, <2>4, <2>5
<1> QED  BY <1>0, <1>1, ReportedChanges

LEMMA SendsStay ==
    ASSUME Typed, [Next]_vars
    PROVE  sends' \in [RequestId -> Nat]
<1>0. sends \in [RequestId -> Nat]
  BY DEF Typed, TypeOK
<1>1. ASSUME NEW p \in Process, NEW q \in RequestId, Receive(p, q)
      PROVE  sends' \in [RequestId -> Nat]
  BY <1>0, <1>1 DEF Receive
<1>2. ASSUME NEW p \in Process, Step(p) \/ Crash(p)
      PROVE  UNCHANGED sends
  BY <1>2 DEF Step, Open, CacheHit, CacheMiss, ReadTable, CacheSet, Invalidate,
              UpsertEnrollment, GateLesson, FindCompletion, UpdateCompletion,
              CreateCompletion, Lookup, GateSubmission, InsertAttempt, InsertPlacement,
              ReadEnrollment, CommitPlacement, Publish, Erase, Crash
<1>3. ASSUME NEW r \in Releases, Expire(r)
      PROVE  UNCHANGED sends
  BY <1>3 DEF Expire
<1>4. CASE UNCHANGED vars
  BY <1>0, <1>4 DEF vars
<1> QED  BY <1>0, <1>1, <1>2, <1>3, <1>4 DEF Next

LEMMA TypedHolds == Spec => []Typed
<1>1. Init => Typed
  <2> SUFFICES ASSUME Init
               PROVE  Typed
    OBVIOUS
  <2>1. Idle \in Job /\ Fits(Idle)
    BY BlankType DEF Idle, Job, Fits
  <2>2. Jobs
    BY <2>1 DEF Init, Jobs
  <2>3. Stored
    BY DEF Init, Stored, Bounded
  <2>4. job \in [Process -> Job]
    BY <2>2 DEF Jobs
  <2> QED  BY <2>2, <2>3, <2>4 DEF Init, Typed, TypeOK, Stored
<1>2. Typed /\ [Next]_vars => Typed'
  <2> SUFFICES ASSUME Typed, [Next]_vars
               PROVE  Typed'
    OBVIOUS
  <2>1. Jobs' /\ Stored'
    BY JobsStay, StoredStays
  <2> QED  BY <2>1, CacheStays, ReportedStays, SendsStay DEF Typed, TypeOK, Jobs, Stored
<1> QED  BY <1>1, <1>2, PTL DEF Spec

\* The tables, the cache, the newest totals and every request in progress have
\* their types, whichever requests overlap and whatever fails.
THEOREM TypeCorrect == Spec => []TypeOK
<1>1. Typed => TypeOK
  BY DEF Typed
<1> QED  BY <1>1, TypedHolds, PTL

-----------------------------------------------------------------------------
(* One grade per request.                                                   *)

OneRowEach ==
    \A a, b \in placements : a.clientRequestId = b.clientRequestId => a = b

LEMMA OneRowEachStays ==
    ASSUME Typed, OneRowEach, [Next]_vars
    PROVE  OneRowEach'
<1>0. Stored
  BY DEF Typed
<1>1. CASE placements' \subseteq placements
  BY <1>1 DEF OneRowEach
<1>2. ASSUME NEW p \in Process, InsertPlacement(p), ~(placements' \subseteq placements)
      PROVE  OneRowEach'
  <2>1. PICK at \in placedPositions(units(p)) :
           /\ inserted(p) = {}
           /\ placements' = placements \union {placementAt(p, at)}
    BY <1>2 DEF InsertPlacement
  <2>2. placementAt(p, at).clientRequestId = requestId(p)
    BY DEF placementAt
  <2> HIDE DEF placementAt
  <2> QED  BY <2>1, <2>2 DEF OneRowEach, inserted
<1>3. ASSUME NEW p \in Process, CommitPlacement(p)
      PROVE  OneRowEach'
  <2>1. PICK row \in inserted(p) :
           placements' = (placements \ {row}) \union {[row EXCEPT !.committed = TRUE]}
    BY <1>3 DEF CommitPlacement
  <2>2. row \in placements /\ row \in Placement
    BY <1>0 DEF inserted, Stored
  <2>3. [row EXCEPT !.committed = TRUE].clientRequestId = row.clientRequestId
    BY <2>2 DEF Placement
  <2>4. \A other \in placements \ {row} : other.clientRequestId # row.clientRequestId
    BY <2>2 DEF OneRowEach
  <2> QED  BY <2>1, <2>3, <2>4 DEF OneRowEach
<1>4. ASSUME NEW p \in Process, Step(p), ~InsertPlacement(p), ~CommitPlacement(p)
      PROVE  placements' \subseteq placements
  BY <1>4, StepCases DEF rows, Invalidate, UpsertEnrollment, UpdateCompletion,
         CreateCompletion, InsertAttempt, Publish, Erase
<1>5. ASSUME NEW p \in Process, Crash(p) \/ \E q \in RequestId : Receive(p, q)
      PROVE  placements' \subseteq placements
  BY <1>5 DEF Crash, Receive, rows
<1>6. ASSUME NEW r \in Releases, Expire(r)
      PROVE  placements' \subseteq placements
  BY <1>6 DEF Expire, rows
<1>7. CASE UNCHANGED vars
  BY <1>1, <1>7 DEF vars
<1> QED  BY <1>1, <1>2, <1>3, <1>4, <1>5, <1>6, <1>7 DEF Next

OneAttemptEach ==
    \A a, b \in attempts : a.clientRequestId = b.clientRequestId => a = b

\* An attempt recorded is of a request that has none, and only an erasure takes
\* one away.
LEMMA AttemptsStep ==
    ASSUME OneAttemptEach, [Next]_vars
    PROVE  /\ OneAttemptEach'
           /\ ~Erasing => attempts \subseteq attempts'
<1>1. CASE UNCHANGED attempts
  BY <1>1 DEF OneAttemptEach
<1>2. ASSUME NEW p \in Process, InsertAttempt(p), ~UNCHANGED attempts
      PROVE  OneAttemptEach' /\ attempts \subseteq attempts'
  <2>1. \A b \in attempts : b.clientRequestId # requestId(p)
    BY <1>2 DEF InsertAttempt, recorded
  <2>2. PICK i \in checkpointUnits(p), pass \in request(p).passes :
           attempts' = attempts \union {attemptAt(p, i, pass)}
    BY <1>2 DEF InsertAttempt
  <2>3. attemptAt(p, i, pass).clientRequestId = requestId(p)
    BY DEF attemptAt
  <2> QED  BY <2>1, <2>2, <2>3 DEF OneAttemptEach
<1>3. ASSUME NEW p \in Process, Erase(p)
      PROVE  Erasing /\ attempts' = {}
  BY <1>3 DEF Erase, Erasing
<1>4. ASSUME NEW p \in Process, Step(p), ~InsertAttempt(p), ~Erase(p)
      PROVE  UNCHANGED attempts
  BY <1>4, StepCases DEF rows, Invalidate, UpsertEnrollment, UpdateCompletion,
         CreateCompletion, InsertPlacement, CommitPlacement, Publish
<1>5. ASSUME NEW p \in Process, Crash(p) \/ \E q \in RequestId : Receive(p, q)
      PROVE  UNCHANGED attempts
  BY <1>5 DEF Crash, Receive, rows
<1>6. ASSUME NEW r \in Releases, Expire(r)
      PROVE  UNCHANGED attempts
  BY <1>6 DEF Expire, rows
<1>7. CASE UNCHANGED vars
  BY <1>1, <1>7 DEF vars
<1> QED  BY <1>1, <1>2, <1>3, <1>4, <1>5, <1>6, <1>7 DEF Next, OneAttemptEach

\* A placement committed stays as it is; a crash takes only one not committed.
LEMMA CommittedStep ==
    ASSUME Typed, [Next]_vars, ~Erasing
    PROVE  Committed \subseteq Committed'
<1>0. Stored
  BY DEF Typed
<1>1. CASE UNCHANGED placements
  BY <1>1 DEF Committed
<1>2. ASSUME NEW p \in Process, InsertPlacement(p)
      PROVE  Committed \subseteq Committed'
  <2>1. placements \subseteq placements'
    BY <1>2 DEF InsertPlacement
  <2> QED  BY <2>1 DEF Committed
<1>3. ASSUME NEW p \in Process, CommitPlacement(p)
      PROVE  Committed \subseteq Committed'
  <2>1. PICK row \in inserted(p) :
           placements' = (placements \ {row}) \union {[row EXCEPT !.committed = TRUE]}
    BY <1>3 DEF CommitPlacement
  <2>2. row \in Placement
    BY <1>0, <2>1 DEF inserted, Stored
  <2>3. row.committed => [row EXCEPT !.committed = TRUE] = row
    BY <2>2 DEF Placement
  <2> QED  BY <2>1, <2>3 DEF Committed
<1>4. ASSUME NEW p \in Process, Crash(p)
      PROVE  Committed \subseteq Committed'
  BY <1>4 DEF Crash, Committed
<1>5. ASSUME NEW p \in Process, Step(p), ~InsertPlacement(p), ~CommitPlacement(p)
      PROVE  UNCHANGED placements
  BY <1>5, StepCases DEF rows, Invalidate, UpsertEnrollment, UpdateCompletion,
         CreateCompletion, InsertAttempt, Publish, Erasing
<1>6. ASSUME NEW p \in Process, NEW q \in RequestId, Receive(p, q)
      PROVE  UNCHANGED placements
  BY <1>6 DEF Receive, rows
<1>7. ASSUME NEW r \in Releases, Expire(r)
      PROVE  UNCHANGED placements
  BY <1>7 DEF Expire, rows
<1>8. CASE UNCHANGED vars
  BY <1>1, <1>8 DEF vars
<1> QED  BY <1>1, <1>2, <1>3, <1>4, <1>5, <1>6, <1>7, <1>8 DEF Next

\* A checkpoint or placement sent twice leaves one result, also when its sends
\* overlap, are served from different releases or carry different answers, and
\* a result recorded stays as it is until the learner's rows are erased.
THEOREM FirstGradeStandsHolds == Spec => FirstGradeStands
<1>1. Init => OneRowEach /\ OneAttemptEach
  BY DEF Init, OneRowEach, OneAttemptEach
<1>2. Typed /\ OneRowEach /\ OneAttemptEach /\ [Next]_vars
          => OneRowEach' /\ OneAttemptEach'
  BY OneRowEachStays, AttemptsStep
<1>3. Typed /\ OneRowEach /\ OneAttemptEach /\ [Next]_vars =>
        [/\ OneResultEach'
         /\ ~Erasing => attempts \subseteq attempts' /\ Committed \subseteq Committed']_vars
  <2> SUFFICES ASSUME Typed, OneRowEach, OneAttemptEach, [Next]_vars
               PROVE  /\ OneResultEach'
                      /\ ~Erasing => /\ attempts \subseteq attempts'
                                     /\ Committed \subseteq Committed'
    OBVIOUS
  <2>1. OneRowEach' /\ OneAttemptEach'
    BY <1>2
  <2>2. OneResultEach'
    BY <2>1 DEF OneResultEach, OneRowEach, OneAttemptEach
  <2> QED  BY <2>2, AttemptsStep, CommittedStep
<1> QED  BY <1>1, <1>2, <1>3, TypedHolds, PTL DEF Spec, FirstGradeStands

-----------------------------------------------------------------------------
(* What a step does to the jobs.                                            *)

\* The views a process can have after a step: the one it had, none, the cached
\* one, or one of them with a table read.
NextView(p, view) ==
    \/ view \in {job[p].view, Blank}
    \/ /\ job[p].release \in Releases /\ cache[job[p].release] # None
       /\ view = cache[job[p].release]
    \/ view = [job[p].view EXCEPT !.enrolled = Rows.enrolled,
                                  !.startUnitId = Rows.startUnitId]
    \/ view = [job[p].view EXCEPT !.completedLessonIds = Rows.completedLessonIds]
    \/ view = [job[p].view EXCEPT !.passedCheckpointIds = Rows.passedCheckpointIds]
    \/ view = [job[p].view EXCEPT !.skippedUnitIds = Rows.skippedUnitIds]

\* A process may keep its request or be done with it, and is in a placement's
\* transaction only by inserting its row or reading the enrollment.
NextJob(p, j) ==
    /\ j.request \in {job[p].request, None}
    /\ j.pc = "start" => InsertPlacement(p)
    /\ j.pc = "commit" => ReadEnrollment(p) /\ j.found = enrollment
    /\ NextView(p, j.view)

LEMMA EndJob ==
    ASSUME Jobs, NEW p \in Process, End(p)
    PROVE  NextJob(p, job'[p])
BY DEF Jobs, End, Go, Idle, NextJob, NextView

LEMMA KeptView ==
    ASSUME Jobs, NEW p \in Process, NEW j, Go(p, j),
           j.view = job[p].view, j.request = job[p].request,
           j.pc \notin {"start", "commit"}
    PROVE  NextJob(p, job'[p])
BY DEF Jobs, Go, NextJob, NextView

LEMMA WithViewJob ==
    ASSUME Jobs, NEW p \in Process, NEW view, WithView(p, view), NextView(p, view)
    PROVE  NextJob(p, job'[p])
<1>1. CASE End(p)
  BY <1>1, EndJob
<1>2. CASE Go(p, [job[p] EXCEPT !.view = view, !.unread = {}, !.pc = job[p].then])
  <2>1. job[p] \in Job
    BY DEF Jobs
  <2>2. /\ job'[p].view = view
        /\ job'[p].request = job[p].request
        /\ job'[p].pc \notin {"start", "commit"}
    BY <1>2, <2>1 DEF Jobs, Go, Job
  <2> QED  BY <2>2 DEF NextJob
<1> QED  BY <1>1, <1>2 DEF WithView

LEMMA OthersKeepJobs ==
    ASSUME Jobs, NEW p \in Process, Step(p) \/ Crash(p), NEW o \in Process, o # p
    PROVE  job'[o] = job[o]
<1>1. \E j : Go(p, j)
  BY DEF Step, Open, CacheHit, CacheMiss, ReadTable, CacheSet, WithView, Invalidate,
         UpsertEnrollment, GateLesson, FindCompletion, UpdateCompletion,
         CreateCompletion, Lookup, GateSubmission, InsertAttempt, InsertPlacement,
         ReadEnrollment, CommitPlacement, Publish, Erase, Crash, End
<1> QED  BY <1>1 DEF Go, Jobs

LEMMA ReaderJobs ==
    ASSUME Typed, NEW p \in Process,
           \/ Open(p) \/ CacheHit(p) \/ CacheMiss(p) \/ CacheSet(p)
           \/ \E t \in Tables : ReadTable(p, t)
           \/ GateLesson(p) \/ FindCompletion(p) \/ Lookup(p)
           \/ GateSubmission(p) \/ ReadEnrollment(p)
    PROVE  NextJob(p, job'[p])
<1>1. job[p] \in Job /\ Fits(job[p]) /\ Jobs
  BY DEF Typed, Jobs
<1>2. CASE Open(p)
  <2>1. PICK r \in Releases :
           Go(p, [job[p] EXCEPT
                     !.release = r,
                     !.pc = IF job[p].then = "upsert" THEN "upsert" ELSE "view"])
    BY <1>2 DEF Open
  <2> QED  BY <1>1, <2>1, KeptView DEF Job
<1>3. CASE CacheHit(p)
  <2>1. NextView(p, cache[job[p].release])
    BY <1>1, <1>3 DEF CacheHit, At, Fits, NextView
  <2> QED  BY <1>1, <1>3, <2>1, WithViewJob DEF CacheHit
<1>4. CASE CacheMiss(p)
  BY <1>1, <1>4 DEF CacheMiss, Go, Job, Jobs, NextJob, NextView
<1>5. CASE CacheSet(p)
  <2>1. NextView(p, job[p].view)
    BY DEF NextView
  <2> QED  BY <1>1, <1>5, <2>1, WithViewJob DEF CacheSet
<1>6. ASSUME NEW t \in Tables, ReadTable(p, t)
      PROVE  NextJob(p, job'[p])
  <2> DEFINE seen == job[p].view
             view ==
               CASE t = "enrollments" ->
                      [seen EXCEPT !.enrolled = Rows.enrolled,
                                   !.startUnitId = Rows.startUnitId]
                 [] t = "lesson_completions" ->
                      [seen EXCEPT !.completedLessonIds = Rows.completedLessonIds]
                 [] t = "checkpoint_attempts" ->
                      [seen EXCEPT !.passedCheckpointIds = Rows.passedCheckpointIds]
                 [] t = "placement_results" ->
                      [seen EXCEPT !.skippedUnitIds = Rows.skippedUnitIds]
  <2>1. NextView(p, view)
    BY DEF Tables, NextView
  <2>2. Go(p, [job[p] EXCEPT !.view = view, !.unread = @ \ {t}])
    BY <1>6 DEF ReadTable
  <2>3. /\ job'[p].view = view
        /\ job'[p].request = job[p].request
        /\ job'[p].pc = "read"
    <3> HIDE DEF view
    <3> QED  BY <1>1, <1>6, <2>2 DEF ReadTable, At, Go, Job, Jobs
  <2> HIDE DEF view
  <2> QED  BY <2>1, <2>3 DEF NextJob
<1>7. CASE GateLesson(p)
  <2>1. CASE End(p)
    BY <1>1, <2>1, EndJob
  <2>2. CASE Go(p, [job[p] EXCEPT !.pc = "find"])
    BY <1>1, <2>2, KeptView DEF Job
  <2> QED  BY <1>7, <2>1, <2>2 DEF GateLesson
<1>8. CASE FindCompletion(p)
  <2> DEFINE row == completions[request(p).target]
  <2>1. CASE Go(p, [job[p] EXCEPT !.pc = "view", !.then = "idle"])
    BY <1>1, <2>1, KeptView DEF Job
  <2>2. CASE Go(p, [job[p] EXCEPT !.found = row, !.pc = "write"])
    BY <1>1, <2>2, KeptView DEF Job
  <2> QED  BY <1>8, <2>1, <2>2 DEF FindCompletion
<1>9. CASE Lookup(p)
  <2>1. CASE End(p)
    BY <1>1, <2>1, EndJob
  <2>2. CASE Go(p, [job[p] EXCEPT !.pc = "open", !.then = "idle"])
    BY <1>1, <2>2, KeptView DEF Job
  <2>3. CASE Go(p, [job[p] EXCEPT !.pc = "open", !.then = "gate"])
    BY <1>1, <2>3, KeptView DEF Job
  <2> QED  BY <1>9, <2>1, <2>2, <2>3 DEF Lookup
<1>10. CASE GateSubmission(p)
  <2>1. CASE End(p)
    BY <1>1, <2>1, EndJob
  <2>2. CASE Go(p, [job[p] EXCEPT !.pc = "insert", !.graded = job[p].release])
    BY <1>1, <2>2, KeptView DEF Job
  <2> QED  BY <1>10, <2>1, <2>2 DEF GateSubmission
<1>11. CASE ReadEnrollment(p)
  <2>1. Go(p, [job[p] EXCEPT !.found = enrollment, !.pc = "commit"])
    BY <1>11 DEF ReadEnrollment
  <2>2. /\ job'[p].view = job[p].view
        /\ job'[p].request = job[p].request
        /\ job'[p].pc = "commit"
        /\ job'[p].found = enrollment
    BY <1>1, <2>1 DEF Go, Job, Jobs
  <2> QED  BY <1>11, <2>2 DEF NextJob, NextView
<1> QED  BY <1>2, <1>3, <1>4, <1>5, <1>6, <1>7, <1>8, <1>9, <1>10, <1>11

LEMMA WriterJobs ==
    ASSUME Typed, NEW p \in Process,
           \/ Invalidate(p) \/ UpsertEnrollment(p) \/ UpdateCompletion(p)
           \/ CreateCompletion(p) \/ InsertAttempt(p) \/ InsertPlacement(p)
           \/ CommitPlacement(p) \/ Publish(p) \/ Erase(p) \/ Crash(p)
    PROVE  NextJob(p, job'[p])
<1>1. job[p] \in Job /\ Fits(job[p]) /\ Jobs
  BY DEF Typed, Jobs
<1>2. ASSUME NEW pc \in {"invalidate", "publish"}, Go(p, [job[p] EXCEPT !.pc = pc])
      PROVE  NextJob(p, job'[p])
  BY <1>1, <1>2, KeptView DEF Job
<1>3. ASSUME NEW pc \in {"open", "view"}, NEW then,
             Go(p, [job[p] EXCEPT !.pc = pc, !.then = then])
      PROVE  NextJob(p, job'[p])
  BY <1>1, <1>3, KeptView DEF Job
<1>4. ASSUME NEW pc \in {"lookup", "find"},
             Go(p, [job[p] EXCEPT !.pc = pc, !.retried = TRUE])
      PROVE  NextJob(p, job'[p])
  BY <1>1, <1>4, KeptView DEF Job
<1>5. ASSUME End(p)
      PROVE  NextJob(p, job'[p])
  BY <1>1, <1>5, EndJob
<1>6. CASE Invalidate(p)
  <2>1. requestId(p) \in RequestId
    BY <1>1, <1>6 DEF Fits, Invalidate, At, requestId
  <2>2. request(p).op \in Operation
    BY <2>1, RequestType DEF request, requestId
  <2> QED  BY <1>2, <1>3, <1>5, <1>6, <2>2 DEF Invalidate, Operation
<1>7. CASE UpsertEnrollment(p)
  BY <1>2, <1>7 DEF UpsertEnrollment
<1>8. CASE UpdateCompletion(p)
  BY <1>2, <1>5, <1>8 DEF UpdateCompletion
<1>9. CASE CreateCompletion(p)
  BY <1>2, <1>4, <1>5, <1>9 DEF CreateCompletion
<1>10. CASE InsertAttempt(p)
  BY <1>2, <1>3, <1>4, <1>10 DEF InsertAttempt
<1>11. CASE InsertPlacement(p)
  <2>1. CASE Go(p, [job[p] EXCEPT !.pc = "start"])
    <3>1. /\ job'[p].view = job[p].view
          /\ job'[p].request = job[p].request
          /\ job'[p].pc = "start"
      BY <1>1, <2>1 DEF Go, Job, Jobs
    <3> QED  BY <1>11, <3>1 DEF NextJob, NextView
  <2> QED  BY <1>4, <1>11, <2>1 DEF InsertPlacement
<1>12. CASE CommitPlacement(p)
  BY <1>2, <1>12 DEF CommitPlacement
<1>13. CASE Publish(p)
  BY <1>5, <1>13 DEF Publish
<1>14. CASE Erase(p)
  BY <1>2, <1>14 DEF Erase
<1>15. CASE Crash(p)
  BY <1>5, <1>15 DEF Crash
<1> QED  BY <1>6, <1>7, <1>8, <1>9, <1>10, <1>11, <1>12, <1>13, <1>14, <1>15

\* What a step can be, by what it does to the jobs.
LEMMA StepOf ==
    ASSUME Typed, [Next]_vars
    PROVE  \/ \E p \in Process :
                 /\ Step(p) \/ Crash(p)
                 /\ NextJob(p, job'[p])
                 /\ \A o \in Process \ {p} : job'[o] = job[o]
           \/ \E p \in Process, q \in RequestId : Receive(p, q)
           \/ UNCHANGED <<rows, job>>
<1>1. ASSUME NEW p \in Process, Step(p) \/ Crash(p)
      PROVE  /\ NextJob(p, job'[p])
             /\ \A o \in Process \ {p} : job'[o] = job[o]
  <2>1. NextJob(p, job'[p])
    BY <1>1, StepCases, ReaderJobs, WriterJobs
  <2>2. \A o \in Process \ {p} : job'[o] = job[o]
    BY <1>1, OthersKeepJobs DEF Typed
  <2> QED  BY <2>1, <2>2
<1>2. ASSUME NEW r \in Releases, Expire(r)
      PROVE  UNCHANGED <<rows, job>>
  BY <1>2 DEF Expire
<1>3. CASE UNCHANGED vars
  BY <1>3 DEF vars, rows
<1> QED  BY <1>1, <1>2, <1>3 DEF Next

-----------------------------------------------------------------------------
(* What a step does to the rows.                                            *)

LEMMA SameRows ==
    ASSUME UNCHANGED <<enrollment, completions, attempts>>, Committed' = Committed
    PROVE  Rows' = Rows
BY DEF Rows

LEMMA UntouchedRows ==
    ASSUME UNCHANGED rows
    PROVE  Rows' = Rows
BY SameRows DEF rows, Committed

\* The only latest row is the latest.
LEMMA OnlyLatest ==
    ASSUME NEW S, NEW x \in S, \A y \in S : y.createdAt \in Nat,
           \A y \in S \ {x} : y.createdAt < x.createdAt
    PROVE  latest(S) = x
<1>1. \A y \in S : y.createdAt <= x.createdAt
  OBVIOUS
<1>2. \A z \in S : (\A y \in S : y.createdAt <= z.createdAt) => z = x
  OBVIOUS
<1> QED  BY <1>1, <1>2 DEF latest

\* A view that shows no more than is stored, in the tree of any release.
Behind(view, stored) == \A r \in Releases : NoFurther(Units[r], view, stored)

\* What a view shows as open is open in the rows it is behind.
LEMMA OpenWhenBehind ==
    ASSUME NEW r \in Releases, NEW view \in Learner, NEW stored \in Learner,
           Behind(view, stored), NEW i \in DOMAIN Units[r]
    PROVE  /\ checkpointState(Units[r], i, view) # "locked"
                 => checkpointState(Units[r], i, stored) # "locked"
           /\ \A k \in DOMAIN Units[r][i].lessons :
                 lessonState(Units[r], i, k, view) # "locked"
                     => lessonState(Units[r], i, k, stored) # "locked"
<1>1. NoFurther(Units[r], view, stored) /\ Units[r] \in Seq(Unit)
  BY UnitsType DEF Behind
<1>2. UnlocksNoLess(Units[r], view, stored)
  BY <1>1, UnlockingMonotone
<1>3. ASSUME NEW a, NEW b, a # "locked", b = "locked",
             a \in {"completed", "available", "locked"}, Level(a) <= Level(b)
      PROVE  FALSE
  BY <1>3 DEF Level
<1>4. /\ checkpointState(Units[r], i, view) \in {"completed", "available", "locked"}
      /\ \A k \in DOMAIN Units[r][i].lessons :
            lessonState(Units[r], i, k, view) \in {"completed", "available", "locked"}
  BY DEF checkpointState, lessonState
<1> QED  BY <1>2, <1>3, <1>4 DEF UnlocksNoLess

Shown == Rows \in Learner

-----------------------------------------------------------------------------
(* The promise is an instance: its tree and its unlocking are the service's. *)

LEMMA SameTree == Path!Units = Units
BY DEF Path!Units, Units, Path!unitsInOrder, unitsInOrder, Path!FlattenSeq, FlattenSeq

LEMMA SameStart ==
    ASSUME NEW tree, NEW unitId, NEW a
    PROVE  /\ Path!findUnit(tree, unitId) = findUnit(tree, unitId)
           /\ Path!startIndex(tree, a) = startIndex(tree, a)
<1>1. \A id : Path!findUnit(tree, id) = findUnit(tree, id)
  BY DEF Path!findUnit, findUnit, Path!SelectInSeq, SelectInSeq, Path!Min, Min
<1>2. Path!startIndex(tree, a) = startIndex(tree, a)
  BY <1>1 DEF Path!startIndex, startIndex, Path!Later, Later
<1> QED  BY <1>1, <1>2

LEMMA SameUnlocking ==
    ASSUME NEW tree, NEW i, NEW a
    PROVE  /\ Path!checkpointState(tree, i, a) = checkpointState(tree, i, a)
           /\ \A k : Path!lessonState(tree, i, k, a) = lessonState(tree, i, k, a)
<1>1. \A j : /\ Path!passed(tree[j], a) = passed(tree[j], a)
             /\ Path!allDone(tree[j], a) = allDone(tree[j], a)
  BY DEF Path!passed, passed, Path!allDone, allDone
<1>2. \A j : Path!cleared(tree, j, a) = cleared(tree, j, a)
  BY <1>1, SameStart DEF Path!cleared, cleared
<1>3. Path!open(tree, i, a) = open(tree, i, a)
  BY <1>2, SameStart DEF Path!open, open
<1> QED  BY <1>1, <1>2, <1>3 DEF Path!checkpointState, checkpointState,
                                  Path!lessonState, lessonState

LEMMA SamePlacing ==
    ASSUME NEW tree, NEW current, NEW at
    PROVE  /\ Path!placedPositions(tree) = placedPositions(tree)
           /\ Path!skippedUnits(tree, at) = skippedUnits(tree, at)
           /\ Path!laterStart(tree, current, Path!placedUnit(tree, at))
                 = laterStart(tree, current, placedUnit(tree, at))
<1>1. Path!placedUnit(tree, at) = placedUnit(tree, at)
  BY DEF Path!placedUnit, placedUnit
<1> QED  BY <1>1, SameStart DEF Path!placedPositions, placedPositions, Path!Later, Later,
              Path!skippedUnits, skippedUnits, Path!laterStart, laterStart, Path!rank, rank

LEMMA StartsBlank ==
    ASSUME Init
    PROVE  Rows = Blank /\ Path!Init
<1>1. Committed = {} /\ {b \in attempts : b.passed} = {}
  BY DEF Init, Committed
<1>2. Rows = Blank
  BY <1>1 DEF Init, Rows, Blank
<1> QED  BY <1>2 DEF Path!Init, Path!Blank, Blank

\* The columns a step leaves as they are.
LEMMA KeptColumns ==
    /\ UNCHANGED enrollment => Rows'.enrolled = Rows.enrolled
                               /\ Rows'.startUnitId = Rows.startUnitId
    /\ UNCHANGED completions => Rows'.completedLessonIds = Rows.completedLessonIds
    /\ UNCHANGED attempts => Rows'.passedCheckpointIds = Rows.passedCheckpointIds
    /\ Committed' = Committed => Rows'.skippedUnitIds = Rows.skippedUnitIds
<1>1. UNCHANGED enrollment => Rows'.enrolled = Rows.enrolled
                              /\ Rows'.startUnitId = Rows.startUnitId
  BY DEF Rows
<1>2. UNCHANGED completions => Rows'.completedLessonIds = Rows.completedLessonIds
  BY DEF Rows
<1>3. UNCHANGED attempts => Rows'.passedCheckpointIds = Rows.passedCheckpointIds
  BY DEF Rows
<1>4. Committed' = Committed => Rows'.skippedUnitIds = Rows.skippedUnitIds
  BY DEF Rows
<1> QED  BY <1>1, <1>2, <1>3, <1>4

LEMMA SameLearner ==
    ASSUME NEW a \in Learner, NEW b \in Learner,
           a.enrolled = b.enrolled,
           a.startUnitId = b.startUnitId,
           a.completedLessonIds = b.completedLessonIds,
           a.passedCheckpointIds = b.passedCheckpointIds,
           a.skippedUnitIds = b.skippedUnitIds
    PROVE  a = b
BY DEF Learner

-----------------------------------------------------------------------------
(* The writes, one by one, are what the promise has.                        *)

\* The learner's work: more is done, from the same start.
Grown ==
    /\ Path!Work
    /\ Rows.enrolled => Rows'.enrolled
    /\ Rows'.startUnitId = Rows.startUnitId
    /\ Rows.completedLessonIds \subseteq Rows'.completedLessonIds
    /\ Rows.passedCheckpointIds \subseteq Rows'.passedCheckpointIds
    /\ Rows'.skippedUnitIds = Rows.skippedUnitIds

LEMMA EnrollGrows ==
    ASSUME Typed, Shown, Shown', NEW p \in Process, UpsertEnrollment(p)
    PROVE  Rows' = Rows \/ (Grown /\ Rows' = [Rows EXCEPT !.enrolled = TRUE])
<1>1. UNCHANGED <<completions, attempts>> /\ Committed' = Committed
  BY DEF UpsertEnrollment, Committed
<1>2. CASE enrollment # None
  BY <1>1, <1>2, SameRows DEF UpsertEnrollment
<1>3. CASE enrollment = None
  <2>1. enrollment' = [startUnitId |-> None] /\ enrollment' # None
    BY <1>3, RowAssumption DEF UpsertEnrollment, Enrollment
  <2>2. Rows' = [Rows EXCEPT !.enrolled = TRUE]
    <3>1. /\ Rows'.enrolled = TRUE
          /\ Rows'.startUnitId = Rows.startUnitId
          /\ Rows'.completedLessonIds = Rows.completedLessonIds
          /\ Rows'.passedCheckpointIds = Rows.passedCheckpointIds
          /\ Rows'.skippedUnitIds = Rows.skippedUnitIds
      <4>1. Rows'.enrolled = TRUE
        BY <2>1 DEF Rows
      <4>2. Rows'.startUnitId = Rows.startUnitId
        BY <1>3, <2>1 DEF Rows
      <4> QED  BY <1>1, <4>1, <4>2, KeptColumns
    <3> QED  BY <3>1, SameLearner DEF Shown, Learner
  <2>3. Path!Work
    BY <2>2 DEF Path!Work, Path!Enroll
  <2> QED  BY <2>2, <2>3 DEF Grown, Shown, Learner
<1> QED  BY <1>2, <1>3

\* A completion written is of a lesson that is open in the rows, because it was
\* open in a view that is behind them.
LEMMA CompletionGrows ==
    ASSUME Typed, Shown, Shown', NEW p \in Process, Behind(job[p].view, Rows),
           UpdateCompletion(p) \/ CreateCompletion(p)
    PROVE  Rows' = Rows \/ Grown
<1> DEFINE lesson == request(p).target
<1>0. /\ job[p] \in Job /\ Fits(job[p]) /\ job[p].pc = "write"
      /\ Rows \in Learner
      /\ UNCHANGED <<enrollment, attempts, placements>>
  BY DEF Typed, Jobs, Shown, UpdateCompletion, CreateCompletion, At
<1>1. /\ job[p].release \in Releases
      /\ job[p].view \in Learner
      /\ OpenLesson(job[p])
  BY <1>0 DEF Fits, Job
<1>2. CASE UNCHANGED completions
  BY <1>0, <1>2, SameRows DEF Committed
<1>3. CASE ~UNCHANGED completions
  <2>1. PICK row \in Completion :
           lesson \in LessonId /\ completions' = [completions EXCEPT ![lesson] = row]
    BY <1>3, CompletionWritten
  <2>2. Rows'.completedLessonIds = Rows.completedLessonIds \union {lesson}
    <3>1. /\ DOMAIN completions = LessonId
          /\ row # None
      BY RowAssumption DEF Typed, Stored
    <3> HIDE DEF lesson
    <3> QED  BY <2>1, <3>1 DEF Rows
  <2>3. /\ Rows'.enrolled = Rows.enrolled
        /\ Rows'.startUnitId = Rows.startUnitId
        /\ Rows'.passedCheckpointIds = Rows.passedCheckpointIds
        /\ Rows'.skippedUnitIds = Rows.skippedUnitIds
    BY <1>0, KeptColumns DEF Committed
  <2>4. Rows' = [Rows EXCEPT !.completedLessonIds = @ \union {lesson}]
    <3> HIDE DEF lesson
    <3> QED  BY <1>0, <2>1, <2>2, <2>3, SameLearner DEF Shown, Learner
  <2>5. Path!Work
    <3> DEFINE r == job[p].release
    <3>1. PICK i \in DOMAIN Units[r] : \E k \in DOMAIN Units[r][i].lessons :
             /\ Units[r][i].lessons[k] = lesson
             /\ lessonState(Units[r], i, k, job[p].view) # "locked"
      BY <1>1 DEF OpenLesson, request
    <3>2. PICK k \in DOMAIN Units[r][i].lessons :
             /\ Units[r][i].lessons[k] = lesson
             /\ lessonState(Units[r], i, k, job[p].view) # "locked"
      BY <3>1
    <3>3. lessonState(Units[r], i, k, Rows) # "locked"
      BY <1>0, <1>1, <3>2, OpenWhenBehind
    <3>4. Path!CompleteLesson(r, i, k)
      BY <2>4, <3>2, <3>3, SameTree, SameUnlocking DEF Path!CompleteLesson
    <3> QED  BY <1>1, <3>4, SameTree DEF Path!Work
  <2> QED  BY <2>2, <2>3, <2>5 DEF Grown
<1> QED  BY <1>2, <1>3

\* A checkpoint passed is open in the rows, because it was open in the view.
LEMMA AttemptGrows ==
    ASSUME Typed, Shown, Shown', NEW p \in Process, Behind(job[p].view, Rows),
           InsertAttempt(p)
    PROVE  Rows' = Rows \/ (Go(p, [job[p] EXCEPT !.pc = "invalidate"]) /\ Grown)
<1>0. /\ job[p] \in Job /\ Fits(job[p]) /\ job[p].pc = "insert"
      /\ Rows \in Learner
      /\ UNCHANGED <<enrollment, completions, placements>>
  BY DEF Typed, Jobs, Shown, InsertAttempt, At
<1>1. CASE UNCHANGED attempts
  BY <1>0, <1>1, SameRows DEF Committed
<1>2. CASE ~UNCHANGED attempts
  <2> DEFINE r == job[p].release
  <2>0. request(p).passes \subseteq BOOLEAN
    BY <1>0, RequestType DEF Fits, request
  <2>1. PICK i \in checkpointUnits(p), passes \in request(p).passes :
           /\ attempts' = attempts \union {attemptAt(p, i, passes)}
           /\ passes => Go(p, [job[p] EXCEPT !.pc = "invalidate"])
    BY <1>2, <2>0 DEF InsertAttempt
  <2>2. /\ r \in Releases /\ job[p].view \in Learner
        /\ i \in DOMAIN Units[r]
        /\ Units[r][i].checkpointId # None
        /\ checkpointState(Units[r], i, job[p].view) # "locked"
    BY <1>0, <2>1 DEF Fits, Job, checkpointUnits, units
  <2>3. /\ Rows'.enrolled = Rows.enrolled
        /\ Rows'.startUnitId = Rows.startUnitId
        /\ Rows'.completedLessonIds = Rows.completedLessonIds
        /\ Rows'.skippedUnitIds = Rows.skippedUnitIds
    BY <1>0, KeptColumns DEF Committed
  <2>4. Rows'.passedCheckpointIds =
            IF passes THEN Rows.passedCheckpointIds \union {Units[r][i].checkpointId}
            ELSE Rows.passedCheckpointIds
    <3> DEFINE new == attemptAt(p, i, passes)
    <3>1. attempts' = attempts \union {new}
      BY <2>1
    <3>2. new.passed = passes /\ new.checkpointId = Units[r][i].checkpointId
      BY DEF attemptAt, units
    <3> HIDE DEF new, r
    <3>3. Rows'.passedCheckpointIds = {a.checkpointId : a \in {b \in attempts' : b.passed}}
      BY DEF Rows
    <3>4. Rows.passedCheckpointIds = {a.checkpointId : a \in {b \in attempts : b.passed}}
      BY DEF Rows
    <3>5. CASE passes
      BY <3>1, <3>2, <3>3, <3>4, <3>5
    <3>6. CASE ~passes
      <4>1. {b \in attempts' : b.passed} = {b \in attempts : b.passed}
        BY <3>1, <3>2, <3>6
      <4> QED  BY <3>3, <3>4, <3>6, <4>1
    <3> QED  BY <3>5, <3>6
  <2>5. CASE ~passes
    BY <2>3, <2>4, <2>5, SameLearner DEF Shown
  <2>6. CASE passes
    <3>1. Units[r][i].checkpointId \in CheckpointId
      BY <2>2, UnitsType, UnitParts
    <3>2. Rows' = [Rows EXCEPT !.passedCheckpointIds = @ \union {Units[r][i].checkpointId}]
      <4> HIDE DEF r
      <4> QED  BY <1>0, <2>3, <2>4, <2>6, <3>1, SameLearner DEF Shown, Learner
    <3>3. checkpointState(Units[r], i, Rows) # "locked"
      BY <1>0, <2>2, OpenWhenBehind
    <3>4. Path!PassCheckpoint(r, i)
      BY <2>2, <3>2, <3>3, SameTree, SameUnlocking DEF Path!PassCheckpoint
    <3>5. Path!Work
      BY <2>2, <3>4, SameTree DEF Path!Work
    <3> QED  BY <2>1, <2>3, <2>4, <2>6, <3>5 DEF Grown
  <2> QED  BY <2>5, <2>6
<1> QED  BY <1>1, <1>2

\* A placement's transaction is open.
InTest(p) == job[p].pc \in {"start", "commit"}

\* The row the transaction inserted is later than all others.
HasLatest(p) ==
    \E row \in inserted(p) :
        /\ ~row.committed
        /\ \A other \in placements \ {row} : other.createdAt < row.createdAt

startOf(row) == IF row = None THEN None ELSE row.startUnitId

\* A placement inserted into a table that has none of its request.
Inserts(p) == InsertPlacement(p) /\ inserted(p) = {}

LEMMA InsertedLatest ==
    ASSUME Typed, NEW p \in Process, Inserts(p)
    PROVE  HasLatest(p)'
<1>1. PICK at \in placedPositions(units(p)) :
         placements' = placements \union {placementAt(p, at)}
  BY DEF Inserts, InsertPlacement
<1> DEFINE row == placementAt(p, at)
<1>2. ~row.committed /\ row.createdAt = now /\ row.clientRequestId = requestId(p)
  BY DEF placementAt
<1>3. Go(p, [job[p] EXCEPT !.pc = "start"])
  BY DEF Inserts, InsertPlacement
<1>4. requestId(p)' = requestId(p)
  BY <1>3 DEF Go, Typed, Jobs, Job, requestId
<1>5. \A other \in placements : other.createdAt < now
  BY NowIsLater DEF Typed
<1>6. row \in placements' /\ row.clientRequestId = requestId(p)'
  BY <1>1, <1>2, <1>4
<1>7. \A other \in placements' \ {row} : other.createdAt < row.createdAt
  BY <1>1, <1>2, <1>5
<1> HIDE DEF row
<1> QED  BY <1>2, <1>6, <1>7 DEF HasLatest, inserted

\* A placement committed takes the learner to the later start.
Placed(r, at) ==
    /\ Rows'.enrolled = TRUE
    /\ Rows'.startUnitId =
          laterStart(Units[r], Rows.startUnitId, placedUnit(Units[r], at))
    /\ Rows'.completedLessonIds = Rows.completedLessonIds
    /\ Rows'.passedCheckpointIds = Rows.passedCheckpointIds
    /\ Rows'.skippedUnitIds = skippedUnits(Units[r], at)

\* What grading in release r puts in a row.
GradedIn(row, r) ==
    \E at \in placedPositions(Units[r]) :
        /\ row.placedUnitId = placedUnit(Units[r], at)
        /\ row.skippedUnitIds = skippedUnits(Units[r], at)

\* Its transaction's row is the latest, and nobody has moved the start since
\* the transaction read it.
LEMMA CommitPlaces ==
    ASSUME Typed, Shown, Shown', OneRowEach, NEW p \in Process, CommitPlacement(p),
           HasLatest(p), startOf(job[p].found) = startOf(enrollment),
           NEW r \in Releases, r = job[p].release,
           \A row \in inserted(p) : GradedIn(row, r)
    PROVE  Path!Retake /\ \E at \in placedPositions(Units[r]) : Placed(r, at)
<1> DEFINE current == IF job[p].found = None THEN None ELSE job[p].found.startUnitId
<1>1. /\ UNCHANGED <<completions, attempts>>
      /\ Rows \in Learner /\ Rows' \in Learner
  BY DEF CommitPlacement, Shown
<1>2. PICK row \in inserted(p) :
         /\ placements' = (placements \ {row}) \union {[row EXCEPT !.committed = TRUE]}
         /\ enrollment' = [startUnitId |->
                              laterStart(units(p), current, row.placedUnitId)]
  BY DEF CommitPlacement
<1>3. /\ row \in placements /\ row \in Placement
      /\ ~row.committed
      /\ \A other \in placements \ {row} : other.createdAt < row.createdAt
  <2>1. row \in placements /\ row \in Placement
    BY DEF inserted, Typed, Stored
  <2>2. PICK mine \in inserted(p) :
           /\ ~mine.committed
           /\ \A other \in placements \ {mine} : other.createdAt < mine.createdAt
    BY DEF HasLatest
  <2>3. mine = row
    BY DEF inserted, OneRowEach
  <2> QED  BY <2>1, <2>2, <2>3
<1> DEFINE done == [row EXCEPT !.committed = TRUE]
<1>4. /\ done.committed /\ done.createdAt = row.createdAt
      /\ done.skippedUnitIds = row.skippedUnitIds
      /\ \A other \in placements : other.createdAt \in Nat
      /\ row.createdAt \in Nat
  BY <1>3 DEF Placement, Typed, Stored
<1>5. Committed' = Committed \union {done}
  <2>1. placements' = (placements \ {row}) \union {done}
    BY <1>2
  <2> HIDE DEF done
  <2> QED  BY <1>3, <1>4, <2>1 DEF Committed
<1>6. latest(Committed') = done
  <2>1. \A other \in Committed' : other.createdAt \in Nat
    <3> HIDE DEF done
    <3> QED  BY <1>4, <1>5 DEF Committed
  <2>2. \A other \in Committed' \ {done} : other.createdAt < done.createdAt
    <3> HIDE DEF done
    <3> QED  BY <1>3, <1>4, <1>5 DEF Committed
  <2> HIDE DEF done
  <2> QED  BY <1>5, <2>1, <2>2, OnlyLatest
<1>7. PICK at \in placedPositions(Units[r]) :
         /\ row.placedUnitId = placedUnit(Units[r], at)
         /\ row.skippedUnitIds = skippedUnits(Units[r], at)
  BY DEF GradedIn
<1>8. current = Rows.startUnitId
  BY DEF startOf, Rows
<1>9. enrollment' # None
  <2>1. enrollment' \in Enrollment
    <3>1. current \in UnitId \union {None} /\ row.placedUnitId \in UnitId \union {None}
      BY <1>1, <1>3, <1>8 DEF Learner, Placement
    <3> QED  BY <1>2, <3>1 DEF laterStart, Enrollment
  <2> QED  BY <2>1, RowAssumption
<1>10. Placed(r, at)
  <2>1. Rows'.enrolled = TRUE
    BY <1>9 DEF Rows
  <2>2. Rows'.startUnitId =
             laterStart(Units[r], Rows.startUnitId, placedUnit(Units[r], at))
    <3>1. Rows'.startUnitId = enrollment'.startUnitId
      BY <1>9 DEF Rows
    <3> HIDE DEF current
    <3> QED  BY <1>2, <1>7, <1>8, <3>1 DEF units
  <2>3. Rows'.skippedUnitIds = latest(Committed').skippedUnitIds
    BY <1>5 DEF Rows
  <2> HIDE DEF done
  <2> QED  BY <1>1, <1>4, <1>6, <1>7, <2>1, <2>2, <2>3, KeptColumns DEF Placed
<1>11. Path!Retake
  <2>1. Rows' = [Rows EXCEPT
           !.enrolled = TRUE,
           !.startUnitId = laterStart(Units[r], @, placedUnit(Units[r], at)),
           !.skippedUnitIds = skippedUnits(Units[r], at)]
    <3>1. /\ laterStart(Units[r], Rows.startUnitId, placedUnit(Units[r], at))
                \in UnitId \union {None}
          /\ skippedUnits(Units[r], at) \in SUBSET UnitId
      BY <1>1, <1>10 DEF Placed, Learner
    <3> QED  BY <1>1, <1>10, <3>1, SameLearner DEF Placed, Learner
  <2>2. Path!Place(r, at)
    <3>1. /\ Path!skippedUnits(Units[r], at) = skippedUnits(Units[r], at)
          /\ Path!laterStart(Units[r], Rows.startUnitId, Path!placedUnit(Units[r], at))
                = laterStart(Units[r], Rows.startUnitId, placedUnit(Units[r], at))
      BY SamePlacing
    <3> QED  BY <2>1, <3>1, SameTree DEF Path!Place
  <2> QED  BY <2>2, SameTree, SamePlacing DEF Path!Retake
<1> QED  BY <1>10, <1>11

-----------------------------------------------------------------------------
(* Requests side by side.  Nothing erases, and placement tests are taken    *)
(* one at a time in one release: without these two the code breaks what     *)
(* follows (an erasure overlapping a write; laterStart across releases).    *)

NoErasure == \A q \in RequestId : Requests[q].op \notin {"reset", "purge"}
OneTestAtATime == Placing # {} => OneRelease /\ ~Retakes
SideBySide == NoErasure /\ OneTestAtATime

Views ==
    /\ \A r \in Releases : cache[r] # None => Behind(cache[r], Rows)
    /\ \A p \in Process : Behind(job[p].view, Rows)

\* What a grading of some release puts in a row.
Gradable(row) == \E r \in Releases : GradedIn(row, r)

\* Processes that take a test take the same one, one of them has its row, and
\* the start unit it read is the one stored.
Tests ==
    /\ \A p, q \in Process :
          requestId(p) \in Placing /\ requestId(q) \in Placing
          => requestId(p) = requestId(q)
    /\ \A p, q \in Process : InTest(p) /\ InTest(q) => p = q
    /\ \A p \in Process : InTest(p) => HasLatest(p)
    /\ \A p \in Process : At(p, "commit") => startOf(job[p].found) = startOf(enrollment)
    /\ \A row \in placements : Gradable(row)
    /\ OneRowEach

Skips == \A r \in Releases : SkippedBehindStart(Units[r], Rows)

\* The inductive invariant of requests side by side.
Overlap == Views /\ Tests /\ Skips

-----------------------------------------------------------------------------
(* What a step does to the rows.                                            *)

Onward == \A r \in Releases : NoFurther(Units[r], Rows, Rows')

\* A step of the rows that the promise has: nothing, work, or a retake; nobody
\* is taken back, and the skipped units stay behind the start unit.
RowsStep ==
    /\ Rows' = Rows \/ Path!Work \/ Path!Retake
    /\ Onward
    /\ Skips'

LEMMA SameRowsStep ==
    ASSUME Shown, Shown', Skips, Rows' = Rows
    PROVE  RowsStep
<1>1. Onward
  BY UnitsType, GrownFurther DEF Shown, Onward
<1> QED  BY <1>1 DEF RowsStep, Skips

LEMMA GrownRowsStep ==
    ASSUME Shown, Shown', Skips, Grown
    PROVE  RowsStep
<1>1. Onward
  BY UnitsType, GrownFurther DEF Shown, Grown, Onward
<1>2. Skips'
  BY DEF Grown, Skips, SkippedBehindStart, startIndex
<1> QED  BY <1>1, <1>2 DEF RowsStep, Grown

\* A test is taken in the only release.
LEMMA TestRelease ==
    ASSUME Typed, OneTestAtATime, NEW p \in Process, InTest(p)
    PROVE  job[p].release \in Releases /\ OneRelease /\ ~Retakes
<1>1. job[p].release \in Releases /\ requestId(p) \in Placing
  BY DEF Typed, Jobs, Fits, InTest, Placing, requestId
<1> QED  BY <1>1 DEF OneTestAtATime

\* A placement moves nobody back, because it is of the only release.
LEMMA CommitRowsStep ==
    ASSUME Typed, Shown, Shown', Overlap, OneTestAtATime,
           NEW p \in Process, CommitPlacement(p)
    PROVE  RowsStep
<1> DEFINE r == job[p].release
<1>1. InTest(p) /\ At(p, "commit") /\ Tests /\ Skips
  BY DEF CommitPlacement, At, InTest, Overlap
<1>2. r \in Releases /\ \A s \in Releases : s = r
  BY <1>1, TestRelease DEF OneRelease
<1>3. \A row \in inserted(p) : GradedIn(row, r)
  BY <1>1, <1>2 DEF Tests, Gradable, inserted
<1>4. HasLatest(p) /\ startOf(job[p].found) = startOf(enrollment) /\ OneRowEach
  BY <1>1 DEF Tests
<1>5. Path!Retake /\ \E at \in placedPositions(Units[r]) : Placed(r, at)
  <2> HIDE DEF r
  <2>1. r = job[p].release
    BY DEF r
  <2> QED  BY <1>2, <1>3, <1>4, <2>1, CommitPlaces
<1>6. NoFurther(Units[r], Rows, Rows') /\ SkippedBehindStart(Units[r], Rows')
  BY <1>1, <1>2, <1>5, PlacedFurther DEF Skips, Placed, Shown
<1>7. Onward /\ Skips'
  BY <1>2, <1>6 DEF Onward, Skips
<1> QED  BY <1>5, <1>7 DEF RowsStep

\* Where no request erases, few steps touch placements or a start unit.
LEMMA PlacementCases ==
    ASSUME Typed, NoErasure, NEW p \in Process, Step(p) \/ Crash(p)
    PROVE  /\ ~Erase(p)
           /\ \/ UNCHANGED placements /\ startOf(enrollment') = startOf(enrollment)
              \/ Inserts(p)
              \/ CommitPlacement(p)
              \/ Crash(p) /\ InTest(p)
<1>1. ~Erase(p)
  <2> SUFFICES ASSUME Erase(p)
               PROVE  FALSE
    OBVIOUS
  <2>1. requestId(p) \in RequestId /\ request(p).op \in {"reset", "purge"}
    BY DEF Erase, At, Typed, Jobs, Fits, request, requestId
  <2> QED  BY <2>1 DEF NoErasure, request, requestId
<1>2. CASE UNCHANGED <<placements, enrollment>>
  BY <1>1, <1>2
<1>3. CASE UpsertEnrollment(p)
  <2>1. enrollment # None => enrollment' = enrollment
    BY <1>3 DEF UpsertEnrollment
  <2>2. enrollment = None => enrollment' = [startUnitId |-> None]
    BY <1>3 DEF UpsertEnrollment
  <2>3. startOf(enrollment') = startOf(enrollment)
    BY <2>1, <2>2 DEF startOf
  <2> QED  BY <1>1, <1>3, <2>3 DEF UpsertEnrollment
<1>4. CASE InsertPlacement(p)
  BY <1>1, <1>2, <1>4 DEF InsertPlacement, Inserts
<1>5. CASE Crash(p)
  BY <1>1, <1>2, <1>5 DEF Crash, InTest
<1>6. CASE Step(p) /\ ~UpsertEnrollment(p) /\ ~InsertPlacement(p) /\ ~CommitPlacement(p)
  <2>1. UNCHANGED <<placements, enrollment>>
    BY <1>1, <1>6, StepCases DEF rows, Invalidate, UpdateCompletion, CreateCompletion,
           InsertAttempt, Publish
  <2> QED  BY <1>2, <2>1
<1> QED  BY <1>1, <1>3, <1>4, <1>5, <1>6

\* Every step of requests side by side is one of the promise, or none.
LEMMA EveryRowsStep ==
    ASSUME Typed, Shown, Shown', Overlap, SideBySide, [Next]_vars
    PROVE  RowsStep
<1>0. Skips /\ NoErasure /\ OneTestAtATime
  BY DEF Overlap, SideBySide
<1>1. CASE UNCHANGED rows
  BY <1>0, <1>1, UntouchedRows, SameRowsStep
<1>2. ASSUME NEW p \in Process, InsertPlacement(p) \/ Crash(p)
      PROVE  RowsStep
  <2>1. Committed' = Committed
    BY <1>2 DEF InsertPlacement, placementAt, Crash, Committed
  <2>2. Rows' = Rows
    BY <1>2, <2>1, SameRows DEF InsertPlacement, Crash
  <2> QED  BY <1>0, <2>2, SameRowsStep
<1>3. ASSUME NEW p \in Process, Invalidate(p) \/ Publish(p)
      PROVE  RowsStep
  BY <1>1, <1>3 DEF Invalidate, Publish
<1>4. ASSUME NEW p \in Process, Step(p)
      PROVE  RowsStep
  <2>1. ~Erase(p)
    BY <1>0, <1>4, PlacementCases
  <2>2. Behind(job[p].view, Rows)
    BY DEF Overlap, Views
  <2>3. CASE Grown
    BY <1>0, <2>3, GrownRowsStep
  <2>4. CASE Rows' = Rows
    BY <1>0, <2>4, SameRowsStep
  <2> QED  BY <1>0, <1>1, <1>2, <1>3, <1>4, <2>1, <2>2, <2>3, <2>4, StepCases, EnrollGrows,
              CompletionGrows, AttemptGrows, CommitRowsStep
<1>5. ASSUME NEW p \in Process, NEW q \in RequestId, Receive(p, q)
      PROVE  RowsStep
  BY <1>1, <1>5 DEF Receive
<1>6. ASSUME NEW r \in Releases, Expire(r)
      PROVE  RowsStep
  BY <1>1, <1>6 DEF Expire
<1>7. CASE UNCHANGED vars
  BY <1>1, <1>7 DEF vars, rows
<1> QED  BY <1>2, <1>4, <1>5, <1>6, <1>7 DEF Next

-----------------------------------------------------------------------------
(* Views stay behind the rows.                                              *)

LEMMA StillBehind ==
    ASSUME NEW view, Behind(view, Rows), Onward
    PROVE  Behind(view, Rows')
BY UnitsType, NoFurtherTransitive DEF Behind, Onward

\* A view with a table read is behind the rows if it was before.
LEMMA NextViewBehind ==
    ASSUME Typed, Shown, Views, NEW p \in Process, NEW view, NextView(p, view)
    PROVE  Behind(view, Rows)
<1> DEFINE seen == job[p].view
<1>0. seen \in Learner /\ Rows \in Learner /\ Behind(seen, Rows)
  BY DEF Typed, Jobs, Job, Shown, Views
<1> SUFFICES ASSUME NEW r \in Releases
             PROVE  NoFurther(Units[r], view, Rows)
  BY DEF Behind
<1>1. /\ NoFurther(Units[r], seen, Rows)
      /\ Units[r] \in Seq(Unit)
      /\ startIndex(Units[r], seen) \in Nat
      /\ startIndex(Units[r], Rows) \in Nat
  BY <1>0, UnitsType, StartIndexType DEF Behind
<1> HIDE DEF seen
<1>2. CASE view \in {seen, Blank}
  BY <1>1, <1>2, BlankBehindAll
<1>3. CASE job[p].release \in Releases /\ cache[job[p].release] # None
           /\ view = cache[job[p].release]
  BY <1>3 DEF Views, Behind
<1>4. CASE view = [seen EXCEPT !.enrolled = Rows.enrolled,
                               !.startUnitId = Rows.startUnitId]
  <2>1. /\ view.enrolled = Rows.enrolled
        /\ view.startUnitId = Rows.startUnitId
        /\ view.completedLessonIds = seen.completedLessonIds
        /\ view.passedCheckpointIds = seen.passedCheckpointIds
        /\ view.skippedUnitIds = seen.skippedUnitIds
    BY <1>0, <1>4 DEF Learner
  <2>2. startIndex(Units[r], view) = startIndex(Units[r], Rows)
    BY <2>1 DEF startIndex
  <2> QED  BY <1>1, <2>1, <2>2 DEF NoFurther
<1>5. ASSUME view.enrolled = seen.enrolled,
             view.startUnitId = seen.startUnitId,
             view.completedLessonIds \in {seen.completedLessonIds, Rows.completedLessonIds},
             view.passedCheckpointIds \in {seen.passedCheckpointIds, Rows.passedCheckpointIds},
             view.skippedUnitIds \in {seen.skippedUnitIds, Rows.skippedUnitIds}
      PROVE  NoFurther(Units[r], view, Rows)
  <2>1. startIndex(Units[r], view) = startIndex(Units[r], seen)
    BY <1>5 DEF startIndex
  <2> QED  BY <1>1, <1>5, <2>1 DEF NoFurther
<1>6. CASE view = [seen EXCEPT !.completedLessonIds = Rows.completedLessonIds]
  BY <1>0, <1>5, <1>6 DEF Learner
<1>7. CASE view = [seen EXCEPT !.passedCheckpointIds = Rows.passedCheckpointIds]
  BY <1>0, <1>5, <1>7 DEF Learner
<1>8. CASE view = [seen EXCEPT !.skippedUnitIds = Rows.skippedUnitIds]
  BY <1>0, <1>5, <1>8 DEF Learner
<1> QED  BY <1>2, <1>3, <1>4, <1>6, <1>7, <1>8 DEF NextView, seen

LEMMA ViewsStay ==
    ASSUME Typed, Shown, Views, Onward, [Next]_vars
    PROVE  Views'
<1>1. ASSUME NEW r \in Releases, cache'[r] # None
      PROVE  Behind(cache'[r], Rows')
  BY <1>1, NextCache, StillBehind DEF Views
<1>2. ASSUME NEW o \in Process
      PROVE  Behind(job'[o].view, Rows')
  <2>1. CASE job'[o] = job[o]
    BY <2>1, StillBehind DEF Views
  <2>2. CASE NextJob(o, job'[o])
    <3>1. Behind(job'[o].view, Rows)
      BY <2>2, NextViewBehind DEF NextJob
    <3> QED  BY <3>1, StillBehind
  <2>3. ASSUME NEW p \in Process, NEW q \in RequestId, Receive(p, q)
        PROVE  job'[o] = job[o] \/ job'[o].view = Blank
    BY <2>3 DEF Receive, Go, Idle, Typed, Jobs
  <2>4. CASE job'[o].view = Blank
    BY <2>4, UnitsType, BlankBehindAll DEF Behind
  <2> QED  BY <2>1, <2>2, <2>3, <2>4, StepOf
<1> QED  BY <1>1, <1>2 DEF Views

-----------------------------------------------------------------------------
(* One placement test at a time.                                            *)

SameTest ==
    \A p, q \in Process :
        requestId(p) \in Placing /\ requestId(q) \in Placing
        => requestId(p) = requestId(q)

LEMMA SameTestStays ==
    ASSUME Typed, SameTest, OneTestAtATime, [Next]_vars
    PROVE  SameTest'
<1> SUFFICES ASSUME NEW o \in Process, NEW x \in Process,
                    job'[o].request \in Placing, job'[x].request \in Placing
             PROVE  job'[o].request = job'[x].request
  BY DEF SameTest, requestId
<1>0. None \notin Placing
  BY RequestAssumption DEF Placing
<1>1. ASSUME NEW p \in Process, NextJob(p, job'[p]),
             \A y \in Process \ {p} : job'[y] = job[y]
      PROVE  job'[o].request = job'[x].request
  <2>1. \A y \in Process : job'[y].request \in {job[y].request, None}
    BY <1>1 DEF NextJob
  <2> QED  BY <1>0, <2>1 DEF SameTest, requestId
<1>2. ASSUME NEW p \in Process, NEW q \in RequestId, Receive(p, q)
      PROVE  job'[o].request = job'[x].request
  <2>1. \A y \in Process : job'[y].request = IF y = p THEN q ELSE requestId(y)
    BY <1>2 DEF Receive, Go, Idle, Typed, Jobs, requestId
  <2>2. CASE q \in Placing
    <3>1. \A y \in Process : requestId(y) \in Placing => requestId(y) = q
      BY <1>2, <2>2 DEF Receive, OneTestAtATime, Placing
    <3> QED  BY <2>1, <3>1
  <2>3. CASE q \notin Placing
    BY <2>1, <2>3 DEF SameTest
  <2> QED  BY <2>2, <2>3
<1>3. CASE UNCHANGED <<rows, job>>
  BY <1>3 DEF SameTest, requestId
<1> QED  BY <1>1, <1>2, <1>3, StepOf

\* A process in a test takes a placement, and keeps its request while it does.
LEMMA TestRequest ==
    ASSUME Typed, NEW p \in Process, InTest(p) \/ Inserts(p)
    PROVE  requestId(p) \in Placing
BY DEF Typed, Jobs, Fits, InTest, Inserts, InsertPlacement, At, Placing, requestId,
       request

\* Whoever else is in a test has its row, so nobody inserts another one.
LEMMA NoSecondInsert ==
    ASSUME Typed, Tests, NEW p \in Process, Inserts(p), NEW o \in Process
    PROVE  ~InTest(o)
<1> SUFFICES ASSUME InTest(o)
             PROVE  FALSE
  OBVIOUS
<1>1. requestId(p) = requestId(o)
  BY TestRequest DEF Tests
<1>2. inserted(o) # {}
  BY DEF Tests, HasLatest
<1> QED  BY <1>1, <1>2 DEF Inserts, inserted

\* How a process comes to be in a test: it was, or it has just inserted.
LEMMA NextInTest ==
    ASSUME Typed, NoErasure, Tests, [Next]_vars, NEW o \in Process, InTest(o)'
    PROVE  \/ Inserts(o)
           \/ /\ InTest(o)
              /\ requestId(o)' = requestId(o)
              /\ UNCHANGED placements
              /\ startOf(enrollment') = startOf(enrollment)
              /\ \/ job'[o] = job[o]
                 \/ job'[o].pc = "commit" => job'[o].found = enrollment
<1>0. job'[o].pc \in {"start", "commit"}
  BY DEF InTest
<1>1. ASSUME NextJob(o, job'[o])
      PROVE  \/ InsertPlacement(o) /\ job'[o].pc = "start"
             \/ ReadEnrollment(o) /\ job'[o].pc = "commit" /\ job'[o].found = enrollment
  BY <1>0, <1>1 DEF NextJob
<1>2. ASSUME InsertPlacement(o), job'[o].pc = "start"
      PROVE  Inserts(o)
  <2>1. job[o] \in Job
    BY DEF Typed, Jobs
  <2>2. CASE Go(o, [job[o] EXCEPT !.pc = "lookup", !.retried = TRUE])
    BY <1>2, <2>1, <2>2 DEF Go, Typed, Jobs, Job
  <2> QED  BY <1>2, <2>2 DEF InsertPlacement, Inserts
<1>3. ASSUME ReadEnrollment(o), job'[o].pc = "commit", job'[o].found = enrollment
      PROVE  /\ InTest(o) /\ requestId(o)' = requestId(o)
             /\ UNCHANGED <<placements, enrollment>>
  <2>1. job[o] \in Job
    BY DEF Typed, Jobs
  <2>2. job'[o].request = job[o].request
    BY <1>3, <2>1 DEF ReadEnrollment, Go, Typed, Jobs, Job
  <2> QED  BY <1>3, <2>2 DEF ReadEnrollment, InTest, At, requestId, rows
<1>4. ASSUME NEW p \in Process \ {o}, Step(p) \/ Crash(p), job'[o] = job[o]
      PROVE  /\ InTest(o) /\ requestId(o)' = requestId(o)
             /\ UNCHANGED placements
             /\ startOf(enrollment') = startOf(enrollment)
  <2>1. InTest(o) /\ requestId(o)' = requestId(o)
    BY <1>0, <1>4 DEF InTest, requestId
  <2>2. ~InTest(p)
    BY <2>1 DEF Tests
  <2>3. ~Inserts(p)
    BY <2>1, NoSecondInsert
  <2>4. ~CommitPlacement(p)
    BY <2>2 DEF CommitPlacement, At, InTest
  <2> QED  BY <1>4, <2>1, <2>2, <2>3, <2>4, PlacementCases
<1>5. ASSUME NEW p \in Process, NEW q \in RequestId, Receive(p, q)
      PROVE  /\ InTest(o) /\ job'[o] = job[o] /\ UNCHANGED <<placements, enrollment>>
  <2>1. job'[p].pc \notin {"start", "commit"}
    BY <1>5 DEF Receive, Go, Idle, Typed, Jobs
  <2>2. o # p
    BY <1>0, <2>1
  <2>3. job'[o] = job[o]
    BY <1>5, <2>2 DEF Receive, Go, Typed, Jobs
  <2> QED  BY <1>0, <1>5, <2>3 DEF Receive, InTest, rows
<1>6. CASE UNCHANGED <<rows, job>>
  BY <1>0, <1>6 DEF rows, InTest, requestId
<1>7. CASE \E p \in Process, q \in RequestId : Receive(p, q)
  BY <1>5, <1>7 DEF requestId
<1>8. ASSUME NEW p \in Process, Step(p) \/ Crash(p), NextJob(p, job'[p]),
             \A y \in Process \ {p} : job'[y] = job[y]
      PROVE  \/ Inserts(o)
             \/ /\ InTest(o)
                /\ requestId(o)' = requestId(o)
                /\ UNCHANGED placements
                /\ startOf(enrollment') = startOf(enrollment)
                /\ \/ job'[o] = job[o]
                   \/ job'[o].pc = "commit" => job'[o].found = enrollment
  <2>1. CASE o = p
    BY <1>1, <1>2, <1>3, <1>8, <2>1
  <2>2. CASE o # p
    BY <1>4, <1>8, <2>2
  <2> QED  BY <2>1, <2>2
<1> QED  BY <1>6, <1>7, <1>8, StepOf

LEMMA HasLatestStays ==
    ASSUME Typed, NoErasure, Tests, [Next]_vars, NEW o \in Process, InTest(o)'
    PROVE  HasLatest(o)'
<1>1. CASE InTest(o) /\ requestId(o)' = requestId(o) /\ UNCHANGED placements
  <2>1. HasLatest(o)
    BY <1>1 DEF Tests
  <2> QED  BY <1>1, <2>1 DEF HasLatest, inserted
<1> QED  BY <1>1, NextInTest, InsertedLatest

LEMMA GradableStays ==
    ASSUME Typed, NoErasure, Tests, [Next]_vars, NEW row \in placements'
    PROVE  Gradable(row)
<1>1. CASE row \in placements
  BY <1>1 DEF Tests
<1>2. ASSUME NEW p \in Process, Inserts(p)
      PROVE  Gradable(row)
  <2>1. PICK at \in placedPositions(units(p)) :
           placements' = placements \union {placementAt(p, at)}
    BY <1>2 DEF Inserts, InsertPlacement
  <2>2. job[p].release \in Releases
    BY <1>2 DEF Inserts, InsertPlacement, At, Typed, Jobs, Fits
  <2>3. Gradable(placementAt(p, at))
    BY <2>2 DEF Gradable, GradedIn, placementAt, units
  <2> QED  BY <1>1, <2>1, <2>3
<1>3. ASSUME NEW p \in Process, CommitPlacement(p)
      PROVE  Gradable(row)
  <2>1. PICK mine \in inserted(p) :
           placements' = (placements \ {mine}) \union {[mine EXCEPT !.committed = TRUE]}
    BY <1>3 DEF CommitPlacement
  <2>2. mine \in placements /\ mine \in Placement
    BY DEF inserted, Typed, Stored
  <2>3. [mine EXCEPT !.committed = TRUE].placedUnitId = mine.placedUnitId
        /\ [mine EXCEPT !.committed = TRUE].skippedUnitIds = mine.skippedUnitIds
    BY <2>2 DEF Placement
  <2>4. Gradable(mine)
    BY <2>2 DEF Tests
  <2>5. Gradable([mine EXCEPT !.committed = TRUE])
    BY <2>3, <2>4 DEF Gradable, GradedIn
  <2> QED  BY <1>1, <2>1, <2>5
<1>4. ASSUME NEW p \in Process, Crash(p)
      PROVE  Gradable(row)
  BY <1>1, <1>4 DEF Crash
<1>5. ASSUME NEW p \in Process, NEW q \in RequestId, Receive(p, q)
      PROVE  Gradable(row)
  BY <1>1, <1>5 DEF Receive, rows
<1>6. CASE UNCHANGED <<rows, job>>
  BY <1>1, <1>6 DEF rows
<1> QED  BY <1>1, <1>2, <1>3, <1>4, <1>5, <1>6, StepOf, PlacementCases

LEMMA TestsStay ==
    ASSUME Typed, NoErasure, OneTestAtATime, Tests, [Next]_vars
    PROVE  Tests'
<1>1. SameTest'
  BY SameTestStays DEF Tests, SameTest
<1>2. ASSUME NEW o \in Process, NEW x \in Process, InTest(o)', InTest(x)', o # x
      PROVE  FALSE
  <2>1. InTest(o) \/ InTest(x)
    <3>1. CASE Inserts(o) /\ Inserts(x)
      <4>1. job' = [job EXCEPT ![o] = [job[o] EXCEPT !.pc = "start"]]
            /\ job' = [job EXCEPT ![x] = [job[x] EXCEPT !.pc = "start"]]
        BY <3>1 DEF Inserts, InsertPlacement, Go
      <4>2. job[x].pc = "insert" /\ job[x] \in Job /\ job \in [Process -> Job]
        BY <3>1 DEF Inserts, InsertPlacement, At, Typed, Jobs
      <4> QED  BY <1>2, <4>1, <4>2 DEF Job
    <3> QED  BY <1>2, <3>1, NextInTest
  <2>2. ~(InTest(o) /\ InTest(x))
    BY <1>2 DEF Tests
  <2>3. ~(Inserts(o) /\ InTest(x)) /\ ~(Inserts(x) /\ InTest(o))
    BY NoSecondInsert
  <2> QED  BY <1>2, <2>1, <2>2, <2>3, NextInTest
<1>3. ASSUME NEW o \in Process, At(o, "commit")'
      PROVE  startOf(job'[o].found) = startOf(enrollment')
  <2>1. InTest(o)' /\ job'[o].pc = "commit"
    BY <1>3 DEF At, InTest
  <2>2. ~Inserts(o)
    <3>1. Inserts(o) => job'[o].pc = "start"
      BY DEF Inserts, InsertPlacement, Go, Typed, Jobs, Job
    <3> QED  BY <2>1, <3>1
  <2>3. CASE job'[o] = job[o] /\ startOf(enrollment') = startOf(enrollment)
    BY <2>1, <2>3 DEF Tests, At
  <2>4. CASE job'[o].found = enrollment /\ startOf(enrollment') = startOf(enrollment)
    BY <2>4
  <2> QED  BY <2>1, <2>2, <2>3, <2>4, NextInTest
<1>4. OneRowEach'
  BY OneRowEachStays DEF Tests
<1> QED  BY <1>1, <1>2, <1>3, <1>4, HasLatestStays, GradableStays
         DEF Tests, SameTest

-----------------------------------------------------------------------------
(* What holds of requests side by side.                                     *)

LEMMA OverlapHolds == SideBySide /\ Spec => [](Typed /\ Shown /\ Overlap)
<1> SUFFICES ASSUME SideBySide
             PROVE  Spec => [](Typed /\ Shown /\ Overlap)
  OBVIOUS
<1>1. Typed => Shown
  BY RowsTyped DEF Shown
<1>2. Init => Overlap
  <2> SUFFICES ASSUME Init
               PROVE  Overlap
    OBVIOUS
  <2>1. Views
    BY UnitsType, BlankBehindAll DEF Init, Views, Behind, Idle
  <2>2. Tests
    <3>1. \A p \in Process : job[p] = Idle
      BY DEF Init
    <3>2. None \notin Placing
      BY RequestAssumption DEF Placing
    <3> QED  BY <3>1, <3>2 DEF Init, Tests, Idle, InTest, At, requestId, OneRowEach
  <2>3. Skips
    BY DEF Init, Skips, SkippedBehindStart, Rows, Committed
  <2> QED  BY <2>1, <2>2, <2>3 DEF Overlap
<1>3. Typed /\ Shown /\ Shown' /\ Overlap /\ [Next]_vars => Overlap'
  <2> SUFFICES ASSUME Typed, Shown, Shown', Overlap, [Next]_vars
               PROVE  Overlap'
    OBVIOUS
  <2>1. RowsStep
    BY EveryRowsStep
  <2>2. Views'
    BY <2>1, ViewsStay DEF Overlap, RowsStep
  <2>3. Tests'
    BY TestsStay DEF Overlap, SideBySide
  <2> QED  BY <2>1, <2>2, <2>3 DEF Overlap, RowsStep
<1> QED  BY <1>1, <1>2, <1>3, TypedHolds, PTL DEF Spec

\* A view a request acts on or is answered with, cached or being read table by
\* table, never unlocks what the rows do not.
THEOREM ViewsBehindHolds == SideBySide /\ Spec => []ViewsBehind
<1>1. Overlap => ViewsBehind
  BY DEF Overlap, Views, ViewsBehind, views, Behind
<1> QED  BY <1>1, OverlapHolds, PTL

\* The tables change as the promise does, one operation at a time, each allowed
\* by what is stored when it is written: the service implements LearnerPath.
THEOREM RefinesHolds == SideBySide /\ Spec => Refines
<1> SUFFICES ASSUME SideBySide
             PROVE  Spec => Refines
  OBVIOUS
<1>1. Init => Path!Init
  BY StartsBlank
<1>2. Typed /\ Shown /\ Shown' /\ Overlap /\ [Next]_vars => [Path!Next]_Rows
  BY EveryRowsStep DEF RowsStep, Path!Next
<1> QED  BY <1>1, <1>2, OverlapHolds, PTL DEF Spec, Refines, Path!Spec

\* Totals the rows show, whichever tree they are grouped by.
Earned(message, stored) ==
    /\ message.tree \in Releases /\ message.release \in Releases
    /\ LET totals == pathTotals(Tree[message.tree], Units[message.release], stored)
       IN  \A field \in DOMAIN totals : message.totals[field] \in Nat
                                        /\ message.totals[field] <= totals[field]

LEMMA StillEarned ==
    ASSUME Shown, Shown', Onward, NEW message, Earned(message, Rows)
    PROVE  Earned(message, Rows')
<1>1. /\ message.tree \in Releases /\ message.release \in Releases
      /\ Rows \in Learner /\ Rows' \in Learner
      /\ NoFurther(Units[message.release], Rows, Rows')
  BY DEF Earned, Shown, Onward
<1> DEFINE before == pathTotals(Tree[message.tree], Units[message.release], Rows)
           after == pathTotals(Tree[message.tree], Units[message.release], Rows')
<1>2. /\ DOMAIN before = DOMAIN after
      /\ \A field \in DOMAIN before : /\ before[field] \in Nat
                                      /\ after[field] \in Nat
                                      /\ before[field] <= after[field]
  BY <1>1, TreeType, UnitsType, TotalsMonotone
<1>3. \A field \in DOMAIN before : message.totals[field] \in Nat
                                   /\ message.totals[field] <= before[field]
  BY DEF Earned
<1> HIDE DEF before, after
<1>4. \A field \in DOMAIN after : message.totals[field] \in Nat
                                  /\ message.totals[field] <= after[field]
  BY <1>2, <1>3
<1> QED  BY <1>1, <1>4 DEF Earned, after

\* What is sent is counted over a view, and the view is behind the rows.
LEMMA SentEarned ==
    ASSUME Typed, Shown, Views, NoErasure, NEW p \in Process, Publish(p)
    PROVE  \/ Earned(reported', Rows)
           \/ UNCHANGED reported
<1> DEFINE release == job[p].release
           tree == IF request(p).op = "placement" THEN job[p].graded ELSE release
           view == job[p].view
           sent == pathTotals(Tree[tree], Units[release], view)
           stored == pathTotals(Tree[tree], Units[release], Rows)
<1>1. /\ job[p] \in Job /\ Fits(job[p]) /\ job[p].pc = "publish"
      /\ Rows \in Learner
  BY DEF Typed, Jobs, Publish, At, Shown
<1>2. request(p).op # "reset"
  BY <1>1 DEF Fits, NoErasure, request
<1>3. release \in Releases /\ tree \in Releases /\ view \in Learner
  BY <1>1, <1>2 DEF Fits, request, Job
<1>4. NoFurther(Units[release], view, Rows)
  BY <1>3 DEF Views, Behind
<1>5. /\ DOMAIN sent = DOMAIN stored
      /\ \A field \in DOMAIN sent : /\ sent[field] \in Nat
                                    /\ sent[field] <= stored[field]
  BY <1>1, <1>3, <1>4, TreeType, UnitsType, TotalsMonotone
<1>6. \/ reported' = [tree |-> tree, release |-> release, totals |-> sent]
      \/ UNCHANGED reported
  BY <1>2 DEF Publish, units
<1> HIDE DEF release, tree, view, sent
<1>7. ASSUME reported' = [tree |-> tree, release |-> release, totals |-> sent]
      PROVE  Earned(reported', Rows)
  <2>1. reported'.tree = tree /\ reported'.release = release /\ reported'.totals = sent
    BY <1>7
  <2> HIDE DEF stored
  <2>2. \A field \in DOMAIN stored : reported'.totals[field] \in Nat
                                     /\ reported'.totals[field] <= stored[field]
    BY <1>5, <2>1
  <2> QED  BY <1>3, <2>1, <2>2 DEF Earned, stored
<1> QED  BY <1>6, <1>7

\* learning-service is never told more than the rows show, also by events that
\* come late or of views that were out of date.
THEOREM ReportedEarnedHolds == SideBySide /\ Spec => []ReportedEarned
<1> SUFFICES ASSUME SideBySide
             PROVE  Spec => []ReportedEarned
  OBVIOUS
<1> DEFINE Reporting == reported # None => Earned(reported, Rows)
<1>1. Init => Reporting
  BY DEF Init
<1>2. Typed /\ Shown /\ Shown' /\ Overlap /\ Reporting /\ [Next]_vars => Reporting'
  <2> SUFFICES ASSUME Typed, Shown, Shown', Overlap, Reporting, [Next]_vars,
                      reported' # None
               PROVE  Earned(reported', Rows')
    OBVIOUS
  <2>1. Onward
    BY EveryRowsStep DEF RowsStep
  <2>2. Earned(reported', Rows)
    <3>1. CASE UNCHANGED reported
      BY <3>1
    <3>2. ASSUME NEW p \in Process, Publish(p)
          PROVE  Earned(reported', Rows)
      BY <3>1, <3>2, SentEarned DEF Overlap, SideBySide
    <3> QED  BY <3>1, <3>2, ReportedChanges
  <2> QED  BY <2>1, <2>2, StillEarned
<1>3. Reporting => ReportedEarned
  BY DEF ReportedEarned, Earned
<1> HIDE DEF Reporting
<1> QED  BY <1>1, <1>2, <1>3, OverlapHolds, PTL DEF Spec

-----------------------------------------------------------------------------
(* Requests served one at a time.                                           *)


OneByOne == (\A p, q \in Process : p = q) /\ Faults = {}

-----------------------------------------------------------------------------
(* The inductive invariant.                                                 *)

\* The tables read so far are as they are stored.
ReadSoFar(j) ==
    /\ "enrollments" \notin j.unread =>
          j.view.enrolled = Rows.enrolled /\ j.view.startUnitId = Rows.startUnitId
    /\ "lesson_completions" \notin j.unread =>
          j.view.completedLessonIds = Rows.completedLessonIds
    /\ "checkpoint_attempts" \notin j.unread =>
          j.view.passedCheckpointIds = Rows.passedCheckpointIds
    /\ "placement_results" \notin j.unread =>
          j.view.skippedUnitIds = Rows.skippedUnitIds

\* A reset serves from no release and reads no view.
Resetting(j) == j.pc # "idle" /\ Requests[j.request].op = "reset"

\* What a process acts on is what is stored.
Current(j) ==
    /\ j.pc = "read" => ReadSoFar(j)
    /\ j.pc \in {"gate", "find", "write", "insert"} => j.view = Rows
    /\ j.pc = "publish" /\ ~Resetting(j) => j.view = Rows
    /\ j.pc = "write" =>
          /\ j.found = completions[Requests[j.request].target]
          /\ j.found # None => j.found.lastClientRequestId # j.request
    /\ j.pc = "commit" => j.found = enrollment
    /\ j.then = "publish" => j.pc \in {"open", "view", "read", "publish"}
    /\ Resetting(j) => j.pc \in {"erase", "invalidate", "publish"} /\ j.release = None

\* A placement's transaction has its row, graded in the release it serves from.
Testing(p) ==
    InTest(p) => HasLatest(p) /\ \A row \in inserted(p) : GradedIn(row, job[p].release)

\* Between a write and the invalidation after it the cache is out of date.
Fresh ==
    (\A p \in Process : ~At(p, "invalidate")) =>
        \A r \in Releases : cache[r] \in {None, Rows}

\* A process has written what it has not reported yet.
Owing(j) ==
    /\ j.pc # "idle"
    /\ Requests[j.request].op \in {"complete", "checkpoint", "placement"}
    /\ j.pc \in {"invalidate", "publish"} \/ j.then = "publish"

Covers(message, stored) ==
    LET totals == pathTotals(Tree[message.tree], Units[message.release], stored)
    IN  \A field \in DOMAIN totals : totals[field] <= message.totals[field]

Told ==
    reported # None /\ reported.release # None =>
        /\ reported.tree \in Releases
        /\ (\A p \in Process : ~Owing(job[p])) => Covers(reported, Rows)

\* Before enrolling there is nothing: the promise's NothingBeforeEnrolling.
EnrolledFirst == Rows.enrolled \/ Rows = Blank

Alone ==
    /\ \A p \in Process : Current(job[p]) /\ Testing(p)
    /\ OneRowEach /\ Fresh /\ Told /\ EnrolledFirst

-----------------------------------------------------------------------------
(* What a process acts on stays what is stored.                             *)

\* A job that acts on nothing: what is stored may change.
Resting(j) ==
    /\ j.pc \notin {"read", "gate", "find", "write", "insert", "publish", "commit"}
    /\ j.then = "publish" => j.pc \in {"open", "view"}
    /\ Resetting(j) => j.pc \in {"erase", "invalidate"} /\ j.release = None

LEMMA RestingCurrent ==
    ASSUME Jobs, NEW p \in Process, NEW j, Go(p, j), Resting(j)
    PROVE  Current(job[p])'
<1>1. job'[p] = j
  BY DEF Jobs, Go
<1> QED  BY <1>1 DEF Resting, Current, Resetting

LEMMA EndCurrent ==
    ASSUME Jobs, NEW p \in Process, End(p)
    PROVE  Current(job[p])'
<1>1. Resting(Idle)
  BY DEF Idle, Resting, Resetting
<1> QED  BY <1>1, RestingCurrent DEF End

\* A job that acts on what is stored, and nothing stored changes.
LEMMA GoCurrent ==
    ASSUME Jobs, NEW p \in Process, NEW j, Go(p, j), Current(j),
           UNCHANGED <<enrollment, completions>>, Rows' = Rows
    PROVE  Current(job[p])'
<1>1. job'[p] = j
  BY DEF Jobs, Go
<1> QED  BY <1>1 DEF Current, Resetting, ReadSoFar

LEMMA WithViewCurrent ==
    ASSUME Jobs, NEW p \in Process, WithView(p, Rows),
           job[p].pc \in {"view", "read"}, Current(job[p]),
           UNCHANGED <<enrollment, completions>>, Rows' = Rows
    PROVE  Current(job[p])'
<1>1. CASE End(p)
  BY <1>1, EndCurrent
<1>2. CASE Go(p, [job[p] EXCEPT !.view = Rows, !.unread = {}, !.pc = job[p].then])
           /\ job[p].then # "idle"
  <2> DEFINE j == [job[p] EXCEPT !.view = Rows, !.unread = {}, !.pc = job[p].then]
  <2>1. job[p] \in Job
    BY DEF Jobs
  <2>2. /\ j.pc = job[p].then /\ j.view = Rows /\ j.then = job[p].then
        /\ j.request = job[p].request
    BY <2>1 DEF Job
  <2>3. j.pc \in {"gate", "upsert", "publish"} /\ ~Resetting(job[p])
    BY <1>2, <2>1, <2>2 DEF Job, Current
  <2>4. Current(j)
    <3> HIDE DEF j
    <3> QED  BY <2>2, <2>3 DEF Current, Resetting
  <2> QED  BY <1>2, <2>4, GoCurrent
<1> QED  BY <1>1, <1>2 DEF WithView

LEMMA ReadersCurrent ==
    ASSUME Typed, Shown, Alone, NEW p \in Process, Faults = {},
           \A o \in Process : o = p,
           \/ Open(p) \/ CacheHit(p) \/ CacheMiss(p) \/ CacheSet(p)
           \/ \E t \in Tables : ReadTable(p, t)
           \/ GateLesson(p) \/ FindCompletion(p) \/ Lookup(p)
           \/ GateSubmission(p) \/ ReadEnrollment(p),
           UNCHANGED <<enrollment, completions>>, Rows' = Rows
    PROVE  Current(job[p])'
<1>1. job[p] \in Job /\ Fits(job[p]) /\ Jobs /\ Current(job[p])
  BY DEF Typed, Jobs, Alone
<1>2. CASE Open(p)
  <2>1. PICK r \in Releases :
           Go(p, [job[p] EXCEPT
                     !.release = r,
                     !.pc = IF job[p].then = "upsert" THEN "upsert" ELSE "view"])
    BY <1>2 DEF Open
  <2> DEFINE j == [job[p] EXCEPT
                     !.release = r,
                     !.pc = IF job[p].then = "upsert" THEN "upsert" ELSE "view"]
  <2>2. Resting(j)
    BY <1>1, <1>2 DEF Open, At, Current, Resting, Resetting, Job
  <2> QED  BY <1>1, <2>1, <2>2, RestingCurrent
<1>3. CASE CacheHit(p)
  <2>1. cache[job[p].release] = Rows
    BY <1>1, <1>3 DEF CacheHit, At, Fits, Alone, Fresh
  <2> QED  BY <1>1, <1>3, <2>1, WithViewCurrent DEF CacheHit, At
<1>4. CASE CacheMiss(p)
  <2> DEFINE j == [job[p] EXCEPT !.view = Blank, !.unread = Tables, !.pc = "read"]
  <2>1. Current(j)
    BY <1>1, <1>4 DEF CacheMiss, At, Current, Resetting, ReadSoFar, Tables, Job
  <2> QED  BY <1>1, <1>4, <2>1, GoCurrent DEF CacheMiss
<1>5. CASE CacheSet(p)
  <2>1. job[p].view = Rows
    BY <1>1, <1>5, SameLearner DEF CacheSet, At, Current, ReadSoFar, Job, Shown
  <2> QED  BY <1>1, <1>5, <2>1, WithViewCurrent DEF CacheSet, At
<1>6. ASSUME NEW t \in Tables, ReadTable(p, t)
      PROVE  Current(job[p])'
  <2> DEFINE seen == job[p].view
             view ==
               CASE t = "enrollments" ->
                      [seen EXCEPT !.enrolled = Rows.enrolled,
                                   !.startUnitId = Rows.startUnitId]
                 [] t = "lesson_completions" ->
                      [seen EXCEPT !.completedLessonIds = Rows.completedLessonIds]
                 [] t = "checkpoint_attempts" ->
                      [seen EXCEPT !.passedCheckpointIds = Rows.passedCheckpointIds]
                 [] t = "placement_results" ->
                      [seen EXCEPT !.skippedUnitIds = Rows.skippedUnitIds]
             j == [job[p] EXCEPT !.view = view, !.unread = @ \ {t}]
  <2>1. seen \in Learner /\ ReadSoFar(job[p])
    BY <1>1, <1>6 DEF Job, ReadTable, At, Current
  <2>2. /\ j.view = view /\ j.unread = job[p].unread \ {t} /\ j.pc = "read"
        /\ j.then = job[p].then /\ j.request = job[p].request
    <3> HIDE DEF view
    <3> QED  BY <1>1, <1>6 DEF Job, ReadTable, At
  <2>3. ReadSoFar(j)
    <3> HIDE DEF j
    <3>1. CASE t = "enrollments"
      BY <2>1, <2>2, <3>1 DEF ReadSoFar, Learner
    <3>2. CASE t = "lesson_completions"
      BY <2>1, <2>2, <3>2 DEF ReadSoFar, Learner
    <3>3. CASE t = "checkpoint_attempts"
      BY <2>1, <2>2, <3>3 DEF ReadSoFar, Learner
    <3>4. CASE t = "placement_results"
      BY <2>1, <2>2, <3>4 DEF ReadSoFar, Learner
    <3> QED  BY <3>1, <3>2, <3>3, <3>4 DEF Tables
  <2>4. ~Resetting(job[p])
    BY <1>1, <1>6 DEF ReadTable, At, Current
  <2>5. Current(j)
    <3> HIDE DEF j
    <3> QED  BY <2>2, <2>3, <2>4, <1>6 DEF Current, Resetting, ReadTable, At
  <2>6. Go(p, j)
    BY <1>6 DEF ReadTable
  <2> HIDE DEF j
  <2> QED  BY <1>1, <2>5, <2>6, GoCurrent
<1>7. CASE GateLesson(p)
  <2> DEFINE j == [job[p] EXCEPT !.pc = "find"]
  <2>1. Current(j)
    BY <1>1, <1>7 DEF GateLesson, At, Current, Resetting, Job
  <2> QED  BY <1>1, <1>7, <2>1, GoCurrent, EndCurrent DEF GateLesson
<1>8. CASE FindCompletion(p)
  <2> DEFINE row == completions[request(p).target]
             back == [job[p] EXCEPT !.pc = "view", !.then = "idle"]
             on == [job[p] EXCEPT !.found = row, !.pc = "write"]
  <2>1. ~Resetting(job[p]) /\ job[p].then # "publish" /\ job[p].view = Rows
    BY <1>1, <1>8 DEF FindCompletion, At, Current
  <2>2. Resting(back)
    BY <1>1, <1>8, <2>1 DEF FindCompletion, At, Resting, Resetting, Job
  <2>3. ASSUME ~(row # None /\ row.lastClientRequestId = requestId(p))
        PROVE  Current(on)
    BY <1>1, <1>8, <2>1, <2>3 DEF FindCompletion, At, Current, Resetting, Job, request,
                                   requestId
  <2> QED  BY <1>1, <1>8, <2>2, <2>3, GoCurrent, RestingCurrent DEF FindCompletion
<1>9. CASE Lookup(p)
  <2> DEFINE back == [job[p] EXCEPT !.pc = "open", !.then = "idle"]
             new == [job[p] EXCEPT !.pc = "open", !.then = "gate"]
  <2>1. Resting(back) /\ Resting(new)
    BY <1>1, <1>9 DEF Lookup, At, Current, Resting, Resetting, Job
  <2> QED  BY <1>1, <1>9, <2>1, RestingCurrent, EndCurrent DEF Lookup
<1>10. CASE GateSubmission(p)
  <2> DEFINE j == [job[p] EXCEPT !.pc = "insert", !.graded = job[p].release]
  <2>1. Current(j)
    BY <1>1, <1>10 DEF GateSubmission, At, Current, Resetting, Job
  <2> QED  BY <1>1, <1>10, <2>1, GoCurrent, EndCurrent DEF GateSubmission
<1>11. CASE ReadEnrollment(p)
  <2> DEFINE j == [job[p] EXCEPT !.found = enrollment, !.pc = "commit"]
  <2>1. Current(j)
    BY <1>1, <1>11 DEF ReadEnrollment, At, Current, Resetting, Job
  <2> QED  BY <1>1, <1>11, <2>1, GoCurrent DEF ReadEnrollment
<1> QED  BY <1>2, <1>3, <1>4, <1>5, <1>6, <1>7, <1>8, <1>9, <1>10, <1>11

LEMMA WritersCurrent ==
    ASSUME Typed, Alone, NEW p \in Process,
           \/ Invalidate(p) \/ UpsertEnrollment(p) \/ UpdateCompletion(p)
           \/ CreateCompletion(p) \/ InsertAttempt(p) \/ InsertPlacement(p)
           \/ CommitPlacement(p) \/ Publish(p) \/ Erase(p)
    PROVE  Current(job[p])'
<1>1. job[p] \in Job /\ Fits(job[p]) /\ Jobs /\ Current(job[p])
  BY DEF Typed, Jobs, Alone
<1>2. ASSUME NEW pc \in {"invalidate", "start"}, Go(p, [job[p] EXCEPT !.pc = pc]),
             job[p].pc \in {"upsert", "write", "insert", "commit", "erase"},
             pc = "start" => job[p].pc = "insert"
      PROVE  Current(job[p])'
  <2> DEFINE j == [job[p] EXCEPT !.pc = pc]
  <2>1. Resting(j)
    BY <1>1, <1>2 DEF Current, Resting, Resetting, Job
  <2> QED  BY <1>1, <1>2, <2>1, RestingCurrent
<1>3. ASSUME job[p].pc \in {"write", "insert"},
             \/ Go(p, [job[p] EXCEPT !.pc = "lookup", !.retried = TRUE])
             \/ Go(p, [job[p] EXCEPT !.pc = "open", !.then = "idle"])
      PROVE  Current(job[p])'
  <2> DEFINE lookup == [job[p] EXCEPT !.pc = "lookup", !.retried = TRUE]
             answer == [job[p] EXCEPT !.pc = "open", !.then = "idle"]
  <2>1. Resting(lookup) /\ Resting(answer)
    BY <1>1, <1>3 DEF Current, Resting, Resetting, Job
  <2> QED  BY <1>1, <1>3, <2>1, RestingCurrent
<1>4. CASE Invalidate(p)
  <2> DEFINE view == [job[p] EXCEPT !.pc = "view", !.then = "publish"]
             answer == [job[p] EXCEPT !.pc = "open", !.then = "idle"]
             report == [job[p] EXCEPT !.pc = "open", !.then = "publish"]
             zero == [job[p] EXCEPT !.pc = "publish"]
  <2>1. request(p).op \in Operation
    <3>1. requestId(p) \in RequestId
      BY <1>1, <1>4 DEF Fits, Invalidate, At, requestId
    <3> QED  BY <3>1, RequestType DEF request, requestId
  <2>2. request(p).op # "reset" => Resting(view) /\ Resting(answer) /\ Resting(report)
    BY <1>1, <1>4 DEF Invalidate, At, Current, Resting, Resetting, Job, request
  <2>3. CASE request(p).op = "reset"
    <3>1. Go(p, zero)
      BY <1>4, <2>3 DEF Invalidate
    <3>2. job'[p] = zero
      BY <1>1, <3>1 DEF Jobs, Go
    <3>3. /\ zero.pc = "publish" /\ zero.release = job[p].release
          /\ zero.then = job[p].then /\ zero.request = job[p].request
      BY <1>1 DEF Job
    <3>4. Resetting(zero) /\ zero.release = None /\ zero.then # "publish"
      BY <1>1, <1>4, <2>3, <3>3 DEF Invalidate, At, Current, Resetting, request
    <3> HIDE DEF zero
    <3> QED  BY <3>2, <3>3, <3>4 DEF Current, Resetting
  <2> HIDE DEF view, answer, report
  <2>4. CASE request(p).op # "reset"
    <3>1. Go(p, view) \/ Go(p, answer) \/ Go(p, report) \/ End(p)
      BY <1>4, <2>1, <2>4 DEF Invalidate, Operation, view, answer, report
    <3> QED  BY <1>1, <2>2, <2>4, <3>1, RestingCurrent, EndCurrent
  <2> QED  BY <2>3, <2>4
<1>5. CASE UpsertEnrollment(p)
  BY <1>2, <1>5 DEF UpsertEnrollment, At
<1>6. CASE UpdateCompletion(p)
  BY <1>1, <1>2, <1>6, EndCurrent DEF UpdateCompletion, At
<1>7. CASE CreateCompletion(p)
  <2>1. completions[request(p).target] = None
    BY <1>1, <1>7 DEF CreateCompletion, At, Current, request
  <2> QED  BY <1>2, <1>7, <2>1 DEF CreateCompletion, At
<1>8. CASE InsertAttempt(p)
  BY <1>2, <1>3, <1>8 DEF InsertAttempt, At
<1>9. CASE InsertPlacement(p)
  BY <1>2, <1>3, <1>9 DEF InsertPlacement, At
<1>10. CASE CommitPlacement(p)
  BY <1>2, <1>10 DEF CommitPlacement, At
<1>11. CASE Publish(p)
  BY <1>1, <1>11, EndCurrent DEF Publish
<1>12. CASE Erase(p)
  BY <1>2, <1>12 DEF Erase, At
<1> QED  BY <1>4, <1>5, <1>6, <1>7, <1>8, <1>9, <1>10, <1>11, <1>12

\* The steps of the process that is alone.
LEMMA AloneStep ==
    ASSUME Typed, OneByOne, [Next]_vars, NEW p \in Process
    PROVE  \/ Step(p)
           \/ \E q \in RequestId : Receive(p, q)
           \/ UNCHANGED <<rows, reported, job>> /\ \E r \in Releases : Expire(r)
           \/ UNCHANGED vars
<1>1. ~Crash(p)
  BY DEF Crash, OneByOne
<1> QED  BY <1>1 DEF OneByOne, Next, Expire, rows

LEMMA CurrentStays ==
    ASSUME Typed, Shown, OneByOne, Alone, [Next]_vars, NEW p \in Process
    PROVE  Current(job[p])'
<1>1. Current(job[p]) /\ Jobs
  BY DEF Alone, Typed
<1>2. CASE Step(p)
  <2>1. CASE UNCHANGED rows
    <3>1. Rows' = Rows /\ UNCHANGED <<enrollment, completions>>
      BY <2>1, UntouchedRows DEF rows
    <3> QED  BY <1>2, <3>1, StepCases, ReadersCurrent, WritersCurrent DEF OneByOne
  <2> QED  BY <1>2, <2>1, StepCases, WritersCurrent
<1>3. ASSUME NEW q \in RequestId, Receive(p, q)
      PROVE  Current(job[p])'
  <2> DEFINE start == CASE Requests[q].op \in {"checkpoint", "placement"} -> "lookup"
                        [] Requests[q].op \in {"reset", "purge"} -> "erase"
                        [] OTHER -> "open"
             then == CASE Requests[q].op = "complete" -> "gate"
                       [] Requests[q].op = "enroll" -> "upsert"
                       [] OTHER -> "idle"
             j == [Idle EXCEPT !.pc = start, !.request = q, !.then = then]
  <2>1. /\ start \in {"lookup", "erase", "open"}
        /\ then \in {"gate", "upsert", "idle"}
        /\ Requests[q].op = "reset" => start = "erase"
    OBVIOUS
  <2>2. /\ j.pc = start /\ j.then = then /\ j.request = q /\ j.release = None
    BY DEF Idle
  <2>3. Resting(j)
    <3> HIDE DEF j, start, then
    <3> QED  BY <2>1, <2>2 DEF Resting, Resetting
  <2>4. Go(p, j)
    BY <1>3 DEF Receive
  <2> HIDE DEF j
  <2> QED  BY <1>1, <2>3, <2>4, RestingCurrent
<1>4. CASE UNCHANGED <<rows, job>>
  <2>1. Rows' = Rows
    BY <1>4, UntouchedRows
  <2> QED  BY <1>1, <1>4, <2>1 DEF Current, Resetting, ReadSoFar, rows
<1> QED  BY <1>2, <1>3, <1>4, AloneStep DEF vars, rows

\* A transaction that is open has its row, because its own steps alone touch the
\* placements.
LEMMA TestingStays ==
    ASSUME Typed, Shown, OneByOne, Alone, [Next]_vars, NEW p \in Process
    PROVE  Testing(p)'
<1> SUFFICES ASSUME InTest(p)'
             PROVE  /\ HasLatest(p)'
                    /\ \A row \in inserted(p)' : GradedIn(row, job'[p].release)
  BY DEF Testing
<1>0. job'[p].pc \in {"start", "commit"} /\ Testing(p) /\ job[p] \in Job /\ Fits(job[p])
      /\ OneRowEach
  BY DEF InTest, Alone, Typed, Jobs
<1>1. CASE InTest(p) /\ UNCHANGED placements /\ job'[p].request = job[p].request
           /\ job'[p].release = job[p].release
  BY <1>0, <1>1 DEF Testing, HasLatest, inserted, requestId
<1>2. CASE Step(p)
  <2>1. NextJob(p, job'[p])
    BY <1>2, StepCases, ReaderJobs, WriterJobs
  <2>2. CASE ReadEnrollment(p)
    <3>1. job'[p] = [job[p] EXCEPT !.found = enrollment, !.pc = "commit"]
      BY <2>2 DEF ReadEnrollment, Go, Typed, Jobs
    <3> QED  BY <1>0, <1>1, <2>2, <3>1 DEF ReadEnrollment, InTest, At, Job, rows
  <2>3. CASE InsertPlacement(p)
    <3>1. Inserts(p)
      <4>1. CASE Go(p, [job[p] EXCEPT !.pc = "lookup", !.retried = TRUE])
        BY <1>0, <4>1 DEF Go, Typed, Jobs, Job
      <4> QED  BY <2>3, <4>1 DEF InsertPlacement, Inserts
    <3>2. PICK at \in placedPositions(units(p)) :
             placements' = placements \union {placementAt(p, at)}
      BY <3>1 DEF Inserts, InsertPlacement
    <3>3. job'[p].request = job[p].request /\ job'[p].release = job[p].release
      <4>1. Go(p, [job[p] EXCEPT !.pc = "start"])
        BY <3>1 DEF Inserts, InsertPlacement
      <4> QED  BY <1>0, <4>1 DEF Go, Typed, Jobs, Job
    <3>4. inserted(p)' \subseteq {placementAt(p, at)}
      BY <3>1, <3>2, <3>3 DEF Inserts, inserted, requestId
    <3>5. GradedIn(placementAt(p, at), job[p].release)
      BY DEF GradedIn, placementAt, units
    <3> HIDE DEF Inserts
    <3> QED  BY <3>1, <3>3, <3>4, <3>5, InsertedLatest
  <2> QED  BY <1>0, <2>1, <2>2, <2>3 DEF NextJob
<1>3. ASSUME NEW q \in RequestId, Receive(p, q)
      PROVE  FALSE
  BY <1>0, <1>3 DEF Receive, Go, Idle, Typed, Jobs
<1>4. CASE UNCHANGED <<rows, job>>
  BY <1>0, <1>1, <1>4 DEF rows, InTest
<1> QED  BY <1>2, <1>3, <1>4, AloneStep DEF vars, rows

-----------------------------------------------------------------------------
(* What a step does to the rows.                                            *)

\* A process has written and goes on to drop the cached views.  Whoever writes
\* what counts towards the totals reports them afterwards.
Writes(p) ==
    /\ job'[p].pc = "invalidate"
    /\ \/ Grown /\ Rows' = [Rows EXCEPT !.enrolled = TRUE]
       \/ Owing(job'[p]) /\ (Grown \/ (Path!Retake /\ Rows'.enrolled))
       \/ Rows' = Blank

LEMMA BehindItself ==
    ASSUME Shown
    PROVE  Behind(Rows, Rows)
BY UnitsType, GrownFurther DEF Shown, Behind

\* A step that goes on to the invalidation for the same request.
LEMMA ToInvalidate ==
    ASSUME Typed, NEW p \in Process, Go(p, [job[p] EXCEPT !.pc = "invalidate"])
    PROVE  job'[p].pc = "invalidate" /\ job'[p].request = job[p].request
BY DEF Typed, Jobs, Go, Job

LEMMA CommitAlone ==
    ASSUME Typed, Shown, Shown', Alone, NEW p \in Process, CommitPlacement(p)
    PROVE  Writes(p)
<1>1. job[p] \in Job /\ Fits(job[p]) /\ Current(job[p]) /\ Testing(p) /\ OneRowEach
      /\ InTest(p)
  BY DEF Typed, Jobs, Alone, CommitPlacement, At, InTest
<1>2. /\ job[p].release \in Releases
      /\ Requests[job[p].request].op = "placement"
      /\ HasLatest(p)
      /\ \A row \in inserted(p) : GradedIn(row, job[p].release)
      /\ startOf(job[p].found) = startOf(enrollment)
  BY <1>1 DEF InTest, Fits, Testing, Current, CommitPlacement, At
<1>3. Path!Retake /\ \E at \in placedPositions(Units[job[p].release]) :
                        Placed(job[p].release, at)
  BY <1>1, <1>2, CommitPlaces
<1>4. Path!Retake /\ Rows'.enrolled
  BY <1>3 DEF Placed
<1>5. job'[p].pc = "invalidate" /\ job'[p].request = job[p].request
  BY ToInvalidate DEF CommitPlacement
<1> QED  BY <1>2, <1>4, <1>5 DEF Writes, Owing

LEMMA EraseAlone ==
    ASSUME Typed, Shown, OneByOne, Alone, NEW p \in Process, Erase(p)
    PROVE  job'[p].pc = "invalidate" /\ Rows' = Blank
<1>1. job'[p].pc = "invalidate"
  BY ToInvalidate DEF Erase
<1>2. Committed' = {}
  BY DEF Erase, Committed
<1>3. {a \in attempts' : a.passed} = {}
  BY DEF Erase
<1>4. \A l \in LessonId : completions'[l] = None
  BY DEF Erase
<1>5. enrollment' = None
  BY DEF Erase
<1>6. Rows' = Blank
  BY <1>2, <1>3, <1>4, <1>5 DEF Rows, Blank
<1> QED  BY <1>1, <1>6

\* The writes of the process that is alone, each allowed by what is stored.
LEMMA WriterAlone ==
    ASSUME Typed, Shown, Shown', OneByOne, Alone, NEW p \in Process, Step(p)
    PROVE  Rows' = Rows \/ Writes(p)
<1>1. job[p] \in Job /\ Fits(job[p]) /\ Current(job[p])
  BY DEF Typed, Jobs, Alone
<1>2. ASSUME job'[p].pc = "invalidate", job'[p].request = job[p].request,
             job[p].pc # "idle",
             Requests[job[p].request].op \in {"complete", "checkpoint", "placement"},
             Grown
      PROVE  Writes(p)
  BY <1>2 DEF Writes, Owing
<1>3. CASE UNCHANGED rows
  BY <1>3, UntouchedRows
<1>4. CASE UpsertEnrollment(p)
  BY <1>4, ToInvalidate, EnrollGrows DEF UpsertEnrollment, Writes
<1>5. CASE UpdateCompletion(p) \/ CreateCompletion(p)
  <2>1. job[p].pc = "write" /\ Requests[job[p].request].op = "complete"
    BY <1>1, <1>5 DEF UpdateCompletion, CreateCompletion, At, Fits
  <2>2. Behind(job[p].view, Rows)
    BY <1>1, <2>1, BehindItself DEF Current
  <2>3. Rows' = Rows \/ Grown
    BY <1>5, <2>2, CompletionGrows
  <2>4. CASE Go(p, [job[p] EXCEPT !.pc = "invalidate"])
    BY <1>2, <2>1, <2>3, <2>4, ToInvalidate
  <2>5. CASE UNCHANGED completions
    BY <1>5, <2>5, SameRows DEF UpdateCompletion, CreateCompletion, Committed
  <2> QED  BY <1>5, <2>4, <2>5 DEF UpdateCompletion, CreateCompletion
<1>6. CASE InsertAttempt(p)
  <2>1. job[p].pc = "insert" /\ Requests[job[p].request].op = "checkpoint"
    BY <1>6 DEF InsertAttempt, At, request
  <2>2. Behind(job[p].view, Rows)
    BY <1>1, <2>1, BehindItself DEF Current
  <2>3. Rows' = Rows \/ (Go(p, [job[p] EXCEPT !.pc = "invalidate"]) /\ Grown)
    BY <1>6, <2>2, AttemptGrows
  <2>4. CASE Go(p, [job[p] EXCEPT !.pc = "invalidate"]) /\ Grown
    BY <1>2, <2>1, <2>4, ToInvalidate
  <2>5. CASE Rows' = Rows
    BY <2>5 DEF Writes
  <2> QED  BY <2>3, <2>4, <2>5
<1>7. CASE InsertPlacement(p)
  <2>1. Committed' = Committed
    BY <1>7 DEF InsertPlacement, placementAt, Committed
  <2> QED  BY <1>7, <2>1, SameRows DEF InsertPlacement
<1>8. CASE CommitPlacement(p)
  BY <1>8, CommitAlone
<1>9. CASE Erase(p)
  BY <1>9, EraseAlone DEF Writes
<1>10. CASE Invalidate(p) \/ Publish(p)
  BY <1>3, <1>10 DEF Invalidate, Publish
<1> QED  BY <1>3, <1>4, <1>5, <1>6, <1>7, <1>8, <1>9, <1>10, StepCases

LEMMA RowsAlone ==
    ASSUME Typed, Shown, Shown', OneByOne, Alone, [Next]_vars
    PROVE  Rows' = Rows \/ \E p \in Process : Step(p) /\ Writes(p)
<1>1. CASE UNCHANGED rows
  BY <1>1, UntouchedRows
<1>2. ASSUME NEW p \in Process, Crash(p)
      PROVE  FALSE
  BY <1>2 DEF Crash, OneByOne
<1>3. ASSUME NEW p \in Process, NEW q \in RequestId, Receive(p, q)
      PROVE  UNCHANGED rows
  BY <1>3 DEF Receive
<1>4. ASSUME NEW r \in Releases, Expire(r)
      PROVE  UNCHANGED rows
  BY <1>4 DEF Expire
<1>5. CASE UNCHANGED vars
  BY <1>1, <1>5 DEF vars, rows
<1>6. ASSUME NEW p \in Process, Step(p)
      PROVE  Rows' = Rows \/ Writes(p)
  BY <1>6, WriterAlone
<1> QED  BY <1>1, <1>2, <1>3, <1>4, <1>5, <1>6 DEF Next

\* Nothing can be done before enrolling, because everything is locked.
LEMMA FirstEnrolls ==
    ASSUME Shown, Shown', Rows = Blank, Path!Work
    PROVE  Rows'.enrolled
<1>1. ASSUME Path!Enroll
      PROVE  Rows'.enrolled
  BY <1>1 DEF Path!Enroll, Shown, Learner
<1>2. ~Rows.enrolled /\ Rows.completedLessonIds = {} /\ Rows.passedCheckpointIds = {}
  BY DEF Blank
<1>3. ASSUME NEW r \in Releases, NEW i \in DOMAIN Units[r]
      PROVE  /\ \A k : lessonState(Units[r], i, k, Rows) = "locked"
             /\ checkpointState(Units[r], i, Rows) = "locked"
  BY <1>2 DEF lessonState, checkpointState, open, passed
<1> QED  BY <1>1, <1>3, SameTree, SameUnlocking
         DEF Path!Work, Path!CompleteLesson, Path!PassCheckpoint

LEMMA EnrolledFirstStays ==
    ASSUME Typed, Shown, Shown', OneByOne, Alone, [Next]_vars
    PROVE  EnrolledFirst'
<1>1. EnrolledFirst
  BY DEF Alone
<1>2. ASSUME NEW p \in Process, Writes(p)
      PROVE  Rows'.enrolled \/ Rows' = Blank
  <2>1. CASE Grown
    BY <1>1, <2>1, FirstEnrolls DEF Grown, EnrolledFirst
  <2> QED  BY <1>2, <2>1 DEF Writes
<1> QED  BY <1>1, <1>2, RowsAlone DEF EnrolledFirst

LEMMA FreshStays ==
    ASSUME Typed, Shown, Shown', OneByOne, Alone, [Next]_vars
    PROVE  Fresh'
<1> SUFFICES ASSUME \A p \in Process : job'[p].pc # "invalidate",
                    NEW r \in Releases, cache'[r] # None
             PROVE  cache'[r] = Rows'
  BY DEF Fresh, At
<1>1. Rows' = Rows
  BY RowsAlone DEF Writes
<1>2. ASSUME NEW p \in Process, At(p, "invalidate")
      PROVE  FALSE
  <2>1. CASE Invalidate(p)
    BY <2>1 DEF Invalidate, OneByOne
  <2>2. CASE Step(p)
    BY <1>2, <2>1, <2>2, StepCases DEF At, Open, CacheHit, CacheMiss, CacheSet, ReadTable,
           GateLesson, FindCompletion, Lookup, GateSubmission, ReadEnrollment,
           UpsertEnrollment, UpdateCompletion, CreateCompletion, InsertAttempt,
           InsertPlacement, CommitPlacement, Publish, Erase
  <2>3. ASSUME NEW q \in RequestId, Receive(p, q)
        PROVE  FALSE
    BY <1>2, <2>3 DEF Receive, At
  <2>4. CASE UNCHANGED job
    BY <1>2, <2>4 DEF At
  <2> QED  BY <2>2, <2>3, <2>4, AloneStep DEF vars
<1>3. cache[r] \in {None, Rows}
  BY <1>2 DEF Alone, Fresh
<1>4. ASSUME NEW p \in Process, CacheSet(p)
      PROVE  job[p].view = Rows
  <2>1. job[p] \in Job /\ Current(job[p])
    BY DEF Typed, Jobs, Alone
  <2> QED  BY <1>4, <2>1, SameLearner DEF CacheSet, At, Current, ReadSoFar, Job, Shown
<1> QED  BY <1>1, <1>3, <1>4, NextCache

-----------------------------------------------------------------------------
(* What is reported covers what is stored.                                  *)

\* Where no lesson is done and no checkpoint passed, there is nothing to report.
LEMMA NothingDone ==
    ASSUME NEW tree \in Seq(Seq(Unit)), NEW us \in Seq(Unit), NEW a \in Learner,
           a.completedLessonIds = {}, a.passedCheckpointIds = {}
    PROVE  pathTotals(tree, us, a) = zeroTotals
<1>1. lessonsDone(us, a) = {}
  BY DEF lessonsDone, lessonState
<1>2. \A i \in DOMAIN us : ~earned(us, i, a)
  <2> SUFFICES ASSUME NEW i \in DOMAIN us, us[i].checkpointId = None,
                      us[i].lessons # <<>>, allDone(us[i], a)
               PROVE  FALSE
    BY DEF earned, passed
  <2>1. us[i].lessons \in Seq(LessonId)
    BY UnitParts
  <2>2. 1 \in DOMAIN us[i].lessons
    BY <2>1
  <2> QED  BY <2>2 DEF allDone
<1>3. \A stage : earnedIn(us, stage, a) = {}
  BY <1>2, KnownPositions DEF earnedIn
<1>4. unitsEarned(tree, us, a) = {} /\ stagesFinished(tree, us, a) = {}
  BY <1>3 DEF unitsEarned, stagesFinished, finished
<1> QED  BY <1>1, <1>4, FS_EmptySet, PathTotalsAre DEF zeroTotals

\* Any totals cover nothing.
LEMMA CoversNothing ==
    ASSUME NEW message \in Report, message.tree \in Releases, message.release \in Releases,
           NEW a \in Learner, a.completedLessonIds = {}, a.passedCheckpointIds = {}
    PROVE  Covers(message, a)
<1>1. pathTotals(Tree[message.tree], Units[message.release], a) = zeroTotals
  BY TreeType, UnitsType, NothingDone
<1>2. message.totals \in Totals
  BY DEF Report
<1> QED  BY <1>1, <1>2 DEF Covers, zeroTotals, Totals

\* The totals of a view cover the view.
LEMMA CoversItself ==
    ASSUME NEW tree \in Releases, NEW release \in Releases, NEW a,
           NEW message, message.tree = tree, message.release = release,
           message.totals = pathTotals(Tree[tree], Units[release], a)
    PROVE  Covers(message, a)
<1>1. pathTotals(Tree[tree], Units[release], a) \in Totals
  BY TreeType, UnitsType, TotalsType
<1> QED  BY <1>1 DEF Covers, Totals

\* Whoever owes a report goes on until it is sent.
LEMMA OwingStays ==
    ASSUME Typed, Alone, NEW p \in Process, Owing(job[p]), Step(p), ~Publish(p)
    PROVE  Owing(job'[p])
<1>1. job[p] \in Job /\ Fits(job[p]) /\ Current(job[p]) /\ Jobs
  BY DEF Typed, Jobs, Alone
<1>2. /\ job[p].pc \in {"invalidate", "open", "view", "read", "publish"}
      /\ job[p].pc # "invalidate" => job[p].then = "publish" \/ job[p].pc = "publish"
  BY <1>1 DEF Owing, Current
<1>3. ASSUME NEW j, Go(p, j), j.request = job[p].request, j.pc # "idle",
             j.pc = "publish" \/ j.then = "publish"
      PROVE  Owing(job'[p])
  BY <1>1, <1>3 DEF Owing, Jobs, Go
<1>4. CASE Open(p)
  <2>1. PICK r \in Releases :
           Go(p, [job[p] EXCEPT
                     !.release = r,
                     !.pc = IF job[p].then = "upsert" THEN "upsert" ELSE "view"])
    BY <1>4 DEF Open
  <2> QED  BY <1>1, <1>2, <1>3, <1>4, <2>1 DEF Open, At, Job
<1>5. ASSUME job[p].then = "publish", NEW view, WithView(p, view)
      PROVE  Owing(job'[p])
  BY <1>1, <1>3, <1>5 DEF WithView, Job
<1>6. CASE CacheHit(p) \/ CacheSet(p)
  BY <1>2, <1>5, <1>6 DEF CacheHit, CacheSet, At
<1>7. CASE CacheMiss(p)
  BY <1>1, <1>2, <1>3, <1>7 DEF CacheMiss, At, Job
<1>8. ASSUME NEW t \in Tables, ReadTable(p, t)
      PROVE  Owing(job'[p])
  <2>1. PICK view : Go(p, [job[p] EXCEPT !.view = view, !.unread = @ \ {t}])
    BY <1>8 DEF ReadTable
  <2> QED  BY <1>1, <1>2, <1>3, <1>8, <2>1 DEF ReadTable, At, Job
<1>9. CASE Invalidate(p)
  <2>1. \/ Go(p, [job[p] EXCEPT !.pc = "view", !.then = "publish"])
        \/ Go(p, [job[p] EXCEPT !.pc = "open", !.then = "publish"])
    BY <1>9 DEF Invalidate, Owing, request
  <2> QED  BY <1>1, <1>3, <2>1 DEF Job
<1> QED  BY <1>2, <1>4, <1>6, <1>7, <1>8, <1>9, StepCases
         DEF At, GateLesson, FindCompletion, Lookup, GateSubmission, ReadEnrollment,
             UpsertEnrollment, UpdateCompletion, CreateCompletion, InsertAttempt,
             InsertPlacement, CommitPlacement, Erase

\* The totals sent are those of what is stored.
LEMMA PublishTells ==
    ASSUME Typed, OneByOne, Alone, NEW p \in Process, Publish(p),
           reported'.release # None
    PROVE  reported'.tree \in Releases /\ Covers(reported', Rows)
<1> DEFINE release == job[p].release
           tree == IF request(p).op = "placement" THEN job[p].graded ELSE release
<1>1. job[p] \in Job /\ Fits(job[p]) /\ Current(job[p]) /\ job[p].pc = "publish"
  BY DEF Typed, Jobs, Alone, Publish, At
<1>2. reported' = [tree |-> tree, release |-> release, totals |->
                      IF request(p).op = "reset" THEN zeroTotals
                      ELSE pathTotals(Tree[tree], units(p), job[p].view)]
  BY DEF Publish, OneByOne
<1>3. request(p).op # "reset"
  BY <1>1, <1>2 DEF Current, Resetting, request
<1>4. release \in Releases /\ tree \in Releases /\ job[p].view = Rows
  BY <1>1, <1>3 DEF Fits, Current, Resetting, request
<1>5. /\ reported'.tree = tree /\ reported'.release = release
      /\ reported'.totals = pathTotals(Tree[tree], Units[release], Rows)
  BY <1>2, <1>3, <1>4 DEF units
<1> HIDE DEF tree, release
<1> QED  BY <1>4, <1>5, CoversItself

LEMMA ToldStays ==
    ASSUME Typed, Shown, Shown', OneByOne, Alone, [Next]_vars
    PROVE  Told'
<1>0. /\ reported' \in {None} \union Report
      /\ Told
      /\ Rows' \in Learner
  BY ReportedStays DEF Alone, Shown
<1>1. ASSUME NEW p \in Process, Publish(p)
      PROVE  Told'
  <2>1. Rows' = Rows
    BY <1>1, UntouchedRows DEF Publish
  <2> SUFFICES ASSUME reported' # None, reported'.release # None
               PROVE  reported'.tree \in Releases /\ Covers(reported', Rows')
    BY DEF Told
  <2> QED  BY <1>1, <2>1, PublishTells
<1>2. ASSUME UNCHANGED reported, ~\E p \in Process : Publish(p)
      PROVE  Told'
  <2> SUFFICES ASSUME reported # None, reported.release # None
               PROVE  /\ reported.tree \in Releases
                      /\ (\A p \in Process : ~Owing(job'[p])) => Covers(reported, Rows')
    BY <1>2 DEF Told
  <2>1. /\ reported \in Report /\ reported.tree \in Releases
        /\ reported.release \in Releases
    <3>1. reported \in Report
      BY <1>0, <1>2
    <3> QED  BY <1>0, <3>1 DEF Told, Report
  <2>2. CASE Rows' = Rows
    <3>1. ASSUME NEW p \in Process, Owing(job[p])
          PROVE  Owing(job'[p])
      <4>1. CASE Step(p)
        BY <1>2, <3>1, <4>1, OwingStays
      <4>2. ASSUME NEW q \in RequestId, Receive(p, q)
            PROVE  FALSE
        BY <3>1, <4>2 DEF Receive, At, Owing
      <4>3. CASE UNCHANGED job
        BY <3>1, <4>3
      <4> QED  BY <4>1, <4>2, <4>3, AloneStep DEF vars
    <3> QED  BY <1>0, <2>1, <2>2, <3>1 DEF Told
  <2>3. ASSUME NEW p \in Process, Writes(p), Rows' # Rows
        PROVE  Owing(job'[p]) \/ Covers(reported, Rows')
    <3>1. CASE Rows' = Blank
      <4>1. Rows'.completedLessonIds = {} /\ Rows'.passedCheckpointIds = {}
        BY <3>1 DEF Blank
      <4> QED  BY <1>0, <2>1, <4>1, CoversNothing
    <3>2. CASE Rows' = [Rows EXCEPT !.enrolled = TRUE]
      <4>1. Rows = Blank
        <5>1. Rows.enrolled => Rows' = Rows
          BY <3>2 DEF Shown, Learner
        <5> QED  BY <2>3, <5>1 DEF Alone, EnrolledFirst
      <4>2. Rows'.completedLessonIds = {} /\ Rows'.passedCheckpointIds = {}
        BY <3>2, <4>1 DEF Blank
      <4> QED  BY <1>0, <2>1, <4>2, CoversNothing
    <3> QED  BY <2>3, <3>1, <3>2 DEF Writes
  <2> QED  BY <2>1, <2>2, <2>3, RowsAlone
<1> QED  BY <1>1, <1>2, ReportedChanges

-----------------------------------------------------------------------------
(* What holds of requests one at a time.                                    *)

LEMMA AloneHolds == OneByOne /\ Spec => [](Typed /\ Shown /\ Alone)
<1> SUFFICES ASSUME OneByOne
             PROVE  Spec => [](Typed /\ Shown /\ Alone)
  OBVIOUS
<1>1. Typed => Shown
  BY RowsTyped DEF Shown
<1>2. Init => Alone
  <2> SUFFICES ASSUME Init
               PROVE  Alone
    OBVIOUS
  <2>1. \A p \in Process : job[p] = Idle
    BY DEF Init
  <2>2. \A p \in Process : Current(job[p]) /\ Testing(p)
    BY <2>1 DEF Idle, Current, Resetting, Testing, InTest
  <2>3. OneRowEach /\ Fresh /\ Told
    BY DEF Init, OneRowEach, Fresh, Told
  <2>4. EnrolledFirst
    BY StartsBlank DEF EnrolledFirst
  <2> QED  BY <2>2, <2>3, <2>4 DEF Alone
<1>3. Typed /\ Shown /\ Shown' /\ Alone /\ [Next]_vars => Alone'
  <2> SUFFICES ASSUME Typed, Shown, Shown', Alone, [Next]_vars
               PROVE  Alone'
    OBVIOUS
  <2>1. \A p \in Process : Current(job[p])' /\ Testing(p)'
    BY CurrentStays, TestingStays
  <2>2. OneRowEach'
    BY OneRowEachStays DEF Alone
  <2> QED  BY <2>1, <2>2, FreshStays, ToldStays, EnrolledFirstStays DEF Alone
<1> QED  BY <1>1, <1>2, <1>3, TypedHolds, PTL DEF Spec

\* Every write drops what is cached: when no request is running, the cached view
\* of any release is what the tables have.
THEOREM CachedViewIsCurrentHolds == OneByOne /\ Spec => []CachedViewIsCurrent
<1>1. Alone => CachedViewIsCurrent
  BY DEF Alone, Fresh, CachedViewIsCurrent, At
<1> QED  BY <1>1, AloneHolds, PTL

\* When no request is running, learning-service has been told of everything the
\* learner has earned.
THEOREM NothingUnreportedHolds == OneByOne /\ Spec => []NothingUnreported
<1>1. Alone => NothingUnreported
  <2> SUFFICES ASSUME Alone, \A p \in Process : At(p, "idle"),
                      reported # None, reported.release # None
               PROVE  Covers(reported, Rows)
    BY DEF NothingUnreported, Covers
  <2> QED  BY DEF Alone, Told, Owing, At
<1> QED  BY <1>1, AloneHolds, PTL

\* A resend of the latest request of a lesson changes nothing of its row.
THEOREM ResendChangesNothingHolds == OneByOne /\ Spec => ResendChangesNothing
<1> SUFFICES ASSUME OneByOne
             PROVE  Spec => ResendChangesNothing
  OBVIOUS
<1>1. Typed /\ Shown /\ Alone /\ [Next]_vars =>
        [\A l \in LessonId :
            completions[l] # None /\ completions'[l] # None
            /\ completions[l].lastClientRequestId = completions'[l].lastClientRequestId
            => completions[l] = completions'[l]]_vars
  <2> SUFFICES ASSUME Typed, Shown, Alone, [Next]_vars, NEW l \in LessonId,
                      completions[l] # None, completions'[l] # None,
                      completions[l] # completions'[l]
               PROVE  completions[l].lastClientRequestId
                          # completions'[l].lastClientRequestId
    OBVIOUS
  <2>1. ASSUME NEW p \in Process, UpdateCompletion(p)
        PROVE  completions[l].lastClientRequestId # completions'[l].lastClientRequestId
    <3>1. Current(job[p]) /\ completions \in [LessonId -> {None} \union Completion]
      BY DEF Alone, Typed, Stored
    <3>2. /\ l = request(p).target
          /\ completions'[l].lastClientRequestId = requestId(p)
      BY <2>1, <3>1 DEF UpdateCompletion
    <3>3. completions[l].lastClientRequestId # requestId(p)
      BY <2>1, <3>1, <3>2 DEF UpdateCompletion, At, Current, request, requestId
    <3> QED  BY <3>2, <3>3
  <2>2. ASSUME NEW p \in Process, CreateCompletion(p)
        PROVE  FALSE
    BY <2>2 DEF CreateCompletion, Typed, Stored
  <2>3. ASSUME NEW p \in Process, Erase(p)
        PROVE  FALSE
    BY <2>3 DEF Erase
  <2>4. ASSUME NEW p \in Process, Step(p), ~UpdateCompletion(p), ~CreateCompletion(p),
               ~Erase(p)
        PROVE  UNCHANGED completions
    BY <2>4, StepCases DEF rows, Invalidate, UpsertEnrollment, InsertAttempt,
           InsertPlacement, CommitPlacement, Publish
  <2>5. ASSUME NEW p \in Process, Crash(p) \/ \E q \in RequestId : Receive(p, q)
        PROVE  UNCHANGED completions
    BY <2>5 DEF Crash, Receive, rows
  <2>6. ASSUME NEW r \in Releases, Expire(r)
        PROVE  UNCHANGED completions
    BY <2>6 DEF Expire, rows
  <2> QED  BY <2>1, <2>2, <2>3, <2>4, <2>5, <2>6 DEF Next, vars
<1> QED  BY <1>1, AloneHolds, PTL DEF Spec, ResendChangesNothing

\* The tables implement LearnerPath, also with erasures, and with placement tests
\* taken in releases that come and go.
THEOREM RefinesOneByOne == OneByOne /\ Spec => Refines
<1> SUFFICES ASSUME OneByOne
             PROVE  Spec => Refines
  OBVIOUS
<1>1. Path!Blank = Blank
  BY DEF Path!Blank, Blank
<1>2. Init => Path!Init
  BY StartsBlank
<1>3. Typed /\ Shown /\ Shown' /\ Alone /\ [Next]_vars => [Path!Next]_Rows
  <2> SUFFICES ASSUME Typed, Shown, Shown', Alone, [Next]_vars,
                      NEW p \in Process, Writes(p)
               PROVE  Path!Next
    BY RowsAlone
  <2> QED  BY <1>1 DEF Writes, Grown, Path!Next, Path!Erase
<1> QED  BY <1>2, <1>3, AloneHolds, PTL DEF Spec, Refines, Path!Spec
=============================================================================
