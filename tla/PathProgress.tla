------------------------------ MODULE PathProgress ------------------------------
(***************************************************************************)
(* The path-progress service for one learner: path-progress.service.ts,    *)
(* checkpoint.service.ts, placement.service.ts, the reset of               *)
(* admin-learners.service.ts and the purge of user-data.service.ts.  Every *)
(* table and cache key is the learner's own, so one learner is the whole   *)
(* of it.  A process is one request being served, by any instance.  It     *)
(* takes a step of its own per await: a query, a cache call, a message     *)
(* sent.  Transactions run at READ COMMITTED, Postgres's default.          *)
(*                                                                         *)
(* A request finds some release active (activeRelease is read through a    *)
(* cache of its own, and any release can be activated at any time), so     *)
(* Open takes the release freely.  The cached PathMe is a function of the  *)
(* release and of the LearnerProgress it was computed from: the cache      *)
(* holds the latter.                                                       *)
(***************************************************************************)
EXTENDS PathTree

CONSTANTS
    Process,    \* requests being served at once
    Requests,   \* the requests the learner (or an admin) makes, by their id
    Retakes,    \* whether two different placements may be served at once
    Faults      \* which of "redis", "kafka" and "crash" may happen

RequestId == DOMAIN Requests
Operation == {"me", "enroll", "complete", "checkpoint", "placement",
              "reset", "purge"}
Placing == {q \in RequestId : Requests[q].op = "placement"}
Scores == Nat \union {None}

\* "target" is the lesson to complete or the unit whose checkpoint is taken;
\* "passes" what grading may say of its answers, which a resend can have changed
\* (the first row's are what replay grades); "sends" how often the request is
\* sent: the first time and the resends.
ASSUME RequestAssumption ==
    /\ \A q \in RequestId :
          Requests[q] \in [op : Operation, target : LessonId \union UnitId \union {None},
                           passes : SUBSET BOOLEAN \ {{}}, score : Scores, sends : Nat]
    /\ Retakes \in BOOLEAN
    /\ None \notin RequestId

VARIABLES
    enrollment,   \* the learner's row of enrollments, or None
    completions,  \* lesson_completions, by lesson
    attempts,     \* checkpoint_attempts
    placements,   \* placement_results
    cache,        \* the learner's cached view, by release
    reported,     \* the newest totals learning-service has of the learner
    sends,        \* how often each request was sent
    job           \* what each process is doing

rows == <<enrollment, completions, attempts, placements>>
vars == <<enrollment, completions, attempts, placements, cache, reported, sends, job>>

Tables == {"enrollments", "lesson_completions", "checkpoint_attempts",
           "placement_results"}

\* The columns the handlers read or are told apart by; times are left out but
\* for createdAt, which orders the placements.
Enrollment == [startUnitId : UnitId \union {None}]
Completion == [timesCompleted : Nat, bestScore : Scores,
               lastClientRequestId : RequestId, releaseId : Releases]
Attempt == [clientRequestId : RequestId, checkpointId : CheckpointId,
            releaseId : Releases, passed : BOOLEAN]
\* A row not committed yet is seen by no query of another transaction.
Placement == [clientRequestId : RequestId, skippedUnitIds : SUBSET UnitId,
              placedUnitId : UnitId \union {None}, createdAt : Nat,
              committed : BOOLEAN]

\* None is null, never a row.
ASSUME RowAssumption == None \notin Enrollment /\ None \notin Completion

Committed == {row \in placements : row.committed}
latest(some) ==
    CHOOSE row \in some : \A other \in some : other.createdAt <= row.createdAt

\* The learner as the tables have it: what meFor would read in one step.
Rows ==
    [enrolled |-> enrollment # None,
     startUnitId |-> IF enrollment = None THEN None ELSE enrollment.startUnitId,
     completedLessonIds |-> {l \in LessonId : completions[l] # None},
     passedCheckpointIds |-> {a.checkpointId : a \in {b \in attempts : b.passed}},
     skippedUnitIds |-> IF Committed = {} THEN {}
                        ELSE latest(Committed).skippedUnitIds]

-----------------------------------------------------------------------------
(* What a process is doing.  "then" is where it goes with the learner's     *)
(* view; "release" the one it serves from, "graded" the one a placement was *)
(* graded with; "found" the row it read and acts on.                        *)

Idle == [pc |-> "idle", request |-> None, then |-> "idle", release |-> None,
         graded |-> None, view |-> Blank, unread |-> {}, found |-> None,
         retried |-> FALSE]

Go(p, j) == job' = [job EXCEPT ![p] = j]
At(p, pc) == job[p].pc = pc
requestId(p) == job[p].request
request(p) == Requests[job[p].request]
units(p) == Units[job[p].release]
End(p) == Go(p, Idle)

Init ==
    /\ enrollment = None
    /\ completions = [l \in LessonId |-> None]
    /\ attempts = {}
    /\ placements = {}
    /\ cache = [r \in Releases |-> None]
    /\ reported = None
    /\ sends = [q \in RequestId |-> 0]
    /\ job = [p \in Process |-> Idle]

\* checkpoint.service.ts and placement.service.ts look for a recorded attempt
\* first; complete looks at the view first; enroll only at the release.
Receive(p, q) ==
    /\ At(p, "idle")
    /\ sends[q] < Requests[q].sends
    /\ Requests[q].op = "placement" /\ ~Retakes =>
          \A o \in Process : requestId(o) \in Placing => requestId(o) = q
    /\ sends' = [sends EXCEPT ![q] = @ + 1]
    /\ LET start == CASE Requests[q].op \in {"checkpoint", "placement"} -> "lookup"
                      [] Requests[q].op \in {"reset", "purge"} -> "erase"
                      [] OTHER -> "open"
           then == CASE Requests[q].op = "complete" -> "gate"
                     [] Requests[q].op = "enroll" -> "upsert"
                     [] OTHER -> "idle"
       IN  Go(p, [Idle EXCEPT !.pc = start, !.request = q, !.then = then])
    /\ UNCHANGED <<rows, cache, reported>>

-----------------------------------------------------------------------------
(* context: the active release, and the learner's view through the cache.   *)

Open(p) ==
    /\ At(p, "open")
    /\ \E r \in Releases :
          Go(p, [job[p] EXCEPT
                    !.release = r,
                    !.pc = IF job[p].then = "upsert" THEN "upsert" ELSE "view"])
    /\ UNCHANGED <<rows, cache, reported, sends>>

\* The view is there: on to what it is for.
WithView(p, view) ==
    IF job[p].then = "idle"
    THEN End(p)
    ELSE Go(p, [job[p] EXCEPT !.view = view, !.unread = {}, !.pc = job[p].then])

CacheHit(p) ==
    /\ At(p, "view")
    /\ cache[job[p].release] # None
    /\ WithView(p, cache[job[p].release])
    /\ UNCHANGED <<rows, cache, reported, sends>>

\* A read that fails is a miss.
CacheMiss(p) ==
    /\ At(p, "view")
    /\ cache[job[p].release] = None \/ "redis" \in Faults
    /\ Go(p, [job[p] EXCEPT !.view = Blank, !.unread = Tables, !.pc = "read"])
    /\ UNCHANGED <<rows, cache, reported, sends>>

\* Mutant: no enrollment row counts as enrolled.
ReadTableEnrolled(p, t) ==
    /\ At(p, "read")
    /\ t \in job[p].unread
    /\ Go(p, [job[p] EXCEPT
                 !.view = IF t = "enrollments" THEN [Rows EXCEPT !.enrolled = TRUE] ELSE @,
                 !.unread = @ \ {t}])
    /\ UNCHANGED <<rows, cache, reported, sends>>

\* Mutant: the newest placement counts before its transaction has committed.
ReadTableUncommitted(p, t) ==
    /\ At(p, "read")
    /\ t \in job[p].unread
    /\ Go(p, [job[p] EXCEPT
                 !.view = IF t = "placement_results" /\ placements # {}
                          THEN [Rows EXCEPT !.skippedUnitIds =
                                                latest(placements).skippedUnitIds]
                          ELSE Rows,
                 !.unread = @ \ {t}])
    /\ UNCHANGED <<rows, cache, reported, sends>>

\* The four queries run at once, in any order.
ReadTable(p, t) ==
    /\ At(p, "read")
    /\ t \in job[p].unread
    /\ LET seen == job[p].view
           view ==
             CASE t = "enrollments" ->
                    [seen EXCEPT !.enrolled = Rows.enrolled,
                                 !.startUnitId = Rows.startUnitId]
               [] t = "lesson_completions" ->
                    [seen EXCEPT !.completedLessonIds = Rows.completedLessonIds]
               [] t = "checkpoint_attempts" ->
                    [seen EXCEPT !.passedCheckpointIds = Rows.passedCheckpointIds]
               [] t = "placement_results" ->
                    [seen EXCEPT !.skippedUnitIds = Rows.skippedUnitIds]
       IN  Go(p, [job[p] EXCEPT !.view = view, !.unread = @ \ {t}])
    /\ UNCHANGED <<rows, cache, reported, sends>>

\* A write that fails is logged: the view goes back uncached.
CacheSet(p) ==
    /\ At(p, "read")
    /\ job[p].unread = {}
    /\ \/ cache' = [cache EXCEPT ![job[p].release] = job[p].view]
       \/ "redis" \in Faults /\ UNCHANGED cache
    /\ WithView(p, job[p].view)
    /\ UNCHANGED <<rows, reported, sends>>

\* Mutant: only the view of the release the request is served from is dropped.
InvalidateOne(p) ==
    /\ At(p, "invalidate")
    /\ cache' = [r \in Releases |-> IF r = job[p].release THEN None ELSE cache[r]]
    /\ Go(p, [job[p] EXCEPT !.pc = "open", !.then = "publish"])
    /\ UNCHANGED <<rows, reported, sends>>

\* invalidateUser scans for the learner's keys and deletes them; an error half
\* way, which is logged, leaves the rest.  A view cached while it runs counts
\* as cached before it or after it.
Invalidate(p) ==
    /\ At(p, "invalidate")
    /\ \E kept \in IF "redis" \in Faults THEN SUBSET Releases ELSE {{}} :
          cache' = [r \in Releases |-> IF r \in kept THEN cache[r] ELSE None]
    /\ CASE request(p).op = "complete" ->
              Go(p, [job[p] EXCEPT !.pc = "view", !.then = "publish"])
         [] request(p).op = "enroll" ->
              Go(p, [job[p] EXCEPT !.pc = "open", !.then = "idle"])
         [] request(p).op \in {"checkpoint", "placement"} ->
              Go(p, [job[p] EXCEPT !.pc = "open", !.then = "publish"])
         [] request(p).op = "reset" -> Go(p, [job[p] EXCEPT !.pc = "publish"])
         [] OTHER -> End(p)
    /\ UNCHANGED <<rows, reported, sends>>

-----------------------------------------------------------------------------
(* Enrolling.                                                               *)

\* Mutant: enrolling again forgets the placement's start unit.
UpsertEnrollmentAfresh(p) ==
    /\ At(p, "upsert")
    /\ enrollment' = [startUnitId |-> None]
    /\ Go(p, [job[p] EXCEPT !.pc = "invalidate"])
    /\ UNCHANGED <<completions, attempts, placements, cache, reported, sends>>

UpsertEnrollment(p) ==
    /\ At(p, "upsert")
    /\ enrollment' = IF enrollment = None THEN [startUnitId |-> None]
                     ELSE enrollment
    /\ Go(p, [job[p] EXCEPT !.pc = "invalidate"])
    /\ UNCHANGED <<completions, attempts, placements, cache, reported, sends>>

-----------------------------------------------------------------------------
(* Completing a lesson.                                                     *)

\* Mutant: a lesson of the release is open, locked or not.
LessonKnown(p) == request(p).target \in LessonIds(units(p))

LessonOpen(p) ==
    \E i \in DOMAIN units(p) : \E k \in DOMAIN units(p)[i].lessons :
        /\ units(p)[i].lessons[k] = request(p).target
        /\ lessonState(units(p), i, k, job[p].view) # "locked"

\* lessonState's 404 and 403, or on to recordCompletion.
GateLesson(p) ==
    /\ At(p, "gate") /\ request(p).op = "complete"
    /\ IF LessonOpen(p) THEN Go(p, [job[p] EXCEPT !.pc = "find"]) ELSE End(p)
    /\ UNCHANGED <<rows, cache, reported, sends>>

\* Mutant: a request already recorded is recorded again.
FindCompletionAlways(p) ==
    /\ At(p, "find")
    /\ Go(p, [job[p] EXCEPT !.found = completions[request(p).target], !.pc = "write"])
    /\ UNCHANGED <<rows, cache, reported, sends>>

\* A row last written by this request makes it a replay: nothing is written,
\* invalidated or published.
FindCompletion(p) ==
    /\ At(p, "find")
    /\ LET row == completions[request(p).target]
       IN  IF row # None /\ row.lastClientRequestId = requestId(p)
           THEN Go(p, [job[p] EXCEPT !.pc = "view", !.then = "idle"])
           ELSE Go(p, [job[p] EXCEPT !.found = row, !.pc = "write"])
    /\ UNCHANGED <<rows, cache, reported, sends>>

bestScore(row, score) ==
    IF row.bestScore = None \/ score = None
    THEN IF row.bestScore = None THEN score ELSE row.bestScore
    ELSE Later(row.bestScore, score)

\* The update raises the stored count by one and stores the best of the score
\* and the one read before; without its row it throws.
UpdateCompletion(p) ==
    /\ At(p, "write") /\ job[p].found # None
    /\ LET lesson == request(p).target
       IN  IF completions[lesson] = None
           THEN End(p) /\ UNCHANGED completions
           ELSE /\ completions' = [completions EXCEPT ![lesson] =
                      [timesCompleted |-> @.timesCompleted + 1,
                       bestScore |-> bestScore(job[p].found, request(p).score),
                       lastClientRequestId |-> requestId(p),
                       releaseId |-> job[p].release]]
                /\ Go(p, [job[p] EXCEPT !.pc = "invalidate"])
    /\ UNCHANGED <<enrollment, attempts, placements, cache, reported, sends>>

\* An insert that meets a row (P2002) starts over once.
CreateCompletion(p) ==
    /\ At(p, "write") /\ job[p].found = None
    /\ LET lesson == request(p).target
       IN  IF completions[lesson] = None
           THEN /\ completions' = [completions EXCEPT ![lesson] =
                      [timesCompleted |-> 1,
                       bestScore |-> request(p).score,
                       lastClientRequestId |-> requestId(p),
                       releaseId |-> job[p].release]]
                /\ Go(p, [job[p] EXCEPT !.pc = "invalidate"])
           ELSE /\ UNCHANGED completions
                /\ IF job[p].retried THEN End(p)
                   ELSE Go(p, [job[p] EXCEPT !.pc = "find", !.retried = TRUE])
    /\ UNCHANGED <<enrollment, attempts, placements, cache, reported, sends>>

-----------------------------------------------------------------------------
(* Submitting a checkpoint or a placement.                                  *)

recorded(p) ==
    \/ /\ request(p).op = "checkpoint"
       /\ \E a \in attempts : a.clientRequestId = requestId(p)
    \/ /\ request(p).op = "placement"
       /\ \E row \in Committed : row.clientRequestId = requestId(p)

\* replay: what is recorded is answered with the learner's view.  After a
\* unique violation the row must be there, or the error is thrown.
Lookup(p) ==
    /\ At(p, "lookup")
    /\ IF recorded(p)
       THEN Go(p, [job[p] EXCEPT !.pc = "open", !.then = "idle"])
       ELSE IF job[p].retried THEN End(p)
       ELSE Go(p, [job[p] EXCEPT !.pc = "open", !.then = "gate"])
    /\ UNCHANGED <<rows, cache, reported, sends>>

\* Mutant: a unit without a checkpoint has one to take.
checkpointUnitsAll(p) ==
    {i \in DOMAIN units(p) : /\ units(p)[i].id = request(p).target
                             /\ checkpointState(units(p), i, job[p].view) # "locked"}

checkpointUnits(p) ==
    {i \in DOMAIN units(p) : /\ units(p)[i].id = request(p).target
                             /\ units(p)[i].checkpointId # None
                             /\ checkpointState(units(p), i, job[p].view) # "locked"}

\* The unit's checkpoint is open (else 404 or 403); a submission may still be
\* refused, for another release's id or the wrong number of answers.
GateSubmission(p) ==
    /\ At(p, "gate") /\ request(p).op \in {"checkpoint", "placement"}
    /\ \/ /\ request(p).op = "checkpoint" => checkpointUnits(p) # {}
          /\ Go(p, [job[p] EXCEPT !.pc = "insert", !.graded = job[p].release])
       \/ End(p)
    /\ UNCHANGED <<rows, cache, reported, sends>>

\* The row of an attempt at the checkpoint of the i-th unit.
attemptAt(p, i, pass) ==
    [clientRequestId |-> requestId(p),
     checkpointId |-> units(p)[i].checkpointId,
     releaseId |-> job[p].release,
     passed |-> pass]

\* Mutant: a passed attempt is answered like a failed one.
InsertAttemptQuietly(p) ==
    /\ At(p, "insert") /\ request(p).op = "checkpoint"
    /\ \E i \in checkpointUnits(p), pass \in request(p).passes :
          attempts' = attempts \union {attemptAt(p, i, pass)}
    /\ Go(p, [job[p] EXCEPT !.pc = "open", !.then = "idle"])
    /\ UNCHANGED <<enrollment, completions, placements, cache, reported, sends>>

\* Mutant: a resend stores its own grade over the first one.
InsertAttemptOver(p) ==
    /\ At(p, "insert") /\ request(p).op = "checkpoint"
    /\ \E i \in checkpointUnits(p), pass \in request(p).passes :
          attempts' = {a \in attempts : a.clientRequestId # requestId(p)}
                          \union {attemptAt(p, i, pass)}
    /\ Go(p, [job[p] EXCEPT !.pc = "invalidate"])
    /\ UNCHANGED <<enrollment, completions, placements, cache, reported, sends>>

\* A failed attempt changes no view: nothing is invalidated or published.
InsertAttempt(p) ==
    /\ At(p, "insert") /\ request(p).op = "checkpoint"
    /\ IF recorded(p)
       THEN /\ Go(p, [job[p] EXCEPT !.pc = "lookup", !.retried = TRUE])
            /\ UNCHANGED attempts
       ELSE \E i \in checkpointUnits(p), pass \in request(p).passes :
               /\ attempts' = attempts \union {attemptAt(p, i, pass)}
               /\ Go(p, IF pass THEN [job[p] EXCEPT !.pc = "invalidate"]
                        ELSE [job[p] EXCEPT !.pc = "open", !.then = "idle"])
    /\ UNCHANGED <<enrollment, completions, placements, cache, reported, sends>>

inserted(p) == {row \in placements : row.clientRequestId = requestId(p)}

now == IF placements = {} THEN 1 ELSE latest(placements).createdAt + 1

\* The row of a placement graded as position "at".
placementAt(p, at) ==
    [clientRequestId |-> requestId(p),
     skippedUnitIds |-> skippedUnits(units(p), at),
     placedUnitId |-> placedUnit(units(p), at),
     createdAt |-> now,
     committed |-> FALSE]

\* Mutant: no unique index on the request id.
InsertPlacementAgain(p) ==
    /\ At(p, "insert") /\ request(p).op = "placement"
    /\ \E at \in placedPositions(units(p)) :
          placements' = placements \union {placementAt(p, at)}
    /\ Go(p, [job[p] EXCEPT !.pc = "start"])
    /\ UNCHANGED <<enrollment, completions, attempts, cache, reported, sends>>

\* The transaction's insert waits for another one's row of the same request id.
InsertPlacement(p) ==
    /\ At(p, "insert") /\ request(p).op = "placement"
    /\ inserted(p) \subseteq Committed
    /\ IF inserted(p) # {}
       THEN /\ Go(p, [job[p] EXCEPT !.pc = "lookup", !.retried = TRUE])
            /\ UNCHANGED placements
       ELSE /\ \E at \in placedPositions(units(p)) :
                  placements' = placements \union {placementAt(p, at)}
            /\ Go(p, [job[p] EXCEPT !.pc = "start"])
    /\ UNCHANGED <<enrollment, completions, attempts, cache, reported, sends>>

ReadEnrollment(p) ==
    /\ At(p, "start")
    /\ Go(p, [job[p] EXCEPT !.found = enrollment, !.pc = "commit"])
    /\ UNCHANGED <<rows, cache, reported, sends>>

\* The start unit stored is the later of the placed one and the one read.
CommitPlacement(p) ==
    /\ At(p, "commit")
    /\ \E row \in inserted(p) :
          /\ placements' = (placements \ {row})
                               \union {[row EXCEPT !.committed = TRUE]}
          /\ LET current == IF job[p].found = None THEN None
                            ELSE job[p].found.startUnitId
             IN  enrollment' = [startUnitId |->
                     laterStart(units(p), current, row.placedUnitId)]
    /\ Go(p, [job[p] EXCEPT !.pc = "invalidate"])
    /\ UNCHANGED <<completions, attempts, cache, reported, sends>>

-----------------------------------------------------------------------------
(* Events, erasure, and what the requests do not decide.                    *)

zeroTotals == [lessonsCompleted |-> 0, unitsCompleted |-> 0, stagesCompleted |-> 0]

\* Mutant: each event adds one to the lessons reported before.
PublishDelta(p) ==
    /\ At(p, "publish")
    /\ LET before == IF reported = None THEN zeroTotals ELSE reported.totals
       IN  reported' = [tree |-> job[p].release, release |-> job[p].release,
                        totals |-> [before EXCEPT !.lessonsCompleted = @ + 1]]
    /\ End(p)
    /\ UNCHANGED <<rows, cache, sends>>

\* learning-service keeps the newest totals; a failed send is logged.  A
\* placement's totals are grouped by the tree it was graded with, whatever
\* release the view after it is of; every other event's by the view's tree.
Publish(p) ==
    /\ At(p, "publish")
    /\ LET release == job[p].release
           tree == IF request(p).op = "placement" THEN job[p].graded ELSE release
           message == [tree |-> tree, release |-> release, totals |->
                          IF request(p).op = "reset" THEN zeroTotals
                          ELSE pathTotals(Tree[tree], units(p), job[p].view)]
       IN  \/ reported' = message
           \/ "kafka" \in Faults /\ UNCHANGED reported
    /\ End(p)
    /\ UNCHANGED <<rows, cache, sends>>

\* One transaction deletes the learner's rows, those not committed excepted; a
\* row committed while it runs counts as committed before it or after it.
Erase(p) ==
    /\ At(p, "erase")
    /\ enrollment' = None
    /\ completions' = [l \in LessonId |-> None]
    /\ attempts' = {}
    /\ placements' = placements \ Committed
    /\ Go(p, [job[p] EXCEPT !.pc = "invalidate"])
    /\ UNCHANGED <<cache, reported, sends>>

\* Mutant: the transaction of an instance that dies stays open.
CrashOpen(p) ==
    /\ "crash" \in Faults
    /\ ~At(p, "idle")
    /\ End(p)
    /\ UNCHANGED <<rows, cache, reported, sends>>

\* The instance dies: the request is gone, an open transaction rolled back.
Crash(p) ==
    /\ "crash" \in Faults
    /\ ~At(p, "idle")
    /\ placements' = IF job[p].pc \in {"start", "commit"}
                      THEN placements \ (inserted(p) \ Committed)
                      ELSE placements
    /\ End(p)
    /\ UNCHANGED <<enrollment, completions, attempts, cache, reported, sends>>

\* The hour a view is cached is over.
Expire(r) ==
    /\ cache[r] # None
    /\ cache' = [cache EXCEPT ![r] = None]
    /\ UNCHANGED <<rows, reported, sends, job>>

Step(p) ==
    \/ Open(p) \/ CacheHit(p) \/ CacheMiss(p)
    \/ (\E t \in Tables : ReadTable(p, t)) \/ CacheSet(p) \/ Invalidate(p)
    \/ UpsertEnrollment(p)
    \/ GateLesson(p) \/ FindCompletion(p) \/ UpdateCompletion(p) \/ CreateCompletion(p)
    \/ Lookup(p) \/ GateSubmission(p) \/ InsertAttempt(p)
    \/ InsertPlacement(p) \/ ReadEnrollment(p) \/ CommitPlacement(p)
    \/ Publish(p) \/ Erase(p)

Next ==
    \/ \E p \in Process : Step(p) \/ Crash(p) \/ (\E q \in RequestId : Receive(p, q))
    \/ \E r \in Releases : Expire(r)

Spec == Init /\ [][Next]_vars

\* A handler runs on until it answers, fails or dies with its instance: every
\* await in it ends, well or with an error.
FairSpec == Spec /\ \A p \in Process : WF_vars(Step(p))

-----------------------------------------------------------------------------
Job == [pc : {"idle", "lookup", "open", "view", "read", "gate", "upsert", "find",
              "write", "insert", "start", "commit", "erase", "invalidate", "publish"},
        request : RequestId \union {None},
        then : {"idle", "gate", "upsert", "publish"},
        release : Releases \union {None},
        graded : Releases \union {None},
        view : Learner,
        unread : SUBSET Tables,
        found : {None} \union Enrollment \union Completion,
        retried : BOOLEAN]

Totals == [lessonsCompleted : Nat, unitsCompleted : Nat, stagesCompleted : Nat]
Report == [tree : Releases \union {None}, release : Releases \union {None},
           totals : Totals]

TypeOK ==
    /\ enrollment \in {None} \union Enrollment
    /\ completions \in [LessonId -> {None} \union Completion]
    /\ attempts \in SUBSET Attempt
    /\ placements \in SUBSET Placement
    /\ cache \in [Releases -> {None} \union Learner]
    /\ reported \in {None} \union Report
    /\ sends \in [RequestId -> Nat]
    /\ job \in [Process -> Job]

-----------------------------------------------------------------------------
(* What a request may rely on when requests run side by side.               *)

\* The learner's views a request for release r can act on or be answered with.
views(r) ==
    ({cache[r]} \ {None})
    \union {job[p].view : p \in {x \in Process : job[x].release = r}}

\* A cached view, or one being read table by table, may be behind what is
\* stored, never ahead of it: what it unlocks, the rows unlock too.  So a
\* stale cache (path-progress.service.ts, meFor) refuses too much at worst.
ViewsBehind ==
    \A r \in Releases : \A view \in views(r) : NoFurther(Units[r], view, Rows)

\* Whatever the requests overlap with, the rows change as the path promises:
\* one operation at a time, each allowed by what is stored when it is written
\* and not only by the view it was checked against.
Path == INSTANCE LearnerPath WITH learner <- Rows
Refines == Path!Spec

\* learning-service is never told more than the rows show: the totals sent
\* after a write (path-progress-events.ts) are earned.
ReportedEarned ==
    reported # None /\ reported.release # None =>
        LET stored == pathTotals(Tree[reported.tree], Units[reported.release], Rows)
        IN  \A field \in DOMAIN stored : reported.totals[field] <= stored[field]

\* A reset or a purge deletes the learner's rows.
Erasing == \E p \in Process : Erase(p)

\* A request id has one result.
OneResultEach ==
    /\ \A a, b \in attempts : a.clientRequestId = b.clientRequestId => a = b
    /\ \A a, b \in placements : a.clientRequestId = b.clientRequestId => a = b

\* "Idempotent per clientRequestId: a resend returns the first grade"
\* (checkpoint.service.ts:76, placement.service.ts:75): a request sent twice,
\* even at once and served from two releases, leaves one result, and what is
\* graded stays as it is until the learner's rows are erased.
FirstGradeStands ==
    [][/\ OneResultEach'
       /\ ~Erasing => attempts \subseteq attempts' /\ Committed \subseteq Committed']_vars

\* Every request ends, also one that meets its own duplicate: nobody waits for
\* a row that is never committed, and no retry goes on for ever.
EveryRequestEnds == \A p \in Process : ~At(p, "idle") ~> At(p, "idle")

-----------------------------------------------------------------------------
(* What the service's comments say of it.  It holds of requests served one  *)
(* at a time; side by side it does not.                                     *)

\* "The learner's view is cached per user and release, and dropped on every
\* write" (path-progress.service.ts:58-62), "Writes invalidate" (cache-ttl.ts):
\* when no request is running, what is cached is what is stored.
CachedViewIsCurrent ==
    (\A p \in Process : At(p, "idle")) =>
        \A r \in Releases : cache[r] \in {None, Rows}

\* "Replaying the same clientRequestId (an offline queue retrying) changes
\* nothing; only the latest id per lesson is remembered"
\* (path-progress.service.ts:123-125): a write changes the latest id.
ResendChangesNothing ==
    [][\A l \in LessonId :
          completions[l] # None /\ completions'[l] # None
          /\ completions[l].lastClientRequestId = completions'[l].lastClientRequestId
          => completions[l] = completions'[l]]_vars

\* The totals learning-service has leave out nothing the learner has earned
\* (path-progress-events.ts:8-12): when no request is running, no row is missing
\* from the newest totals.
NothingUnreported ==
    (\A p \in Process : At(p, "idle"))
    /\ reported # None /\ reported.release # None =>
        LET stored == pathTotals(Tree[reported.tree], Units[reported.release], Rows)
        IN  \A field \in DOMAIN stored : stored[field] <= reported.totals[field]
=============================================================================
