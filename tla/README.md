# Verification of curriculum-service (Wordsly Path)

TLA+ models of the service that publishes the Wordsly Path curriculum and keeps
each learner's progress along it, the TLC runs that check them, and proofs that
TLAPS checks. The models are translated from the TypeScript under `src/src` and
from `src/prisma/schema.prisma`. `PROJECT.json` maps every definition to the
lines it stands for and lists components, runs, mutants, findings and hazards.

    tlc -config LearnerPath.cfg MCLearnerPath.tla      # model-check one run
    tlapm LearnerPathProofs.tla                        # check one proof module

## 1. The system

Any number of instances of one NestJS service share a Postgres database, a Redis
cache and a Kafka broker. Nothing in the code sets an isolation level, so every
transaction runs at READ COMMITTED. A request is an async function: between two
of its awaits anything may happen in another request of the same or another
instance.

| Component (under `src/src`) | State it keeps | Operations | Talks to |
|---|---|---|---|
| Unlocking rules `path-progress/unit.logic.ts` | none (pure) | `computeProgress`, `pathTotals`, `findUnit`, `findLessonUnit` | called by the services with rows |
| Placement rules `placement.logic.ts` | none | `gradePlacement`, `laterStart` | placement service |
| Checkpoint grading `checkpoint.logic.ts` | none | `gradeCheckpoint`, `isCorrect`, `learnerQuestions` | checkpoint service |
| Path progress `path-progress.service.ts` | tables `enrollments`, `lesson_completions` | `me`, `enroll`, `unit`, `lesson`, `complete`, `context` | cache, releases, events |
| Checkpoints `checkpoint.service.ts` | table `checkpoint_attempts` | `view`, `submit` (with `replay`, `open`) | path progress, cache, events |
| Placement `placement.service.ts` | tables `placement_results`, `enrollments` | `view`, `submit` | the same |
| Progress events `path-progress-events.ts` | none | `publish`, `publishReset` | topic `path_progress`, read by learning-service |
| Cache `cache/` | Redis keys | `getOrSet`, `getOrSetGlobal`, `invalidateUser`, `delGlobal` | every service |
| Releases `release/` | `path_state`, `releases`, `published_*` | `publish`, `activate`, `activeRelease`, `list` | cache (30 s pointer), topic of retired items |
| Published content `path-content/` | none (immutable snapshots, cached) | `tree`, `lesson`, `checkpoint`, `placement`, `hydrate`, `filterPublished` | cache |
| Admin content `admin-path/admin-content.service.ts`, `admin-reorder.logic.ts` | the working copy (content tables) | `create`, `update`, `archive`, `restore`, `reorder` | database |
| Admin import `admin-import.*` | the working copy | `importUnit` | content writer |
| Content import `content-import/` | the working copy and its hashes; a fingerprint in memory | boot and watch, `run` | releases (`publish`) |
| Content rules `content/` | none | schema, references, rows to corpus, ids, hashes | publish and imports |
| Admin learners `admin-learners.*` | none of its own | `list`, `stats`, `learner`, `reset` | learner tables, cache, events |
| User data `user-data/` | none of its own | `purgeUser`, Kafka consumer | learner tables, cache |
| Messaging `messaging/` | producer connection | `send`, `sendBatch`, `consumeWithRetry` | Kafka |
| Auth, HTTP, config, health | none | guards, controllers, start-up | everything |

What makes it hard:

* a request acts on a *view* of the learner that was cached, or read table by
  table, before other requests wrote; the write then goes to newer rows;
* read-then-write without locks (completion rows, the start unit), unique
  violations answered by a second look, resends that overlap the first send;
* the cache is filled after a read and emptied after a write with nothing that
  orders the two; Redis errors are swallowed; so are Kafka errors;
* a crash between the write, the invalidation and the event;
* several releases: ids are stable, trees are not, and any release can be made
  active again at any time while what a learner did is kept across all of them;
* publishing, activating, editing and importing side by side: statements of one
  transaction see what others have committed in between, rows are locked as they
  are written, and only publishes lock each other out;
* the consumer of deleted accounts: at least once from Kafka, at most three
  attempts, an offset committed apart from the purge.

What makes each part correct:

* unlocking: doing more never locks anything; there is always a way on; totals
  sent to learning-service never drop by working;
* services: nothing is written that the stored rows do not allow; a request sent
  twice is recorded once; nobody is told more than was earned; every request ends;
* cache: never ahead of the rows; without overlap, exact;
* releases: what learners see is one whole publish, built of what admins wrote;
  releases only grow, in order; a retired item is really gone from the release
  that retires it; once a publish or a rollback is done nobody is served the
  release before, but for a failure or an overlapping read;
* imports: an admin's edit is never overwritten unseen, a unit's file goes in
  whole or not at all;
* grading: every question can be answered with what is shown, and doing better
  never places a learner nearer;
* erasure: a deleted account's rows go, all of them, and nobody else's.

## 2. The modules

`UnitLogic` and `PlacementLogic` are the pure code. A tree is a sequence of
stages, a stage a sequence of units `[id, lessons, checkpointId]`. The loop of
`computeProgress` passes one value on, `previousCleared`, and `cleared` does not
depend on it, so the loop becomes expressions over a position: `cleared`, `open`,
`lessonState`, `checkpointState`, `unitState`, `currentLesson`. `pathTotals` takes
the tree it groups by and the units the progress is of, which differ in
`placement.service.ts` when a release is activated between grading and the answer.
For a learner every position `gradePlacement` can return is possible
(`placedPositions`); `Grading` has how it follows from the answers, and
`PlacementIsFair` that the two agree.

`PathTree` declares the releases and their trees as constants, with the
assumption that ids are unique in a tree (`checkContentRefs` refuses duplicate
slugs, ids are hashes of slugs), the record of what is kept of a learner, and how
two such records compare (`NoFurther`, `UnlocksNoLess`).

`LearnerPath` is the promise: the learner's record, changed by one atomic step
per operation. A step uses the tree of any release, since any can be active.

`PathProgress` is the service: the four learner tables, the cached views, the
newest totals learning-service has, and processes that serve requests one await
at a time.

| Code | Action of `PathProgress` |
|---|---|
| controller calls the service | `Receive` |
| `active()` | `Open` |
| `cache.getOrSet`: read, compute, store | `CacheHit`, `CacheMiss`, `ReadTable` (one per query of the `Promise.all`), `CacheSet` |
| `cache.invalidateUser` | `Invalidate` |
| `enrollment.upsert` | `UpsertEnrollment` |
| `complete`: `lessonState`, then `recordCompletion` | `GateLesson`, `FindCompletion`, `UpdateCompletion`, `CreateCompletion` |
| `submit`: `replay`, `open`, insert | `Lookup`, `GateSubmission`, `InsertAttempt` |
| placement's transaction | `InsertPlacement`, `ReadEnrollment`, `CommitPlacement` |
| `events.publish`, `publishReset` | `Publish` |
| `reset`, `purgeUser` (one transaction) | `Erase` |
| an instance dies; a key expires | `Crash`, `Expire` |

A process that commits makes its rows visible in one step; a placement not yet committed
is in `placements` with `committed = FALSE` because a second insert with the same request
id waits for it. A placement's `createdAt` counts the inserts, which is all the code uses
it for: the newest one says what was skipped. The cached view is a function of the release
and of the record it was computed from, so the cache holds the record.

`Path == INSTANCE LearnerPath WITH learner <- Rows` maps the tables to the
promise; `Refines` is `Path!Spec`.

`AdminLearners` adds what admins are shown of a learner (`flattenLessons`,
`reachedStage`) to `LearnerPath`.

### The working copy and its releases

| Module | Code |
|---|---|
| `ContentSchema` | what one record must look like: `content.schema.ts`, `admin-records.ts` |
| `ContentRules` | what the records together must be: `content-refs.logic.ts`, `content-rows.ts`, the loader, the order of an import |
| `ReleaseLogic` | `buildRelease`, `retiredItemIds`, reads of a stored release |
| `ImportPlans` | `planImport`, `planAdminImport`, `planReorder` |
| `Authoring` | the services: admin writes, imports, the watcher, publish, activate, the pointer |
| `ReleaseHistory` | what releases promise, whatever happens to the working copy |
| `Grading` | `checkpoint.logic.ts` and `gradePlacement` |
| `AdminTree` | the tree the admins' overview shows |
| `PublishedContent` | `Authoring` with `Grading` and `AdminTree`, and properties that relate them |

The working copy is a function from slugs to rows `[record, seed, status]`: the
record in its seed shape, what the last import wrote (`seedHash`), and the status.
A process of `Authoring` serves one request, one statement at a time; `written`
holds the rows its transaction has written, seen by itself only until `Commit`, and
locked for the others (`Waits`). A lesson is in three tables, and Prisma's `include`
reads its steps and its links with statements after that of its row (`LessonParts`): what
a publish reads (`ReadPart`) and what a reorder writes back (`RereadPart`) can be one
lesson of several moments (`Mixed`). An import reads a lesson's hash, which is in its
row. A record is written by one step, since others see it at the commit.

| Code | Action of `Authoring` |
|---|---|
| controllers, the script | `Receive` |
| `create`, `update`: find, `checkReferences`, `writeRecord` | `FindForCreate`, `FindForUpdate`, `CheckParent`, `CheckOthers`, `Write` |
| `archive`: find, one count per table, `setStatus` | `FindForArchive`, `CheckEmpty`, `SetStatus` |
| `restore` | `FindForRestore`, `SetStatus` |
| `reorder`: parent, children, read and write per row | `FindParent`, `FindChildren`, `Reread`, `RereadPart`, `Write` |
| `importUnit`: rows, plan, checks and writes | `ReadTable`, `PlanUnitImport`, `CheckParent`, `CheckOthers`, `Write` |
| `ContentImportService.run` | `ReadTable`, `PlanImport`, `Write` |
| a transaction commits, or a dry run or a refused file is rolled back | `Commit` |
| the watcher: fingerprint, files, import, then publish or not | `CheckForChanges`, `LoadContent`, ..., `Decide` |
| `publish`: lock, copy, validate and build, flip, create, commit | `TakeLock`, `ReadTable`, `ReadPart`, `Validate`, `Flip`, `CreateRelease`, `CommitPublish` |
| after the commit: the cache, the message | `DropPointer`, `SendRetired` |
| `activate` | `Activate`, `ActivateNone`, `DropPointer` |
| `activeRelease` | `PointerHit`, `PointerMiss`, `FillPointer`, `Expire` |
| an author saves a file | `SaveContent` |
| an error, an instance dies; a transaction waits too long | `Stop`; `TimeOut` |

`History == INSTANCE ReleaseHistory` sees of a release its version and its items;
`Refines` is that every step of `Authoring` is one of `ReleaseHistory` or changes
nothing it sees.

### Deleted accounts

`UserDeleted` is the consumer: `Accept` (the payload is parsed), `EmptyTable` (one
`deleteMany`), `CommitPurge`, `CommitOffset`, `Fail` (an attempt throws: the next one,
or the last was made), `Throw` (an error outside the attempts), `Crash`, and `Send` for
auth-service. `purgeUser` with a user who is not there has no filter (`matching`), as
the comment of `parseUserDeletedPayload` says of Prisma.

Operators whose comment starts with "Mutant:" are not part of a specification:
each is a plausible bug that replaces the definition after it, and
`PROJECT.json` names the property that must then fail.

## 3. The runs

| Run | Question | Result |
|---|---|---|
| `learner_path` | Over three releases in any order: does work ever lock, lower the totals or lead to a dead end; does a learner who goes on finish; do the statistics agree with the learner's page? | holds |
| `path_progress` | Two requests at once, Redis failing (a lesson finished on two devices, a checkpoint, a placement): are views behind the rows, reports earned, and does every write keep the promise? | holds |
| `faulty_services` | A placement and a checkpoint, each sent twice, with Kafka and instances failing: does each leave one result that stays, is no view ahead, does every request end? | holds |
| `one_at_a_time` | All operations, two releases, no overlap and no fault: is the cache exact, everything reported, a resend without effect, the promise kept? | holds |
| `authoring` | Two of ten requests at a time (edits, archives, reorders, the watcher, a publish, a rollback, a learner) with every fault, also while a lesson is read in parts: are stored releases whole, do they follow `ReleaseHistory`, does every request end? | holds |
| `content` | Two requests one after the other, from five starts, of 27 over every kind of record: is what is published what admins wrote, where they put it, shown to admins, answerable and graded fairly; is the active release what is served; does an import keep edits, and a file go in whole? | holds |
| `user_deleted` | Messages sent again or malformed, failing attempts and a consumer that dies: who loses rows, what does a committed message mean, does the topic move on? | holds |
| `retake_across_releases` | "A retake never moves a learner back, so it never re-locks" | violated |
| `finished_unit_relocked` | "a lesson added by a later release must not re-lock a unit the learner finished" | violated |
| `resend_counts_twice` | "Replaying the same clientRequestId changes nothing" | violated |
| `stale_view` | "dropped on every write" | violated |
| `import_overwrites_edit` | "a concurrent admin edit cannot slip between plan and write" | violated |

The violated runs:

* **retake_across_releases** `laterStart` compares positions in the release just
  graded, and a start unit that release does not have ranks below all of it. In the
  trace a learner placed at `u3` by the first release takes the test again in the second,
  which has no `u3`, and is placed at `u2`: the start moves back, and in the first
  release `u3` is locked. (A retake's skipped units also replace the older ones, which
  can lock units of another release while the start unit stays; that is not this run.)
* **finished_unit_relocked** a unit without a checkpoint is cleared only while all
  lessons of the *active* tree are done. When a release adds a lesson to two
  finished units in a row, the first is no longer cleared and the second, finished
  too, is locked.
* **resend_counts_twice** on a lesson done before, `findUnique` and `update` are
  two statements: a request and its resend both pass the first and both count.
* **stale_view** a view read before a write is stored after the write's
  invalidation and stays until the next write or for an hour. By `ViewsBehind` it
  only refuses too much while nothing is erased: it shows the learner not enrolled
  after enrolling. After a reset the same race leaves a view of what is gone.
* **import_overwrites_edit** the importer's transaction reads the hashes and writes
  later, at READ COMMITTED and without locking what it read: an admin's update that
  commits in between is overwritten by the seed, and the row then counts as seeded.

Why other properties are stated for requests one at a time: `CachedViewIsCurrent`,
`ResendChangesNothing` are false with two (above), and so is `ImportKeepsEdits`.
`NothingUnreported` is false with two as well, because the message sent last can hold the
older view; the code's comment accepts that ("the next event carries the totals").
`PublishedRowsAreReleased` is false with two: the flip of a publish marks drafts written
after the copy was read, so a row no release has can be PUBLISHED until it is edited
again. `UnitImportIsWhole` is false with two: a unit's import leaves out the records it
has read as unchanged, and an edit of one of them can commit before the import does.
`PointerIsCurrent` is false with two: a reader that has loaded the pointer before an
activation can store it after the activation's invalidation, and for 30 seconds
learners are served the release before.
Section 4 proves these for any number of processes under a condition on who commits when.

### Bounds, and why they are enough

* Trees of two or three units in one or two stages, one of them without units: enough for
  a unit before, at and after the start unit, with and without a checkpoint, a lesson
  added and a unit replaced by the next release. The rules look at a unit and the one
  before.
* Two processes: every race in the code is between one read-write pair and one
  other writer. `SYMMETRY` exchanges the processes in `path_progress` only, where no
  liveness is checked.
* Requests are named in `MCPathProgress`: which are sent, and how often
  (`sends`, the only counter bound; a request is never sent for ever). A resent
  checkpoint may be graded differently (`passes`), or two rows of one request id would be
  one element of the set. Redis fails in `path_progress`, Kafka and instances in
  `faulty_services`; that all of it may fail at once is in the theorems only.
  `CHECK_DEADLOCK FALSE`: when all requests have been sent the system rests.
* `Retakes = FALSE` keeps two *different* placements from overlapping, which the
  code does not do: the transaction reads the start unit and writes the later one
  without a lock, so the second of two commits can overwrite a further start unit.
  `ViewsBehind` and `Refines` are about the rest. With two releases and a placement
  requests overlap in no run: `retake_across_releases` shows the start unit
  already moves back there.
* `reset` and `purge` overlap nothing in the passing runs: a request checked before
  and written after an erasure does write. That is listed as a hazard.
* `authoring`: one unit with two or three lessons, the second practising what the
  first teaches, so that a release can be torn (a lesson without its item, an item
  taught too late), retire an item, and differ from the copy, and an update of a lesson's
  steps and links, so that a lesson can be read or written back torn; two processes and two
  requests (`MaxRequests`, the only bound), for a race needs a reader and a writer.
  Kinds without rows are left out (`Tables`): a statement over an empty table
  changes nothing.
* `content`: two stages, two units, every kind of record, step and question, a gap
  between positions, so that every rule of `checkContentRefs` can refuse something;
  one process. The five starts are what a longer history leaves: nothing released,
  a copy as released, one edited, one with a unit's rows archived, and one with every row
  edited, the units moved to other stages and the stages changed about.
* `user_deleted`: two users, three messages, two crashes, three attempts as in the
  code: a message before and after the one that fails, and one sent again.
* `CHECK_DEADLOCK FALSE` in these too: after the last request or message the system
  rests.

### Fairness

`LearnerPath.FairSpec`: weak fairness of `TakeNext`, a learner who takes what the
app offers; `PathCanBeFinished` says that is enough, unless erased again and again.
`PathProgress.FairSpec`: weak fairness of each process's steps, for every await in a
handler ends, with a result or an error (client timeouts of Redis, Postgres and
Kafka). Nothing is assumed of crashes, expiry, or of learners sending requests.
`Authoring.Spec`: weak fairness of each process's steps for the same reason, and of
`TimeOut`, since Prisma ends a transaction at its timeout and PostgreSQL ends a
deadlock. Nothing is assumed of requests, faults, saved files or the pointer's expiry.
`UserDeleted.Spec`: weak fairness of the consumer, and strong fairness of
`CommitOffset`: a broker that is asked again and again takes a commit in the end. The
database may fail every attempt. That Kafka delivers again after `Throw` is what
`kafka-helpers.ts:40-43` says of a handler that throws; a framework that swallowed
the error would only go on to the next message sooner.

### Abstractions

* An erasing transaction and a scan that invalidates are one step each: a row or
  a key that appears while they run counts as before or after.
* `enrollment.upsert` is one statement (`INSERT ... ON CONFLICT`).
* `createdAt` orders placements as their inserts; clocks of instances agree. The
  same for `occurredAt`: a message sent later is the newer one.
* Scores are a few numbers; questions and answers are the verdicts they may get (`passes`).
* Answers to the client are not kept: which status a handler returns is visible
  only in whether it goes on.
* `unit`, `lesson` and the `view` handlers do what `me` does and change nothing.
* An id is a function of kind and slug (UUIDv5), a hash one of the record (SHA-256),
  each taken as one to one: a slug stands for the id and a record for its hash.
* Rows are kept in seed shape; the conversions to columns and back
  (`content-rows.ts`) are what `copyOf` and `read` undo, and keep every field the
  models have. Titles, notes, timestamps and who wrote a row are left out.
* `updateMany` of a table takes its rows in one step; so does the insert of a
  snapshot, seen by nobody before the commit. `createMany` cannot fail by itself.
* One watcher: the instances' watchers are the same process, and `busy` keeps it
  from running twice; a second instance's import is the request `import`.
* Handlers that only report (lists, previews, exports, the validation after a
  write) change nothing and are left out.
* A text that is compared is a sequence of words, spaces and final marks. Limits on
  lengths, the alphabet of slugs and highlights inside sentences are left out.
* The topic of deleted accounts is one partition; pauses between attempts take no
  time; the cache's invalidation after a purge is in `PathProgress`.

## 4. What is proved

TLAPS checks eight modules of proofs. `SequenceProofs` holds the lemmas about data they
share: least and greatest numbers, induction over sets of numbers, and where `FlattenSeq`
puts each element (`FlattenPlaces`, `FlattenPairs`). Where a theorem states a property a
run checks, the run shows it on its instance and the theorem for every value of the
constants the module's assumption allows.

### The learner's path

For all releases, trees, units, lessons and checkpoints that satisfy
`PathAssumption` (`UnlockingProofs`, `LearnerPathProofs`):

* `UnlockingMonotone`: if `a` is no further along than `b` (`NoFurther`), nothing in
  the tree is more locked with `b`. The argument goes through `ClearedMonotone` and
  `OpenMonotone`; the delicate part is the start unit, found by first position.
* `TypeCorrect`: `Spec => []TypeOK`.
* `NothingBeforeEnrollingHolds`: inductive with `TypeOK`, since the blank record has
  every lesson and checkpoint locked (`BlankIsLocked`).
* `WorkNeverRelocksHolds`: every step of `Work` goes further (`WorkGoesFurther`), then
  `UnlockingMonotone`.
* `TotalsNeverDropHolds`: what a total counts before a step it counts after it
  (`TotalsMonotone`), and a finite set that contains another is not smaller. The
  finiteness comes from the tree being sequences of sequences.
* `RetakeNeverRelocksHolds`: while all releases are one (`OneRelease`) a retake goes
  further too. It needs an invariant, `SkippedBehindStart`: every skipped unit is
  before the start unit, or a retake that skips less could lock it. Across releases
  that invariant breaks, and so does the start unit itself (`retake_across_releases`).
* `RetakeKeepsStartHolds`: what `retake_across_releases` refutes holds while the releases
  have the same units in the same order (`SameUnits`), lessons and checkpoints changing
  as they like: a unit then has one place in all of them (`SamePlace`).
* `AdminsSeeTheSameHolds`: by `FlattenPlaces` the units of a tree and their order are one to
  one, so a lesson's place on the admins' page and on the learner's are (`CountedAlike`);
  places are ordered, so each lesson has a position of its own (`PositionsApart`), and
  the one at the furthest position done is the one done last (`LastOfDone`). Proving it
  corrected the property: a first stage without units is named for who has done nothing,
  though nothing of it is open; nothing in the rules of content forbids such a stage.
* `NoDeadEndHolds`: take the first unit not cleared; it is open (`OpenUnitHasNext`), so
  its first lesson not done is offered or its checkpoint can be taken.

### The services on that path

For all of the above, any processes, requests and faults that satisfy the assumptions
of `PathProgress` (`PathProgressProofs`):

* `TypeCorrect`: `Spec => []TypeOK`, through `Typed`, which adds what a process has in
  hand at each await: a view read is a record, a report is one.
* `FirstGradeStandsHolds`: no two results have a request id in common, and what is
  recorded, attempt or placement, is there unchanged after every step but an erasure.
  `OneRowEach` and `OneAttemptEach` are what the unique indexes give. An attempt's insert
  adds a row to those of other ids (`AttemptsStep`); of placements a commit changes only a
  row that was not committed and a crash removes only such a row (`CommittedStep`).

What holds only while some requests do not overlap is stated with that as its
hypothesis, and the hypothesis is one the runs are instances of:

* `SideBySide` (`PathProgressProofs`): nothing is erased (`NoErasure`), and at most one
  process is at a placement, of one release (`OneTestAtATime`). Everything else
  overlaps as it likes, with any faults. Then `ViewsBehindHolds`,
  `ReportedEarnedHolds`, and `RefinesHolds`: the tables change only as `LearnerPath` allows.
  The inductive invariant is `Overlap`: whatever a process has read, at whatever
  await, is behind the rows (`Views`), so by `UnlockingMonotone` what it was allowed to
  write it is still allowed to write; what a placement has in hand is the start unit
  the rows have (`Tests`); and skipped units are before it (`Skips`).
* `OneByOne` (`PathProgressProofs`): one process, no fault. Then
  `CachedViewIsCurrentHolds`, `NothingUnreportedHolds`, `ResendChangesNothingHolds` and,
  with erasures and any releases, `RefinesOneByOne`. The invariant `Alone` says, per
  await, whether the cached view and the last report are current or about to be replaced.

The hypotheses are needed, not convenient: without `NoErasure` a lesson checked before
a reset is written after it; without `OneTestAtATime` two placements overwrite each
other's start unit, or the two releases rank it differently; without `OneByOne` the
runs `stale_view` and `resend_counts_twice` are the counterexamples.

### Releases

For all contents, starts, requests, processes and faults that satisfy
`AuthoringAssumption` (`AuthoringProofs`):

* `RefinesHolds`: `Spec => Refines`, the services implement `ReleaseHistory`. A single
  step of a publish says too little: that its version is the newest, and that the
  items it announces were in an earlier release, it knows from steps before. The
  invariant `Inductive` says what: from reading the copy to the commit a publish
  holds the advisory lock (`Locked`); so nobody else takes a number or stores a
  release between its `CreateRelease` and its `CommitPublish` (`Publishing`); so the
  versions stored increase (`Stored`), and the release compared with is stored
  before the one that is announced for (`Announcing`). `activate` takes no lock, and
  the proof needs none from it: it only chooses among stored releases. All other
  steps leave the release tables alone and have no release in hand (`Quiet`).

`TypeCorrect` and `ReleasesAreWholeHolds` need what the rows are when a publish reads
them, table by table, at READ COMMITTED, with no lock on any row:

* What `buildRelease` makes of one corpus is about data alone (`ReleaseProofs`). A corpus is
  `Publishable` when the schemas and `checkContentRefs` let it through; `BuiltWhole` and
  `BuiltTaughtFirst` say that its release is `Whole` and `TaughtFirst`. `byOrder` is a total
  order on records with distinct slugs (`ByOrderOrders`), so sorting puts each record in
  one place, and `FlattenSeq` of stages, units and lessons keeps those places; the loop of
  `checkContentRefs` that collects what earlier lessons introduced is the union over
  them. `FilesPublishable` is for what the loader returns, `RowsPublishable` for
  rows of the database: there one checkpoint per unit is not checked by
  `checkContentRefs` but comes from the unique index, and is a hypothesis.
* So that hypothesis must hold of what a publish has read. The invariant `Correct` of
  `AuthoringProofs` says it of every table in hand (`Reading`), because it holds of the
  committed rows as every transaction sees them (`Steady`): the rows are `Sound`
  overwritten by what any one transaction has written, and two transactions' rows are
  `Apart`: no slug written by both, no unit given a checkpoint by both. Each half needs the
  other: committing one transaction leaves what the second sees sound only because
  they are apart (`CommitSound`), and a write keeps them apart only because it waits
  for the lock of a row and for an uncommitted entry of the unique index (`Waits`).
* A step of a transaction writes nothing, commits, writes one row or publishes
  rows (`WritesNothing`, `Commits`, `Writes`, `Marks`); each step is shown to be one of the
  four (`StepSteady`), and what a process knows at each await is kept by
  its own steps (`StepFacts`) and by all others (`OthersFacts`), which rests on rows
  being archived and never deleted (`RowsStay`).
* A release is `Good` from `Validate` on: while its rows are marked, when it gets its number
  (`NumberedKeeps`), stored, and activated again (`Holding`, `Served`).

`ReleasesAreWholeHolds` also joins the two halves of the project: what `PathTree` assumes of
the trees learners go along (`TreesWellFormed`: a unit and a lesson are in one place)
is the first conjunct of `Whole`, proved of every release this service can store.

`AuthoringAssumption` says what these hold for: requests name slugs there are; each slug
is of one kind, a kind that has a table; a set of files holds each slug once; and a start
is nothing, or a release loaded from files beside rows with at most one checkpoint for a
unit, each unit in a stage there is; and records are functions of their fields, none of
them the value that stands for no row. The code derives ids from kind and slug, so that
two kinds may share a slug; the models name such records apart.

### The working copy

On top of `Correct`, for the same contents, requests, processes and faults
(`WorkingCopyProofs`), what admins see and what becomes of their edits:

* `EveryRowShownHolds`: the tree is put together from the stages down, so a row is shown
  when its parents are there. `RootedAll` says that they are, in the committed rows and as
  each transaction sees them: a write checks for the row its record points at, as the
  foreign key does, and rows are archived and never deleted. The rest is about data: each
  list of children is the sorted set of them (`RowsBySlug`, by the order of
  `ReleaseProofs`), a unit has one checkpoint by the unique index, and the totals are sums
  over those lists.
* `MoveBackRestoresHolds`: for any siblings, any order of them and any positions with gaps
  (`SiblingsMoveBack`). A reorder hands out the positions the siblings hold, sorted; these
  are the same set afterwards (`SameHeld`), so the second move hands out the same ones in
  the old order. Siblings that share a position get new ones, from one on, and are the
  exception the property names.

The other four are not true of every interleaving, and their theorems say what they ask
of the others, as an assumption about the behaviour (`Spec /\ []Condition => ...`):

* `PublishedRowsAreReleasedHolds`: the newest release has what admins wrote with its
  content (`HoldsRecord`: a lesson's steps and links in order, a dialogue wherever it is
  told, a checkpoint's questions, a unit in the tree) and in its place (`InPlaces`: lessons
  in their unit and units in their stage by position, and the stages by theirs, seen in
  the places of their units, for a release keeps nothing else of them). It holds while no edit and no import is at its commit
  from the publish's lock to its end (`NoCommitWhilePublishing`). The advisory lock
  keeps out other publishes and nothing else: the copy is read table by table and no row is
  locked. The invariant has three parts. What a process has written and not committed is
  PUBLISHED only as untouched seed content, or by the flip, which changes nothing else
  (`Marked`). Who begins has written nothing (`Blank`). What a publish has read is what the
  rows are, table for table, and what it built is the release of it (`Faithful`); with those
  the flip's commit publishes the rows its release was made of. What `buildRelease` makes of
  such rows is shown once, for any corpus (`SnapshotHolds`): by `BuiltHolds` each record is
  told as it is, and by `BuiltInPlaces` in its place; for fewer records, those admins wrote,
  this still holds (`FewerInPlaces`).
* `ImportKeepsEditsHolds` and `UnitImportIsWholeHolds`, while nobody else is at the
  commit of an edit or an import between an import's first read and its own commit
  (`NoCommitWhileImporting`). Publishes may commit meanwhile: they change a row's status,
  which neither the plan nor the hash looks at (`PublishingKeeps`). The invariant
  `Undisturbed` says of every import, wherever it is, that the tables it has read are as the
  rows are (`ReadsOn`), that what it has written or is to write overwrites no edit that is
  not forced (`KeepsEdits`), and that each record of a unit's file is written, was there,
  or is still to be written, unless the file is refused (`Completes`).

* `PointerIsCurrentHolds`, without faults, while no request is at the statement that moves
  the pointer when a reader has loaded it and not stored it yet (`ReadersApart`). Without
  that, or when an invalidation fails, only the 30 seconds of the key help. The invariant
  `PointerKept`: what is cached is active or a process is about to drop it, and what a
  reader is about to store is active.

Others may still read, plan, write without committing, publish, activate, crash and time
out. With one process the conditions hold of every state (`OneProcessAlone`), which is how
the run `content` checks the four; that `ImportKeepsEdits` fails without its condition is
the run `import_overwrites_edit`.

### Deleted accounts in the proofs

For all users and any number of messages and crashes (`UserDeletedProofs`):

* `CommittedMeansPurgedHolds` and `OnlyTheDeletedLoseRowsHolds`: the invariant adds what
  the consumer knows of the message it holds (`Holding`): it names a user while it is
  purged, that user has no row once it is done, and it is among the given up before
  its offset is committed for that. `PurgeDeletesTheUser` is where a named user matters:
  without one the filter would match everything.

### What TLC checks beside the proofs

The inductive invariants (`Inductive`, `Correct`, `Typed`, `OneRowEach`, `Overlap`, `Alone`,
`RootedAll`, `Marked`, `Blank`, `Faithful`, `PointerKept`, `Undisturbed`) were checked with TLC before they
were proved, on the instances of the runs; those of the working copy also with two
processes and every fault, the ones with a condition on the states that meet it.

Only model-checked:

* liveness (`PathCanBeFinished`, `EveryRequestEnds`, `PartitionMovesOn`): fairness and ENABLED are out of the prover's reach;
* `AnswersCanBeGiven` and `PlacementIsFair`: grading folds over answers and over the
  sections of the test, and what a fold computes for every input needs induction over data.

## 5. Not modelled

* Guards, DTO validation, status codes, configuration, health, start-up, the Kafka
  producer's connection and topic creation: no state, or only I/O.
* The counts and series of `admin-learners.service.ts` (`list`, per-day and per-lesson
  numbers): SQL aggregates over rows other components keep.
* The answers of handlers, so the 409 a resend gets after another release was
  activated (`checkpoint.service.ts:151`).
* Computing ids and hashes, reading files, lengths and alphabets of texts.
* What learning-service does with a message.

What could come next: a run in which an edit commits while a publish is at work, once a
text of the repository says what should hold then; and erasures that overlap writes, for
which the same is missing.
