-------------------------------- MODULE Authoring --------------------------------
(***************************************************************************)
(* The working copy and its releases: admin writes                         *)
(* (src/src/admin-path/admin-content.service.ts), the import of one unit   *)
(* file (admin-import.service.ts), the import of the seed                  *)
(* (src/src/content-import/, src/scripts/import-content.ts) and releases   *)
(* (src/src/release/release.service.ts), served at once.                   *)
(*                                                                         *)
(* A process serves one request.  It takes a step per statement or call to *)
(* another service.  Transactions are READ COMMITTED: a statement reads    *)
(* what is committed when it runs, with the transaction's own writes, and  *)
(* waits for a row another transaction has written.  A lesson's steps and  *)
(* item links are in tables of their own, which Prisma's "include" reads   *)
(* with statements of their own.  A record is written by one step: what a  *)
(* transaction writes is seen at its commit.  A statement over a table     *)
(* without rows is left out (Tables), and so is what a handler only reads  *)
(* to answer with, or to name by its slug what it has read by its id.      *)
(***************************************************************************)
EXTENDS ImportPlans, Functions

CONSTANTS
    Process,      \* requests being served at once
    Requests,     \* what is asked for, by name
    MaxRequests,  \* how many requests are received in all
    Seeds,        \* what content/ may hold: corpora, by name
    Starts,       \* what there may be to begin with: [released, copy], seeds by
                  \* name, or "nothing" released
    Tables,       \* the kinds in use, parents before children
    Faults        \* whether requests and calls fail and instances die

Slug == ToSet(Slugs)
RequestName == DOMAIN Requests
AdminWrites == {"create", "update", "archive", "restore", "reorder"}
Operation == AdminWrites \union {"unitImport", "import", "watch", "publish",
                                 "activate", "pointer"}

Asking(operations) == {q \in RequestName : Requests[q].op \in operations}

\* Everything that may be written: what admins send and what files hold.
Corpora == {Seeds[d] : d \in DOMAIN Seeds}
           \union {Requests[q].corpus : q \in Asking({"unitImport", "import"})}
Sources == (UNION Corpora)
           \union {Requests[q].record : q \in Asking({"create", "update"})}

\* Units and lessons have a position, which a reorder hands out anew.
Ordered == {r \in Sources : r.kind \in {"unit", "lesson"} /\ parseAdminRecord(r)}
Positions == {r.order : r \in Ordered} \union 1..Len(Slugs)
Reordered == UNION {{[r EXCEPT !.order = n] : n \in Positions} : r \in Ordered}

\* A lesson whose steps and links were read at different moments has a position,
\* steps and links that were sent, but not together.
LessonSources == {r \in Ordered : r.kind = "lesson"}
lessonOf(l, n, a, b) == [l EXCEPT !.order = n, !.steps = a.steps, !.items = b.items]
Mixed == {lessonOf(l, n, a, b) : l \in LessonSources, n \in Positions,
                                 a \in LessonSources, b \in LessonSources}

\* The records rows can hold, and the rows.
Record == {r \in Sources \union Reordered \union Mixed : parseAdminRecord(r)}
Row == [record : Record, seed : Record \union {None}, status : Statuses]

recordOf(seed, slug) == theOne({r \in Seeds[seed] : r.slug = slug})

\* The seed was imported and published; then admins made the working copy what
\* "copy" is, and archived what is not in it.
Edited(released, copy) ==
    [s \in Slug |->
        LET before == recordOf(released, s)
            now == recordOf(copy, s)
        IN  CASE now = None /\ before = None -> None
              [] now = None /\ before # None ->
                    [record |-> before, seed |-> before, status |-> "ARCHIVED"]
              [] OTHER ->
                    [record |-> now, seed |-> before,
                     status |-> IF now = before THEN "PUBLISHED" ELSE "DRAFT"]]

\* A unit has one checkpoint, archived ones included: the column is unique.
oneCheckpointEach(table) ==
    \A s, t \in Slug :
        /\ table[s] # None /\ table[s].record.kind = "checkpoint"
        /\ table[t] # None /\ table[t].record.kind = "checkpoint"
        /\ table[s].record.unit = table[t].record.unit
        => s = t

\* A record is a function of its fields.  A slug is of one kind.  Files hold what
\* files can hold, and no slug twice.
\* To begin with, what is released was loaded from files, and the rows are such
\* as admins can have left them: the database has the stage of every unit.
ASSUME AuthoringAssumption ==
    /\ \A q \in RequestName : Requests[q].op \in Operation
    /\ \A q \in Asking({"archive", "restore", "reorder"}) : Requests[q].slug \in Slug
    /\ \A q \in Asking({"reorder"}) : Requests[q].slugs \in Seq(Slug)
    /\ Tables \in Seq(Kinds)
    /\ \A i, j \in DOMAIN Tables : Tables[i] = Tables[j] => i = j
    /\ \A r \in Sources :
          /\ r = [field \in DOMAIN r |-> r[field]]
          /\ r.slug \in Slug /\ r.kind \in ToSet(Tables)
    /\ \A a, b \in Sources : a.slug = b.slug => a.kind = b.kind
    /\ \A corpus \in Corpora :
          inFiles(corpus) /\ \A a, b \in corpus : a.slug = b.slug => a = b
    /\ \A start \in Starts :
          /\ start.released \in DOMAIN Seeds \union {"nothing"}
          /\ start.copy \in DOMAIN Seeds
          /\ start.released # "nothing" =>
                /\ loadContent(Seeds[start.released])
                /\ \A r \in Seeds[start.copy] : parseAdminRecord(r)
                /\ \A u \in of(Seeds[start.copy], "unit") :
                      u.stage \in slugsOf(Seeds[start.released] \union Seeds[start.copy],
                                         "stage")
                /\ oneCheckpointEach(Edited(start.released, start.copy))
    /\ None \notin Row /\ None \notin Sources
    /\ Faults \in BOOLEAN /\ MaxRequests \in Nat

VARIABLES
    rows,         \* the working copy: by slug, the committed row or None
    releases,     \* what the published_* tables hold, by release
    version,      \* the last number taken from the sequence of versions
    active,       \* path_state: the version learners read, 0 before the first
    pointer,      \* the cached version, 0 a cached null, None when not cached
    announced,    \* path items retired messages sent
    lock,         \* the process that holds the advisory lock, or None
    disk,         \* which seed content/ holds
    fingerprint,  \* the seed the watcher imported last, None after a start
    received,     \* how many requests were received
    job           \* what each process is doing

vars == <<rows, releases, version, active, pointer, announced, lock, disk,
          fingerprint, received, job>>
releaseRows == <<releases, version, active>>
outside == <<pointer, announced, disk, fingerprint, received>>


\* "todo" holds the writes to come; "seen" the rows read, by slug; "left" the
\* tables still to read; "written" this transaction's rows; "refused" whether
\* an import of a unit met an error; "against" the active version and "built"
\* the release a publish works on.
Idle == [pc |-> "idle", request |-> None, seen |-> None, left |-> <<>>,
         todo |-> <<>>, written |-> <<>>, refused |-> FALSE, against |-> None,
         built |-> None]

Go(p, j) == job' = [job EXCEPT ![p] = j]
At(p, pc) == job[p].pc = pc
End(p) == Go(p, Idle)
Free(p) == lock' = IF lock = p THEN None ELSE lock
request(p) == Requests[job[p].request]
op(p) == request(p).op

\* What a statement of the process sees.
view(p) ==
    [s \in Slug |-> IF s \in DOMAIN job[p].written THEN job[p].written[s]
                    ELSE rows[s]]

\* What a transaction has written, with one more row.
withRow(written, slug, row) ==
    [s \in DOMAIN written \union {slug} |-> IF s = slug THEN row ELSE written[s]]

\* The tables of a lesson's steps and links, read after the lessons.
LessonParts == <<"steps", "items">>

\* A lesson as it was read, with a part that is read now.
withPart(lesson, part, now) ==
    IF part = "steps" THEN [lesson EXCEPT !.steps = now.steps]
    ELSE [lesson EXCEPT !.items = now.items]

copyOf(seen) == {seen[s].record : s \in {t \in Slug : live(seen[t])}}

\* A snapshot with the number its release is stored under.
numbered(snapshot, number) ==
    [k \in DOMAIN snapshot \union {"version"} |->
        IF k = "version" THEN number ELSE snapshot[k]]

Init ==
    /\ \E start \in Starts :
          IF start.released = "nothing"
          THEN /\ rows = [s \in Slug |-> None]
               /\ releases = <<>> /\ version = 0
               /\ disk = start.copy
          ELSE /\ rows = Edited(start.released, start.copy)
               /\ releases = <<numbered(buildRelease(Seeds[start.released]), 1)>>
               /\ version = 1
               /\ disk = start.released
    /\ active = version
    /\ pointer = None
    /\ announced = {}
    /\ lock = None
    /\ fingerprint = None
    /\ received = 0
    /\ job = [p \in Process |-> Idle]

\* Where an operation begins.
firstStep(operation) ==
    CASE operation \in AdminWrites -> "find"
      [] operation \in {"unitImport", "import"} -> "read"
      [] operation = "publish" -> "lock"
      [] OTHER -> operation  \* activate, pointer

\* A body is parsed, and a corpus loaded, before anything is read.
Parses(q) ==
    CASE q.op \in {"create", "update"} -> parseAdminRecord(q.record)
      [] q.op = "unitImport" -> unitFileSchema(q.corpus)
      [] q.op = "import" -> loadContent(q.corpus)
      [] OTHER -> TRUE

\* The tables an import reads first: that of a unit's file has no others.
tablesRead(operation) ==
    IF operation = "unitImport"
    THEN chosen(Tables, {i \in DOMAIN Tables : Tables[i] \notin {"stage", "placement"}})
    ELSE Tables

Receive(p, q) ==
    /\ At(p, "idle")
    /\ received < MaxRequests
    /\ Requests[q].op # "watch"
    /\ Parses(Requests[q])
    /\ received' = received + 1
    /\ Go(p, [Idle EXCEPT
                 !.pc = firstStep(Requests[q].op), !.request = q,
                 !.seen = [s \in Slug |-> None],
                 !.left = tablesRead(Requests[q].op),
                 !.todo = IF Requests[q].op \in {"unitImport", "import"}
                          THEN toSeedRecords(Requests[q].corpus) ELSE <<>>])
    /\ UNCHANGED <<rows, releaseRows, pointer, announced, lock, disk, fingerprint>>

-----------------------------------------------------------------------------
(* Locks.  A row a transaction has written is locked until it ends; so is   *)
(* the unit a checkpoint was written for, unique in its table.              *)

writes(q, slug) == slug \in DOMAIN job[q].written
sameUnit(q, record) ==
    \E s \in DOMAIN job[q].written :
        LET other == job[q].written[s].record
        IN  other.kind = "checkpoint" /\ other.unit = record.unit

lockedBy(q, record) ==
    writes(q, record.slug) \/ (record.kind = "checkpoint" /\ sameUnit(q, record))

target(p) == IF op(p) \in {"create", "update"} THEN request(p).record.slug
             ELSE request(p).slug

drafts(kind) ==
    {s \in Slug : /\ rows[s] # None
                  /\ rows[s].record.kind = kind /\ rows[s].status = "DRAFT"}

\* The process cannot go on before another one ends.
Waits(p) ==
    \E q \in Process \ {p} :
        \/ At(p, "lock") /\ lock = q
        \/ At(p, "write") /\ lockedBy(q, Head(job[p].todo).record)
        \/ At(p, "status") /\ writes(q, target(p))
        \/ At(p, "flip") /\ \E s \in drafts(Head(job[p].left)) : writes(q, s)

-----------------------------------------------------------------------------
(* AdminContentService: find the row the request names.                     *)

FindForCreate(p) ==
    /\ At(p, "find") /\ op(p) = "create"
    /\ IF view(p)[target(p)] = None
       THEN Go(p, [job[p] EXCEPT !.pc = "check",
                                 !.todo = <<Plan("insert", "new", request(p).record)>>])
       ELSE End(p)
    /\ UNCHANGED <<rows, releaseRows, lock, outside>>

\* Saving what is already there changes nothing, not even the status.
FindForUpdate(p) ==
    /\ At(p, "find") /\ op(p) = "update"
    /\ LET row == view(p)[target(p)]
       IN  IF live(row) /\ row.record # request(p).record
           THEN Go(p, [job[p] EXCEPT !.pc = "check",
                                     !.todo = <<Plan("update", "changed", request(p).record)>>])
           ELSE End(p)
    /\ UNCHANGED <<rows, releaseRows, lock, outside>>

childTables(kind) ==
    SelectSeq(Tables, LAMBDA k : \/ kind = "stage" /\ k = "unit"
                                 \/ kind = "unit" /\ k \in ChildKinds)

FindForArchive(p) ==
    /\ At(p, "find") /\ op(p) = "archive"
    /\ LET row == view(p)[target(p)]
           tables == childTables(row.record.kind)
       IN  IF live(row)
           THEN Go(p, [job[p] EXCEPT
                          !.pc = IF tables = <<>> THEN "status" ELSE "empty",
                          !.left = tables])
           ELSE End(p)
    /\ UNCHANGED <<rows, releaseRows, lock, outside>>

FindForRestore(p) ==
    /\ At(p, "find") /\ op(p) = "restore"
    /\ LET row == view(p)[target(p)]
       IN  IF row # None /\ ~live(row)
           THEN Go(p, [job[p] EXCEPT !.pc = "status"]) ELSE End(p)
    /\ UNCHANGED <<rows, releaseRows, lock, outside>>

FindParent(p) ==
    /\ At(p, "find") /\ op(p) = "reorder"
    /\ IF view(p)[target(p)] # None
       THEN Go(p, [job[p] EXCEPT !.pc = "children"]) ELSE End(p)
    /\ UNCHANGED <<rows, releaseRows, lock, outside>>

\* The live rows of a table under a stage or a unit.
under(p, kind, parent) ==
    {s \in Slug :
        LET row == view(p)[s]
        IN  /\ live(row) /\ row.record.kind = kind
            /\ parent = IF kind = "unit" THEN row.record.stage ELSE row.record.unit}

\* requireEmptyStage and requireEmptyUnit: one count per table.
CheckEmpty(p) ==
    /\ At(p, "empty")
    /\ IF under(p, Head(job[p].left), target(p)) # {} THEN End(p)
       ELSE Go(p, [job[p] EXCEPT
                      !.pc = IF Tail(job[p].left) = <<>> THEN "status" ELSE "empty",
                      !.left = Tail(job[p].left)])
    /\ UNCHANGED <<rows, releaseRows, lock, outside>>

SetStatus(p) ==
    /\ At(p, "status") /\ ~Waits(p)
    /\ LET status == IF op(p) = "archive" THEN "ARCHIVED" ELSE "DRAFT"
           row == [view(p)[target(p)] EXCEPT !.status = status]
       IN  Go(p, [job[p] EXCEPT !.pc = "commit",
                                !.written = withRow(@, target(p), row)])
    /\ UNCHANGED <<rows, releaseRows, lock, outside>>

\* A stage's units or a unit's lessons.
FindChildren(p) ==
    /\ At(p, "children")
    /\ LET kind == IF view(p)[target(p)].record.kind = "stage" THEN "unit" ELSE "lesson"
           slugs == request(p).slugs
       IN  \E current \in {{view(p)[s].record : s \in under(p, kind, target(p))}} :
              IF ~reorderOk(current, slugs) THEN End(p)
              ELSE \E moves \in {planReorder(current, slugs)} :
                      Go(p, [job[p] EXCEPT
                                !.pc = IF moves = <<>> THEN "commit" ELSE "reread",
                                !.todo = moves])
    /\ UNCHANGED <<rows, releaseRows, lock, outside>>

\* A row in its seed shape, whatever its status.
read(p, slug) == view(p)[slug].record

\* The row is read again, whatever became of it, and rewritten whole.
Reread(p) ==
    /\ At(p, "reread")
    /\ LET move == Head(job[p].todo)
           record == [read(p, move.slug) EXCEPT !.order = move.order]
       IN  Go(p, [job[p] EXCEPT
                     !.pc = IF record.kind = "lesson" THEN "rereadParts" ELSE "write",
                     !.left = LessonParts,
                     !.todo[1] = Plan("update", "moved", record)])
    /\ UNCHANGED <<rows, releaseRows, lock, outside>>

RereadPart(p) ==
    /\ At(p, "rereadParts")
    /\ LET lesson == Head(job[p].todo).record
           record == withPart(lesson, Head(job[p].left), read(p, lesson.slug))
       IN  Go(p, [job[p] EXCEPT
                     !.pc = IF Tail(job[p].left) = <<>> THEN "write" ELSE "rereadParts",
                     !.left = Tail(@),
                     !.todo[1] = Plan("update", "moved", record)])
    /\ UNCHANGED <<rows, releaseRows, lock, outside>>

-----------------------------------------------------------------------------
(* checkReferences, and the write.                                          *)

\* The row of a table with a slug, or None.
rowIn(p, kind, slug) ==
    theOne({view(p)[s] : s \in {t \in Slug \intersect {slug} :
        view(p)[t] # None /\ view(p)[t].record.kind = kind}})

\* The first write still to do and the step it begins with.
nextStep(p, todo) ==
    CASE todo = <<>> -> "commit"
      [] todo # <<>> /\ op(p) = "reorder" -> "reread"
      [] todo # <<>> /\ op(p) = "unitImport" -> "check"
      [] OTHER -> "write"

\* An admin write is refused; an import of a unit notes it and goes on.
Refuse(p) ==
    LET rest == Tail(job[p].todo)
    IN  IF op(p) = "unitImport"
        THEN Go(p, [job[p] EXCEPT !.refused = TRUE, !.todo = rest,
                                  !.pc = nextStep(p, rest)])
        ELSE End(p)

CheckParent(p) ==
    /\ At(p, "check")
    /\ LET record == Head(job[p].todo).record
           found == CASE record.kind = "stage" -> TRUE
                      [] record.kind = "unit" -> live(rowIn(p, "stage", record.stage))
                      [] record.kind = "placement" ->
                            \A s \in Slug \ {record.slug} :
                                LET row == view(p)[s]
                                IN  live(row) => row.record.kind # "placement"
                      [] OTHER -> live(rowIn(p, "unit", record.unit))
           next == IF record.kind \in {"lesson", "checkpoint"}
                   THEN "checkOthers" ELSE "write"
       IN  IF found THEN Go(p, [job[p] EXCEPT !.pc = next]) ELSE Refuse(p)
    /\ UNCHANGED <<rows, releaseRows, lock, outside>>

\* Another checkpoint of the unit counts even when it is archived.
otherCheckpoint(p, record) ==
    \E s \in Slug \ {record.slug} :
        LET row == view(p)[s]
        IN  /\ row # None
            /\ row.record.kind = "checkpoint" /\ row.record.unit = record.unit

CheckOthers(p) ==
    /\ At(p, "checkOthers")
    /\ LET record == Head(job[p].todo).record
           found == IF record.kind = "lesson"
                    THEN \A s \in linked(record) : live(rowIn(p, "item", s))
                    ELSE ~otherCheckpoint(p, record)
       IN  IF found THEN Go(p, [job[p] EXCEPT !.pc = "write"]) ELSE Refuse(p)
    /\ UNCHANGED <<rows, releaseRows, lock, outside>>

\* Mutant: a unit may have two checkpoints.
dbAcceptsAnyCheckpoint(p, entry) ==
    LET record == entry.record
        there(kind, s) == rowIn(p, kind, s) # None
    IN  /\ entry.action = "insert" => ~there(record.kind, record.slug)
        /\ record.kind \in ChildKinds => there("unit", record.unit)
        /\ record.kind = "unit" => there("stage", record.stage)
        /\ record.kind = "lesson" =>
              /\ Cardinality(linked(record)) = Len(record.items)
              /\ \A s \in linked(record) : there("item", s)

\* What the schema of the database lets in: slugs, a unit's checkpoint and a
\* lesson's links are unique, what a row points at is there.
dbAccepts(p, entry) ==
    LET record == entry.record
        there(kind, s) == rowIn(p, kind, s) # None
    IN  /\ entry.action = "insert" => ~there(record.kind, record.slug)
        /\ record.kind \in ChildKinds => there("unit", record.unit)
        /\ record.kind = "unit" => there("stage", record.stage)
        /\ record.kind = "lesson" =>
              /\ Cardinality(linked(record)) = Len(record.items)
              /\ \A s \in linked(record) : there("item", s)
        /\ record.kind = "checkpoint" => ~otherCheckpoint(p, record)

\* Mutant: a row keeps its status when an admin writes it.
writeRecordKeepsStatus(p, record) ==
    LET row == view(p)[record.slug]
        importer == op(p) \in {"import", "watch"}
    IN  [record |-> record,
         seed |-> IF importer THEN record
                  ELSE IF row = None THEN None ELSE row.seed,
         status |-> IF row # None THEN row.status ELSE "DRAFT"]

\* The importer stamps its seed and keeps a row's status; an admin's write keeps
\* the seed and makes the row a draft.
writeRecord(p, record) ==
    LET row == view(p)[record.slug]
        importer == op(p) \in {"import", "watch"}
    IN  [record |-> record,
         seed |-> IF importer THEN record
                  ELSE IF row = None THEN None ELSE row.seed,
         status |-> IF importer /\ row # None THEN row.status ELSE "DRAFT"]

Write(p) ==
    /\ At(p, "write") /\ ~Waits(p)
    /\ LET entry == Head(job[p].todo)
           rest == Tail(job[p].todo)
           row == writeRecord(p, entry.record)
       IN  IF dbAccepts(p, entry)
           THEN Go(p, [job[p] EXCEPT
                          !.written = withRow(@, entry.record.slug, row),
                          !.todo = rest, !.pc = nextStep(p, rest)])
           ELSE End(p)
    /\ UNCHANGED <<rows, releaseRows, lock, outside>>

-----------------------------------------------------------------------------
(* What an import and a publish read.  "seen" is what the tables held when  *)
(* each was read.  An import reads hashes, which are in the lesson's row; a *)
(* publish goes on to the lesson's other tables.                            *)

ReadTable(p) ==
    /\ At(p, "read") \/ At(p, "copy")
    /\ job[p].left # <<>> /\ Head(job[p].left) \notin ToSet(LessonParts)
    /\ LET table == Head(job[p].left)
           inTable(s) == view(p)[s] # None /\ view(p)[s].record.kind = table
       IN  Go(p, [job[p] EXCEPT
                     !.seen = [s \in Slug |-> IF inTable(s) THEN view(p)[s] ELSE @[s]],
                     !.left = IF At(p, "copy") /\ table = "lesson"
                              THEN LessonParts \o Tail(@) ELSE Tail(@)])
    /\ UNCHANGED <<rows, releaseRows, lock, outside>>

\* The steps, or the links, of the lessons that were read.
ReadPart(p) ==
    /\ At(p, "copy")
    /\ job[p].left # <<>> /\ Head(job[p].left) \in ToSet(LessonParts)
    /\ LET part == Head(job[p].left)
           was == job[p].seen
           isLesson(s) == was[s] # None /\ was[s].record.kind = "lesson"
       IN  Go(p, [job[p] EXCEPT
                     !.seen = [s \in Slug |->
                         IF isLesson(s)
                         THEN [was[s] EXCEPT
                                  !.record = withPart(@, part, view(p)[s].record)]
                         ELSE was[s]],
                     !.left = Tail(@)])
    /\ UNCHANGED <<rows, releaseRows, lock, outside>>

\* Every record of the file is an insert, an update, or nothing to do; one that
\* conflicts refuses the whole file.
PlanUnitImport(p) ==
    /\ At(p, "read") /\ job[p].left = <<>> /\ op(p) = "unitImport"
    /\ LET plan == planAdminImport(job[p].todo, job[p].seen)
           todo == changes(plan)
       IN  Go(p, [job[p] EXCEPT
                     !.todo = todo, !.seen = None, !.pc = nextStep(p, todo),
                     !.refused = \E i \in DOMAIN plan : plan[i].action = "conflict"])
    /\ UNCHANGED <<rows, releaseRows, lock, outside>>

\* A dry run plans only.
PlanImport(p) ==
    /\ At(p, "read") /\ job[p].left = <<>> /\ op(p) \in {"import", "watch"}
    /\ LET todo == changes(planImport(job[p].todo, job[p].seen, request(p).force))
       IN  IF request(p).dryRun THEN End(p)
           ELSE Go(p, [job[p] EXCEPT !.todo = todo, !.seen = None,
                                     !.pc = nextStep(p, todo)])
    /\ UNCHANGED <<rows, releaseRows, lock, outside>>

\* checkForChanges: the fingerprint is taken before the files are read.
CheckForChanges(p, q) ==
    /\ At(p, "idle") /\ Requests[q].op = "watch"
    /\ received < MaxRequests
    /\ ~\E o \in Process : ~At(o, "idle") /\ op(o) = "watch"  \* busy
    /\ fingerprint # disk
    /\ fingerprint' = disk
    /\ received' = received + 1
    /\ Go(p, [Idle EXCEPT !.pc = "load", !.request = q])
    /\ UNCHANGED <<rows, releaseRows, pointer, announced, lock, disk>>

LoadContent(p) ==
    /\ At(p, "load")
    /\ IF loadContent(Seeds[disk])
       THEN Go(p, [job[p] EXCEPT !.pc = "read", !.left = Tables,
                                 !.seen = [s \in Slug |-> None],
                                 !.todo = toSeedRecords(Seeds[disk])])
       ELSE End(p)
    /\ UNCHANGED <<rows, releaseRows, lock, outside>>

\* What comes after the commit: an import may go on to publish, the watcher does
\* when something changed, and otherwise looks whether there is any release.
afterCommit(p) ==
    CASE op(p) = "import" /\ request(p).publish -> "lock"
      [] op(p) = "watch" /\ job[p].written # <<>> -> "lock"
      [] op(p) = "watch" /\ job[p].written = <<>> -> "pointer"
      [] OTHER -> "idle"

\* Mutant: a file with an error has its other records written.
CommitPart(p) ==
    /\ At(p, "commit")
    /\ rows' = view(p)
    /\ IF afterCommit(p) = "idle" THEN End(p)
       ELSE Go(p, [Idle EXCEPT !.pc = afterCommit(p), !.request = job[p].request])
    /\ UNCHANGED <<releaseRows, lock, outside>>

\* A dry run, or an import of a unit that met an error, is rolled back.
Commit(p) ==
    /\ At(p, "commit")
    /\ IF op(p) = "unitImport" /\ (job[p].refused \/ request(p).dryRun)
       THEN UNCHANGED rows
       ELSE rows' = view(p)
    /\ IF afterCommit(p) = "idle" THEN End(p)
       ELSE Go(p, [Idle EXCEPT !.pc = afterCommit(p), !.request = job[p].request])
    /\ UNCHANGED <<releaseRows, lock, outside>>

-----------------------------------------------------------------------------
(* ReleaseService.publish.                                                  *)

\* Mutant: publishing does not wait for another publish.
TakeNoLock(p) ==
    /\ At(p, "lock")
    /\ lock' = lock
    /\ Go(p, [job[p] EXCEPT !.pc = "copy", !.left = Tables,
                            !.seen = [s \in Slug |-> None]])
    /\ UNCHANGED <<rows, releaseRows, outside>>

\* pg_advisory_xact_lock, held until the transaction ends.
TakeLock(p) ==
    /\ At(p, "lock") /\ ~Waits(p)
    /\ lock' = p
    /\ Go(p, [job[p] EXCEPT !.pc = "copy", !.left = Tables,
                            !.seen = [s \in Slug |-> None]])
    /\ UNCHANGED <<rows, releaseRows, outside>>

storedAs(v) == theOne({releases[i] : i \in {k \in DOMAIN releases :
                                              releases[k].version = v}})

\* The working copy is there (ReadTable): validate it, build the snapshot, and
\* read what learners have, to tell which items they lose.
Validate(p) ==
    /\ At(p, "copy") /\ job[p].left = <<>>
    /\ \E copy \in {copyOf(job[p].seen)} :
          IF rowsToCorpus(copy)
          THEN /\ Go(p, [job[p] EXCEPT !.pc = "flip", !.left = Tables, !.seen = None,
                                       !.built = buildRelease(corpusOf(copy)),
                                       !.against = active])
               /\ UNCHANGED lock
          ELSE End(p) /\ Free(p)
    /\ UNCHANGED <<rows, releaseRows, outside>>

\* updateMany: drafts become published, one table after the other.
Flip(p) ==
    /\ At(p, "flip") /\ ~Waits(p)
    /\ LET kind == Head(job[p].left)
           rest == Tail(job[p].left)
           flipped(written) ==
               [s \in DOMAIN written \union drafts(kind) |->
                   IF s \in drafts(kind) THEN [rows[s] EXCEPT !.status = "PUBLISHED"]
                   ELSE written[s]]
       IN  Go(p, [job[p] EXCEPT !.written = flipped(@), !.left = rest,
                                !.pc = IF rest = <<>> THEN "create" ELSE "flip"])
    /\ UNCHANGED <<rows, releaseRows, lock, outside>>

\* A number taken from the sequence is gone even if the transaction rolls back.
CreateRelease(p) ==
    /\ At(p, "create")
    /\ version' = version + 1
    /\ Go(p, [job[p] EXCEPT !.pc = "point",
                            !.built = numbered(@, version + 1)])
    /\ UNCHANGED <<rows, releases, active, lock, outside>>

\* Mutant: only activate drops the cached pointer.
CommitPublishOnly(p) ==
    /\ At(p, "point")
    /\ rows' = view(p)
    /\ releases' = Append(releases, job[p].built)
    /\ active' = job[p].built.version
    /\ Free(p) /\ End(p)
    /\ UNCHANGED <<version, outside>>

\* The snapshot is stored, the pointer upserted, and the transaction commits.
CommitPublish(p) ==
    /\ At(p, "point")
    /\ rows' = view(p)
    /\ releases' = Append(releases, job[p].built)
    /\ active' = job[p].built.version
    /\ Free(p)
    /\ Go(p, [job[p] EXCEPT !.pc = "drop", !.written = <<>>])
    /\ UNCHANGED <<version, outside>>

retired(p) ==
    IF job[p].built = None \/ job[p].against = 0 THEN {}
    ELSE retiredItemIds(itemIds(storedAs(job[p].against)), itemIds(job[p].built))

\* Any stored release can be made active; no lock is taken.
Activate(p) ==
    /\ At(p, "activate")
    /\ \E i \in DOMAIN releases : active' = releases[i].version
    /\ Go(p, [job[p] EXCEPT !.pc = "drop"])
    /\ UNCHANGED <<rows, releases, version, lock, outside>>

\* No release yet: 404.
ActivateNone(p) ==
    /\ At(p, "activate") /\ releases = <<>>
    /\ End(p)
    /\ UNCHANGED <<rows, releaseRows, lock, outside>>

\* delGlobal swallows its errors.
DropPointer(p) ==
    /\ At(p, "drop")
    /\ \/ pointer' = None
       \/ Faults /\ UNCHANGED pointer
    /\ IF retired(p) = {} THEN End(p) ELSE Go(p, [job[p] EXCEPT !.pc = "send"])
    /\ UNCHANGED <<rows, releaseRows, announced, lock, disk, fingerprint, received>>

\* In batches: with a fault, some of them arrive.
SendRetired(p) ==
    /\ At(p, "send")
    /\ \E sent \in IF Faults THEN SUBSET retired(p) ELSE {retired(p)} :
          announced' = announced \union
                           {[version |-> job[p].built.version, items |-> sent]}
    /\ End(p)
    /\ UNCHANGED <<rows, releaseRows, pointer, lock, disk, fingerprint, received>>

-----------------------------------------------------------------------------
(* activeRelease, through the cache: for a learner, or for the watcher,     *)
(* which publishes when there is no release.                                *)

Decide(p, found) ==
    IF op(p) = "watch" /\ found = 0
    THEN Go(p, [Idle EXCEPT !.pc = "lock", !.request = job[p].request])
    ELSE End(p)

PointerHit(p) ==
    /\ At(p, "pointer") /\ pointer # None
    /\ Decide(p, pointer)
    /\ UNCHANGED <<rows, releaseRows, lock, outside>>

\* Nothing cached, or the cache cannot be read: load it.
PointerMiss(p) ==
    /\ At(p, "pointer") /\ (pointer = None \/ Faults)
    /\ Go(p, [job[p] EXCEPT !.pc = "fill", !.against = active])
    /\ UNCHANGED <<rows, releaseRows, lock, outside>>

\* A null is cached like a release.
FillPointer(p) ==
    /\ At(p, "fill")
    /\ \/ pointer' = job[p].against
       \/ Faults /\ UNCHANGED pointer
    /\ Decide(p, job[p].against)
    /\ UNCHANGED <<rows, releaseRows, announced, lock, disk, fingerprint, received>>

\* The pointer lives 30 seconds.
Expire ==
    /\ pointer # None /\ pointer' = None
    /\ UNCHANGED <<rows, releaseRows, announced, lock, disk, fingerprint, received, job>>

-----------------------------------------------------------------------------
(* What happens to the service.                                             *)

\* A file under content/ is saved.
SaveContent ==
    /\ received < MaxRequests /\ received' = received + 1
    /\ disk' \in DOMAIN Seeds \ {disk}
    /\ UNCHANGED <<rows, releaseRows, pointer, announced, lock, fingerprint, job>>

\* The request ends here, and with it its transaction: an error, or the instance
\* dies.  An instance that starts again knows no fingerprint.
Stop(p) ==
    /\ Faults /\ ~At(p, "idle")
    /\ End(p) /\ Free(p)
    /\ fingerprint' \in {fingerprint} \union (IF op(p) = "watch" THEN {None} ELSE {})
    /\ UNCHANGED <<rows, releaseRows, pointer, announced, disk, received>>

\* Mutant: a transaction that waits is never given up.
TimeOutNever(p) == Waits(p) /\ Faults /\ UNCHANGED vars

\* A transaction that waits is given up: at its timeout, or to end a deadlock.
TimeOut(p) ==
    /\ Waits(p)
    /\ End(p) /\ Free(p)
    /\ UNCHANGED <<rows, releaseRows, outside>>

Step(p) ==
    \/ FindForCreate(p) \/ FindForUpdate(p) \/ FindForArchive(p)
    \/ FindForRestore(p) \/ FindParent(p) \/ CheckEmpty(p) \/ SetStatus(p)
    \/ FindChildren(p) \/ Reread(p) \/ RereadPart(p) \/ CheckParent(p)
    \/ CheckOthers(p) \/ Write(p) \/ ReadTable(p) \/ ReadPart(p)
    \/ PlanUnitImport(p) \/ PlanImport(p) \/ LoadContent(p) \/ Commit(p)
    \/ TakeLock(p) \/ Validate(p) \/ Flip(p) \/ CreateRelease(p)
    \/ CommitPublish(p) \/ Activate(p) \/ ActivateNone(p) \/ DropPointer(p)
    \/ SendRetired(p) \/ PointerHit(p) \/ PointerMiss(p) \/ FillPointer(p)

Next ==
    \/ \E p \in Process :
          \/ \E q \in RequestName : Receive(p, q) \/ CheckForChanges(p, q)
          \/ Step(p) \/ TimeOut(p) \/ Stop(p)
    \/ Expire
    \/ SaveContent

\* A handler goes on, and a transaction that waits is given up in the end.
\* Nobody has to ask for anything, nothing has to fail.
Fairness == \A p \in Process : WF_vars(Step(p)) /\ WF_vars(TimeOut(p))

Spec == Init /\ [][Next]_vars /\ Fairness

-----------------------------------------------------------------------------
(* Properties.                                                              *)

\* Every row of the tables, and every row a transaction has written, holds a
\* record in the shape its schema asks for, under its slug: no write gets around
\* parseAdminRecord or the loader, so a row that is reread for a reorder always
\* parses.
TypeOK ==
    /\ rows \in [Slug -> Row \union {None}]
    /\ \A s \in Slug : rows[s] # None => rows[s].record.slug = s
    /\ \A p \in Process :
          /\ DOMAIN job[p].written \subseteq Slug
          /\ \A s \in DOMAIN job[p].written :
                job[p].written[s] \in Row /\ job[p].written[s].record.slug = s
    /\ \A i \in DOMAIN releases : releases[i].version \in 1..version
    /\ active \in 0..version /\ pointer \in 0..version \union {None}
    /\ lock \in Process \union {None} /\ received \in 0..MaxRequests
    /\ disk \in DOMAIN Seeds /\ fingerprint \in DOMAIN Seeds \union {None}

\* Whatever admins and imports do to the working copy meanwhile, and although a
\* publish reads it table by table, what it stores is whole: every lesson and
\* checkpoint of the tree is stored where the tree has it, with the items it
\* uses, and a learner is taught an item before a step uses it.
ReleasesAreWhole ==
    \A i \in DOMAIN releases : Whole(releases[i]) /\ TaughtFirst(releases[i])

\* Releases only ever grow, in the order of their versions, learners are moved
\* to a release in the step that stores it, and learning-service hears of
\* retired items only for a stored release that lacks them (ReleaseHistory).
History == INSTANCE ReleaseHistory WITH
    history <- [i \in DOMAIN releases |->
                   [version |-> releases[i].version, items |-> itemIds(releases[i])]],
    active <- active,
    announced <- announced
Refines == History!Init /\ [][History!Next]_History!vars

\* Every request ends, also when two transactions wait for each other's rows or
\* for the advisory lock.
EveryRequestEnds == \A p \in Process : ~At(p, "idle") ~> At(p, "idle")

\* "Writes invalidate; TTL is a safety net" (cache-ttl.ts:10): when no request is
\* running, nobody is served a release that is no longer active, or told of none
\* when there is one.  It holds without faults when no reader overlaps with what
\* it reads; a reader that loaded the pointer before an activation can put the
\* old one back after it.
PointerIsCurrent ==
    (\A p \in Process : At(p, "idle")) => pointer \in {None, active}

\* The importer keeps what an admin edited: a row whose content is not what the
\* last import wrote keeps its content, but for a forced slug.
ImportKeepsEdits ==
    [][\A p \in Process, s \in Slug :
          /\ At(p, "commit") /\ job'[p] # job[p] /\ op(p) \in {"import", "watch"}
          /\ rows[s] # None /\ adminEdited(rows[s])
          /\ s \notin request(p).force
          => rows'[s] = rows[s] \/ (rows'[s].record = rows[s].record)]_rows

\* The import of a unit is all or nothing: when it changes anything, every
\* record of the file is in a live row just as the file has it.
UnitImportIsWhole ==
    [][\A p \in Process :
          At(p, "commit") /\ job'[p] # job[p] /\ op(p) = "unitImport" =>
              \A record \in request(p).corpus :
                  live(rows'[record.slug]) /\ rows'[record.slug].record = record]_rows

\* What admins wrote, in rows that are published: not what the last import wrote.
publishedEdits ==
    {rows[s].record : s \in {t \in Slug : /\ rows[t] # None
                                          /\ rows[t].status = "PUBLISHED"
                                          /\ adminEdited(rows[t])}}

\* "PUBLISHED" on a row that an admin wrote is true: the newest release has it
\* with that content (HoldsRecord), and among other such rows in the place its
\* position and its stage give it (InPlaces).  A checkpoint whose unit is archived
\* is the exception: it is marked and in no release.
PublishedRowsAreReleased ==
    LET last == releases[Len(releases)]
    IN  /\ \A record \in publishedEdits : HoldsRecord(last, record)
        /\ InPlaces(last, publishedEdits)

\* The rows of one parent after a move to a list of their slugs.
moved(current, asked) ==
    {[r EXCEPT !.order = newOrder(current, asked)[
          CHOOSE i \in DOMAIN asked : asked[i] = r.slug]] : r \in current}

\* Their slugs, in the order they have.
slugsInOrder(current) ==
    LET now == sorted(current, byOrder) IN [i \in DOMAIN now |-> now[i].slug]

\* Moving rows and moving them back restores every position, and with it every
\* hash, unless two rows share a position.
MoveBackRestores ==
    \A parent \in Slug :
        LET kind == IF rows[parent].record.kind = "stage" THEN "unit" ELSE "lesson"
            siblings == {r \in {rows[s].record : s \in {t \in Slug : live(rows[t])}} :
                            /\ r.kind = kind
                            /\ parent = IF kind = "unit" THEN r.stage ELSE r.unit}
            slugs == slugsInOrder(siblings)
        IN  /\ rows[parent] # None
            /\ rows[parent].record.kind \in {"stage", "unit"}
            /\ Cardinality({r.order : r \in siblings}) = Cardinality(siblings)
            => \A f \in Bijection(DOMAIN slugs, DOMAIN slugs) :
                   moved(moved(siblings, [i \in DOMAIN slugs |-> slugs[f[i]]]), slugs)
                       = siblings
=============================================================================
