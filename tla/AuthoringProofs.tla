--------------------------- MODULE AuthoringProofs ---------------------------
(***************************************************************************)
(* What Authoring promises for every content, every set of requests and    *)
(* any number of processes: releases follow ReleaseHistory, and every      *)
(* release is whole and teaches each item before it is used.               *)
(*                                                                         *)
(* A step of a publish is one of ReleaseHistory only because of what the   *)
(* process knows from earlier steps, hence the invariant Inductive: from   *)
(* its reading of the working copy to its commit a publish holds the       *)
(* advisory lock (Locked), so that nobody else takes a number or stores a  *)
(* release between its number and its commit (Publishing); the versions    *)
(* stored therefore only grow (Stored), and the release a publish compares *)
(* with is stored before its own (Announcing).                             *)
(*                                                                         *)
(* That the release is whole takes what the rows are when a publish reads  *)
(* them, table by table, while others write, hence the invariant Correct.  *)
(* The rows are Sound as every transaction sees them, and what two         *)
(* transactions have written is Apart, because a row is locked by the one  *)
(* that wrote it and the unique index waits for both (Steady). Each table  *)
(* is read once, so that what is in hand is Sound too (Reading), whatever  *)
(* was committed between two tables; that they fit is checked on what was  *)
(* read. What is left to write are records, or moves of rows that are      *)
(* there, for rows never go away (Writing, Marking). A release is Good     *)
(* when it is built and stays so in the job, in the database and when it   *)
(* is activated again (Holding, Served). The theorems of ReleaseProofs say *)
(* what buildRelease makes of records that were let through.               *)
(***************************************************************************)
EXTENDS Authoring, ReleaseProofs

LockedSteps == {"copy", "flip", "create", "point"}

\* The fields of a job the argument reads.
JobTyped ==
    /\ DOMAIN job = Process
    /\ \A p \in Process : {"pc", "built", "against"} \subseteq DOMAIN job[p]

StoredVersion(v) == \E i \in DOMAIN releases : releases[i].version = v

\* Releases are in the order of their versions, each taken from the sequence.
Stored ==
    /\ \E S : releases \in Seq(S)
    /\ version \in Nat
    /\ \A i \in DOMAIN releases : releases[i].version \in 0..version
    /\ \A i, k \in DOMAIN releases :
          i < k => releases[i].version < releases[k].version
    /\ active = 0 \/ StoredVersion(active)

Locked == \A p \in Process : job[p].pc \in LockedSteps => lock = p

\* What a publish has in hand, from the working copy it read to its commit.
Publishing ==
    \A p \in Process :
        /\ job[p].built # None =>
              job[p].pc \in {"flip", "create", "point", "drop", "send"}
        /\ job[p].pc \in {"flip", "create", "point"} =>
              job[p].against = 0 \/ StoredVersion(job[p].against)
        /\ job[p].pc = "point" =>
              /\ job[p].built.version = version
              /\ \A i \in DOMAIN releases : releases[i].version < version

\* What a publish compares, once it has committed.
Compared(p, i) ==
    /\ releases[i] = job[p].built
    /\ job[p].against = 0
       \/ \E had \in 1..(i - 1) : releases[had].version = job[p].against
Announcing ==
    \A p \in Process :
        /\ job[p].pc \in {"drop", "send"} /\ job[p].built # None =>
              \E i \in DOMAIN releases : Compared(p, i)
        /\ job[p].pc = "send" => job[p].built # None /\ job[p].against # 0

Inductive == JobTyped /\ Stored /\ Locked /\ Publishing /\ Announcing

-----------------------------------------------------------------------------
(* Steps that have nothing to do with the release in hand.                  *)

\* The process ends, or goes on with no release built.
QuietJob(p) ==
    /\ DOMAIN job' = Process
    /\ \A q \in Process \ {p} : job'[q] = job[q]
    /\ {"pc", "built", "against"} \subseteq DOMAIN job'[p]
    /\ job'[p].built = None
    /\ job'[p].pc \notin {"flip", "create", "point", "send"}
    /\ job'[p].pc = "copy" => lock' = p

\* Nobody else's lock is taken away.
OthersKeepLock(p) == \A q \in Process \ {p} : lock = q => lock' = q

\* A step of a process changes its own job only.
LEMMA GoEffect ==
    ASSUME JobTyped, NEW p \in Process, NEW j, Go(p, j)
    PROVE  /\ DOMAIN job' = Process /\ job'[p] = j
           /\ \A q \in Process \ {p} : job'[q] = job[q]
  BY DEF JobTyped, Go

\* Going on with a job that has no release built.
LEMMA GoIsQuiet ==
    ASSUME JobTyped, NEW p \in Process, NEW j, Go(p, j),
           {"pc", "built", "against"} \subseteq DOMAIN j, j.built = None,
           j.pc \notin {"copy", "flip", "create", "point", "send"}
    PROVE  QuietJob(p)
  BY GoEffect DEF QuietJob

\* A request that ends has none.
LEMMA EndIsQuiet ==
    ASSUME JobTyped, NEW p \in Process, End(p)
    PROVE  QuietJob(p)
  BY GoIsQuiet DEF End, Idle

\* Going on keeps the invariant as long as releases and versions stay.
LEMMA QuietKeeps ==
    ASSUME Inductive, NEW p \in Process, QuietJob(p), OthersKeepLock(p),
           UNCHANGED <<releases, version>>,
           active' = active \/ StoredVersion(active')
    PROVE  Inductive'
  <1> USE DEF Inductive
  <1>1. JobTyped'
    BY DEF JobTyped, QuietJob
  <1>2. Stored'
    BY DEF Stored, StoredVersion
  <1>3. Locked'
    BY DEF Locked, QuietJob, OthersKeepLock, LockedSteps
  <1>4. Publishing'
    BY DEF Publishing, QuietJob, StoredVersion
  <1>5. Announcing'
    BY DEF Announcing, Compared, QuietJob
  <1> QED BY <1>1, <1>2, <1>3, <1>4, <1>5

-----------------------------------------------------------------------------

\* The steps of a write.
LEMMA NextStepIsQuiet ==
    ASSUME NEW p, NEW todo
    PROVE  nextStep(p, todo) \in {"commit", "reread", "check", "write"}
  BY DEF nextStep

\* What follows the commit of a write.
LEMMA AfterCommitIsQuiet ==
    ASSUME NEW p
    PROVE  afterCommit(p) \in {"lock", "pointer", "idle"}
  BY DEF afterCommit

\* Where an operation begins.
LEMMA FirstStepIsQuiet ==
    ASSUME NEW q \in RequestName, Requests[q].op # "watch"
    PROVE  firstStep(Requests[q].op) \in {"find", "read", "lock", "activate", "pointer"}
  BY AuthoringAssumption DEF firstStep, Operation, AdminWrites

\* Whatever starts, reads, writes the working copy or the cache, or ends.
Quiet(p) ==
    \/ \E q \in RequestName : Receive(p, q) \/ CheckForChanges(p, q)
    \/ FindForCreate(p) \/ FindForUpdate(p) \/ FindForArchive(p)
    \/ FindForRestore(p) \/ FindParent(p) \/ CheckEmpty(p) \/ SetStatus(p)
    \/ FindChildren(p) \/ Reread(p) \/ RereadPart(p) \/ CheckParent(p)
    \/ CheckOthers(p) \/ Write(p) \/ ReadTable(p) \/ ReadPart(p)
    \/ PlanUnitImport(p) \/ PlanImport(p)
    \/ LoadContent(p) \/ Commit(p) \/ TakeLock(p) \/ ActivateNone(p)
    \/ PointerHit(p) \/ PointerMiss(p) \/ FillPointer(p) \/ TimeOut(p) \/ Stop(p)

\* The release tables and what was announced stay, and the lock is not another
\* process's to give back.
LEMMA QuietLeavesReleases ==
    ASSUME NEW p \in Process, Quiet(p)
    PROVE  /\ OthersKeepLock(p)
           /\ UNCHANGED <<releases, version, active, announced>>
  <1> USE DEF OthersKeepLock, releaseRows, outside
  <1>1. ASSUME NEW q \in RequestName, Receive(p, q) \/ CheckForChanges(p, q)
        PROVE  UNCHANGED <<releases, version, active, announced, lock>>
    BY <1>1 DEF Receive, CheckForChanges
  <1>2. CASE \/ FindForCreate(p) \/ FindForUpdate(p) \/ FindForArchive(p)
             \/ FindForRestore(p) \/ FindParent(p) \/ CheckEmpty(p) \/ SetStatus(p)
             \/ FindChildren(p) \/ Reread(p) \/ RereadPart(p)
             \/ CheckParent(p) \/ CheckOthers(p)
    BY <1>2 DEF FindForCreate, FindForUpdate, FindForArchive, FindForRestore,
                FindParent, CheckEmpty, SetStatus, FindChildren, Reread,
                RereadPart, CheckParent, CheckOthers
  <1>3. CASE \/ Write(p) \/ ReadTable(p) \/ ReadPart(p)
             \/ PlanUnitImport(p) \/ PlanImport(p)
             \/ LoadContent(p) \/ Commit(p) \/ ActivateNone(p)
             \/ PointerHit(p) \/ PointerMiss(p) \/ FillPointer(p)
    BY <1>3 DEF Write, ReadTable, ReadPart, PlanUnitImport, PlanImport, LoadContent, Commit,
                ActivateNone, PointerHit, PointerMiss, FillPointer
  <1>4. CASE TakeLock(p)
    BY <1>4 DEF TakeLock, Waits, At
  <1>5. CASE TimeOut(p) \/ Stop(p)
    BY <1>5 DEF TimeOut, Stop, Free
  <1> QED BY <1>1, <1>2, <1>3, <1>4, <1>5 DEF Quiet

\* The job they leave has no release built.
LEMMA QuietLeavesNoRelease ==
    ASSUME JobTyped, Publishing, Locked, NEW p \in Process, Quiet(p)
    PROVE  QuietJob(p)
  <1>1. job[p].pc \notin {"flip", "create", "point", "drop", "send"} =>
            job[p].built = None
    BY DEF Publishing
  <1>2. {"pc", "built", "against"} \subseteq DOMAIN job[p]
    BY DEF JobTyped
  <1>3. ASSUME NEW q \in RequestName, Receive(p, q) PROVE QuietJob(p)
    <2>1. Requests[q].op # "watch"
      BY <1>3 DEF Receive
    <2> QED BY <1>3, <2>1, GoIsQuiet, FirstStepIsQuiet DEF Receive, Idle
  <1>4. ASSUME NEW q \in RequestName, CheckForChanges(p, q) PROVE QuietJob(p)
    BY <1>4, GoIsQuiet DEF CheckForChanges, Idle
  <1>5. CASE FindForCreate(p) \/ FindForUpdate(p) \/ FindForArchive(p)
    BY <1>5, <1>1, <1>2, GoIsQuiet, EndIsQuiet
       DEF FindForCreate, FindForUpdate, FindForArchive, At
  <1>6. CASE FindForRestore(p) \/ FindParent(p) \/ CheckEmpty(p)
    BY <1>6, <1>1, <1>2, GoIsQuiet, EndIsQuiet
       DEF FindForRestore, FindParent, CheckEmpty, At
  <1>7. CASE SetStatus(p) \/ FindChildren(p) \/ Reread(p) \/ RereadPart(p)
    BY <1>7, <1>1, <1>2, GoIsQuiet, EndIsQuiet
       DEF SetStatus, FindChildren, Reread, RereadPart, At
  <1>8. CASE CheckParent(p) \/ CheckOthers(p)
    <2>1. job[p].pc \in {"check", "checkOthers"}
      BY <1>8 DEF CheckParent, CheckOthers, At
    <2>2. Refuse(p) => QuietJob(p)
      BY <2>1, <1>1, <1>2, GoIsQuiet, EndIsQuiet, NextStepIsQuiet DEF Refuse
    <2>3. ASSUME NEW pc \in {"write", "checkOthers"},
                 Go(p, [job[p] EXCEPT !.pc = pc])
          PROVE  QuietJob(p)
      BY <2>1, <2>3, <1>1, <1>2, GoIsQuiet
    <2> QED BY <1>8, <2>2, <2>3 DEF CheckParent, CheckOthers
  <1>9. CASE Write(p) \/ PlanUnitImport(p) \/ PlanImport(p)
    BY <1>9, <1>1, <1>2, GoIsQuiet, EndIsQuiet, NextStepIsQuiet
       DEF Write, PlanUnitImport, PlanImport, At
  <1>10. CASE ReadTable(p) \/ ReadPart(p)
    <2>1. /\ job'[p].pc = job[p].pc /\ job'[p].built = job[p].built
          /\ {"pc", "built", "against"} \subseteq DOMAIN job'[p]
          /\ DOMAIN job' = Process /\ \A q \in Process \ {p} : job'[q] = job[q]
      BY <1>10, <1>2 DEF ReadTable, ReadPart, Go, JobTyped
    <2>2. /\ job[p].pc \in {"read", "copy"} /\ lock' = lock
          /\ job[p].pc = "copy" => lock = p
      BY <1>10 DEF ReadTable, ReadPart, At, Locked, LockedSteps
    <2> QED BY <2>1, <2>2, <1>1 DEF QuietJob
  <1>11. CASE LoadContent(p)
    BY <1>11, <1>1, <1>2, GoIsQuiet, EndIsQuiet DEF LoadContent, At
  <1>12. CASE Commit(p)
    <2>1. \/ End(p)
          \/ Go(p, [Idle EXCEPT !.pc = afterCommit(p), !.request = job[p].request])
      BY <1>12 DEF Commit
    <2> QED BY <2>1, GoIsQuiet, EndIsQuiet, AfterCommitIsQuiet DEF Idle
  <1>13. CASE TakeLock(p)
    <2>1. /\ job[p].pc = "lock" /\ lock' = p
          /\ job'[p].pc = "copy" /\ job'[p].built = job[p].built
          /\ {"pc", "built", "against"} \subseteq DOMAIN job'[p]
          /\ DOMAIN job' = Process /\ \A q \in Process \ {p} : job'[q] = job[q]
      BY <1>13, <1>2 DEF TakeLock, At, Go, JobTyped
    <2> QED BY <2>1, <1>1 DEF QuietJob
  <1>14. CASE ActivateNone(p) \/ TimeOut(p) \/ Stop(p)
    BY <1>14, EndIsQuiet DEF ActivateNone, TimeOut, Stop
  <1>15. CASE PointerHit(p) \/ FillPointer(p)
    <2>1. PICK found : Decide(p, found)
      BY <1>15 DEF PointerHit, FillPointer
    <2> QED BY <2>1, GoIsQuiet, EndIsQuiet DEF Decide, Idle
  <1>16. CASE PointerMiss(p)
    BY <1>16, <1>1, <1>2, GoIsQuiet DEF PointerMiss, At
  <1> QED BY <1>3, <1>4, <1>5, <1>6, <1>7, <1>8, <1>9, <1>10, <1>11, <1>12, <1>13,
             <1>14, <1>15, <1>16 DEF Quiet

\* None of them disturbs the invariant.
LEMMA QuietSteps ==
    ASSUME Inductive, NEW p \in Process, Quiet(p)
    PROVE  Inductive' /\ UNCHANGED <<releases, active, announced>>
  BY QuietLeavesReleases, QuietLeavesNoRelease, QuietKeeps DEF Inductive

-----------------------------------------------------------------------------
(* The steps of a publish, and the others about releases.                   *)

\* Nobody else holds the lock, so nobody else is between its number and its
\* commit.
LEMMA Alone ==
    ASSUME Locked, NEW p \in Process, job[p].pc \in LockedSteps
    PROVE  lock = p /\ \A q \in Process \ {p} : job[q].pc \notin LockedSteps
  BY DEF Locked

\* The release is built from the copy read under the lock, to be compared with
\* the active one.
LEMMA ValidateKeeps ==
    ASSUME Inductive, NEW p \in Process, Validate(p)
    PROVE  Inductive'
  <1> DEFINE copy == copyOf(job[p].seen)
  <1>1. job[p].pc = "copy" /\ lock = p
    BY DEF Validate, At, Inductive, Locked, LockedSteps
  <1>2. CASE rowsToCorpus(copy)
    <2>1. /\ job'[p].pc = "flip" /\ job'[p].against = active
          /\ job'[p].built = buildRelease(corpusOf(copy))
          /\ {"pc", "built", "against"} \subseteq DOMAIN job'[p]
          /\ DOMAIN job' = Process /\ \A q \in Process \ {p} : job'[q] = job[q]
      BY <1>2 DEF Validate, Go, Inductive, JobTyped
    <2>3. UNCHANGED <<releases, version, active, lock>>
      BY <1>2 DEF Validate, releaseRows
    <2>4. JobTyped' /\ Stored'
      BY <2>1, <2>3 DEF Inductive, JobTyped, Stored, StoredVersion
    <2>5. Locked'
      BY <2>1, <2>3, <1>1 DEF Inductive, Locked
    <2>6. Publishing'
      <3>1. active = 0 \/ StoredVersion(active)
        BY DEF Inductive, Stored
      <3> QED BY <2>1, <2>3, <3>1 DEF Inductive, Publishing, StoredVersion
    <2>7. Announcing'
      BY <2>1, <2>3 DEF Inductive, Announcing, Compared
    <2> QED BY <2>4, <2>5, <2>6, <2>7 DEF Inductive
  <1>3. CASE ~rowsToCorpus(copy)
    <2>1. End(p) /\ Free(p) /\ UNCHANGED <<releases, version, active>>
      BY <1>3 DEF Validate, releaseRows
    <2> QED BY <2>1, EndIsQuiet, QuietKeeps DEF Inductive, Free, OthersKeepLock
  <1> QED BY <1>2, <1>3

\* Marking drafts as published changes nothing of what the publish has in hand.
LEMMA FlipKeeps ==
    ASSUME Inductive, NEW p \in Process, Flip(p)
    PROVE  Inductive'
  <1>1. /\ job[p].pc = "flip" /\ job'[p].pc \in {"flip", "create"}
        /\ job'[p].built = job[p].built /\ job'[p].against = job[p].against
        /\ {"pc", "built", "against"} \subseteq DOMAIN job'[p]
        /\ DOMAIN job' = Process /\ \A q \in Process \ {p} : job'[q] = job[q]
    BY DEF Flip, At, Go, Inductive, JobTyped
  <1>2. UNCHANGED <<releases, version, active, lock>>
    BY DEF Flip, releaseRows
  <1>3. JobTyped' /\ Stored'
    BY <1>1, <1>2 DEF Inductive, JobTyped, Stored, StoredVersion
  <1>4. Locked'
    BY <1>1, <1>2 DEF Inductive, Locked, LockedSteps
  <1>5. Publishing'
    BY <1>1, <1>2 DEF Inductive, Publishing, StoredVersion
  <1>6. Announcing'
    BY <1>1, <1>2 DEF Inductive, Announcing, Compared
  <1> QED BY <1>3, <1>4, <1>5, <1>6 DEF Inductive

\* The number taken is newer than every stored release, and as nobody else is
\* at this point it stays the newest until the commit.
LEMMA CreateReleaseKeeps ==
    ASSUME Inductive, NEW p \in Process, CreateRelease(p)
    PROVE  Inductive'
  <1>1. job[p].pc = "create" /\ job[p].pc \in LockedSteps
    BY DEF CreateRelease, At, LockedSteps
  <1>2. /\ job'[p].pc = "point" /\ job'[p].against = job[p].against
        /\ job'[p].built = numbered(job[p].built, version + 1)
        /\ {"pc", "built", "against"} \subseteq DOMAIN job'[p]
        /\ DOMAIN job' = Process /\ \A q \in Process \ {p} : job'[q] = job[q]
    BY DEF CreateRelease, Go, Inductive, JobTyped
  <1>3. version' = version + 1 /\ UNCHANGED <<releases, active, lock>>
    BY DEF CreateRelease
  <1>4. \A q \in Process \ {p} : job[q].pc \notin LockedSteps
    BY <1>1, Alone DEF Inductive
  <1>5. job'[p].built.version = version + 1
    BY <1>2 DEF numbered
  <1>6. JobTyped' /\ Locked'
    BY <1>1, <1>2, <1>3 DEF Inductive, JobTyped, Locked, LockedSteps
  <1>7. Stored'
    BY <1>3 DEF Inductive, Stored, StoredVersion
  <1>8. Publishing'
    <2>1. \A i \in DOMAIN releases : releases[i].version < version'
      BY <1>3 DEF Inductive, Stored
    <2> QED BY <1>1, <1>2, <1>3, <1>4, <1>5, <2>1
            DEF Inductive, Publishing, StoredVersion, LockedSteps
  <1>9. Announcing'
    BY <1>2, <1>3 DEF Inductive, Announcing, Compared
  <1> QED BY <1>6, <1>7, <1>8, <1>9 DEF Inductive

\* The release is stored behind all others, and the one it was compared with is
\* before it.
LEMMA CommitPublishKeeps ==
    ASSUME Inductive, NEW p \in Process, CommitPublish(p)
    PROVE  Inductive'
  <1>1. job[p].pc = "point" /\ job[p].pc \in LockedSteps
    BY DEF CommitPublish, At, LockedSteps
  <1>2. /\ job'[p].pc = "drop" /\ job'[p].against = job[p].against
        /\ job'[p].built = job[p].built
        /\ {"pc", "built", "against"} \subseteq DOMAIN job'[p]
        /\ DOMAIN job' = Process /\ \A q \in Process \ {p} : job'[q] = job[q]
    BY DEF CommitPublish, Go, Inductive, JobTyped
  <1>3. /\ releases' = Append(releases, job[p].built) /\ version' = version
        /\ active' = job[p].built.version
    BY DEF CommitPublish
  <1>4. /\ job[p].built.version = version
        /\ \A i \in DOMAIN releases : releases[i].version < version
        /\ job[p].against = 0 \/ StoredVersion(job[p].against)
    BY <1>1 DEF Inductive, Publishing
  <1>5. /\ \E S : releases' \in Seq(S)
        /\ Len(releases) \in Nat /\ DOMAIN releases = 1..Len(releases)
        /\ DOMAIN releases' = 1..(Len(releases) + 1)
        /\ \A i \in DOMAIN releases : releases'[i] = releases[i]
        /\ releases'[Len(releases) + 1] = job[p].built
    <2>1. PICK S : releases \in Seq(S)
      BY DEF Inductive, Stored
    <2>2. releases \in Seq(S \union {job[p].built})
      BY <2>1
    <2> QED BY <1>3, <2>2
  <1>6. \A q \in Process \ {p} : job[q].pc \notin LockedSteps
    BY <1>1, Alone DEF Inductive
  <1>7. \A v : StoredVersion(v) => StoredVersion(v)'
    BY <1>5 DEF StoredVersion
  <1>8. JobTyped'
    BY <1>2 DEF Inductive, JobTyped
  <1>9. Stored'
    <2>1. StoredVersion(active)'
      BY <1>3, <1>5 DEF StoredVersion
    <2>2. \A i \in DOMAIN releases' : releases'[i].version \in 0..version'
      BY <1>3, <1>4, <1>5 DEF Inductive, Stored
    <2>3. \A i, k \in DOMAIN releases' :
             i < k => releases'[i].version < releases'[k].version
      BY <1>4, <1>5 DEF Inductive, Stored
    <2> QED BY <1>3, <1>5, <2>1, <2>2, <2>3 DEF Inductive, Stored
  <1>10. Locked'
    BY <1>2, <1>6 DEF Locked, LockedSteps
  <1>11. Publishing'
    BY <1>2, <1>6, <1>1 DEF Inductive, Publishing, LockedSteps
  <1>12. Announcing'
    <2> SUFFICES ASSUME NEW q \in Process, job'[q].pc \in {"drop", "send"},
                        job'[q].built # None
                 PROVE  \E i \in DOMAIN releases' : Compared(q, i)'
      BY <1>2 DEF Inductive, Announcing
    <2>1. CASE q = p
      <3>1. \/ job[p].against = 0
            \/ \E had \in 1..Len(releases) : releases'[had].version = job[p].against
        BY <1>4, <1>5 DEF StoredVersion
      <3> QED BY <2>1, <3>1, <1>2, <1>5 DEF Compared
    <2>2. CASE q # p
      <3>1. PICK i \in DOMAIN releases : Compared(q, i)
        BY <2>2, <1>2 DEF Inductive, Announcing
      <3>2. \A had \in 1..(i - 1) : had \in DOMAIN releases
        BY <1>5
      <3>3. i \in DOMAIN releases'
        BY <1>5
      <3> QED BY <2>2, <3>1, <3>2, <3>3, <1>2, <1>5 DEF Compared
    <2> QED BY <2>1, <2>2
  <1> QED BY <1>8, <1>9, <1>10, <1>11, <1>12 DEF Inductive

\* Rolling back changes the active release only.
LEMMA ActivateKeeps ==
    ASSUME Inductive, NEW p \in Process, Activate(p)
    PROVE  Inductive'
  <1>1. job[p].pc = "activate" /\ job[p].built = None
    BY DEF Activate, At, Inductive, Publishing
  <1>2. QuietJob(p)
    <2>1. /\ job'[p].pc = "drop" /\ job'[p].built = job[p].built
          /\ {"pc", "built", "against"} \subseteq DOMAIN job'[p]
          /\ DOMAIN job' = Process /\ \A q \in Process \ {p} : job'[q] = job[q]
      BY DEF Activate, Go, Inductive, JobTyped
    <2> QED BY <2>1, <1>1 DEF QuietJob
  <1>3. UNCHANGED <<releases, version, lock>> /\ StoredVersion(active')
    BY DEF Activate, StoredVersion
  <1> QED BY <1>2, <1>3, QuietKeeps DEF OthersKeepLock

\* Retired items are sent only for a release that was compared with another.
LEMMA DropPointerKeeps ==
    ASSUME Inductive, NEW p \in Process, DropPointer(p)
    PROVE  Inductive'
  <1>1. UNCHANGED <<releases, version, active, lock>>
    BY DEF DropPointer, releaseRows
  <1>2. CASE retired(p) = {}
    BY <1>1, <1>2, EndIsQuiet, QuietKeeps DEF DropPointer, Inductive, OthersKeepLock
  <1>3. CASE retired(p) # {}
    <2>1. /\ job[p].pc = "drop" /\ job'[p].pc = "send"
          /\ job'[p].built = job[p].built /\ job'[p].against = job[p].against
          /\ {"pc", "built", "against"} \subseteq DOMAIN job'[p]
          /\ DOMAIN job' = Process /\ \A q \in Process \ {p} : job'[q] = job[q]
      BY <1>3 DEF DropPointer, At, Go, Inductive, JobTyped
    <2>2. JobTyped' /\ Stored' /\ Locked'
      BY <2>1, <1>1 DEF Inductive, JobTyped, Stored, StoredVersion, Locked, LockedSteps
    <2>3. job[p].built # None /\ job[p].against # 0
      BY <1>3 DEF retired
    <2>4. Publishing' /\ Announcing'
      BY <2>1, <2>3, <1>1 DEF Inductive, Publishing, StoredVersion, Announcing, Compared
    <2> QED BY <2>2, <2>4 DEF Inductive
  <1> QED BY <1>2, <1>3

\* Sending ends the request.
LEMMA SendRetiredKeeps ==
    ASSUME Inductive, NEW p \in Process, SendRetired(p)
    PROVE  Inductive'
  BY EndIsQuiet, QuietKeeps DEF SendRetired, Inductive, OthersKeepLock, releaseRows

-----------------------------------------------------------------------------
(* The theorem.                                                             *)

\* The initial states.
LEMMA InitInductive == Init => Inductive
  <1> SUFFICES ASSUME Init PROVE Inductive
    OBVIOUS
  <1>1. job = [p \in Process |-> Idle] /\ lock = None /\ active = version
    BY DEF Init
  <1>2. PICK start \in Starts :
          \/ releases = <<>> /\ version = 0
          \/ /\ releases = <<numbered(buildRelease(Seeds[start.released]), 1)>>
             /\ version = 1
    BY DEF Init
  <1>3. JobTyped /\ Locked /\ Publishing /\ Announcing
    BY <1>1 DEF Idle, JobTyped, Locked, LockedSteps, Publishing, Announcing
  <1>4. Stored
    <2>1. CASE releases = <<>> /\ version = 0
      BY <2>1, <1>1 DEF Stored
    <2>2. ASSUME NEW release, release.version = 1, releases = <<release>>, version = 1
          PROVE  Stored
      <3>1. releases \in Seq({release})
        BY <2>2
      <3>2. DOMAIN releases = {1} /\ releases[1].version = 1
        BY <2>2
      <3>3. StoredVersion(active)
        BY <3>2, <2>2, <1>1 DEF StoredVersion
      <3>4. \E S : releases \in Seq(S)
        BY <3>1
      <3>5. /\ \A i \in DOMAIN releases : releases[i].version \in 0..version
            /\ \A i, k \in DOMAIN releases :
                  i < k => releases[i].version < releases[k].version
        BY <3>2, <2>2
      <3>6. version \in Nat
        BY <2>2
      <3> QED BY <3>3, <3>4, <3>5, <3>6 DEF Stored
    <2>3. numbered(buildRelease(Seeds[start.released]), 1).version = 1
      BY DEF numbered
    <2> QED BY <1>2, <2>1, <2>2, <2>3
  <1> QED BY <1>3, <1>4 DEF Inductive

\* Every step keeps the invariant.
LEMMA NextInductive == Inductive /\ [Next]_vars => Inductive'
  <1> SUFFICES ASSUME Inductive, [Next]_vars PROVE Inductive'
    OBVIOUS
  <1>1. ASSUME NEW p \in Process, Quiet(p) PROVE Inductive'
    BY <1>1, QuietSteps
  <1>2. ASSUME NEW p \in Process, Validate(p) \/ Flip(p) \/ CreateRelease(p)
        PROVE  Inductive'
    BY <1>2, ValidateKeeps, FlipKeeps, CreateReleaseKeeps
  <1>3. ASSUME NEW p \in Process,
               CommitPublish(p) \/ Activate(p) \/ DropPointer(p) \/ SendRetired(p)
        PROVE  Inductive'
    BY <1>3, CommitPublishKeeps, ActivateKeeps, DropPointerKeeps, SendRetiredKeeps
  <1>4. CASE Expire \/ SaveContent \/ UNCHANGED vars
    <2>1. UNCHANGED <<releases, version, active, lock, job>>
      BY <1>4 DEF Expire, SaveContent, vars, releaseRows
    <2> QED BY <2>1 DEF Inductive, JobTyped, Stored, StoredVersion, Locked,
                        Publishing, Announcing, Compared
  <1> QED BY <1>1, <1>2, <1>3, <1>4 DEF Next, Step, Quiet

\* What ReleaseHistory sees of a release.
entry(release) == [version |-> release.version, items |-> itemIds(release)]
historyOf(stored) == [i \in DOMAIN stored |-> entry(stored[i])]

\* Storing a release appends what ReleaseHistory sees of it.
LEMMA HistoryGrows ==
    ASSUME NEW S, NEW stored \in Seq(S), NEW release
    PROVE  /\ historyOf(stored) \in Seq({entry(r) : r \in S})
           /\ historyOf(Append(stored, release))
                = Append(historyOf(stored), entry(release))
  BY DEF historyOf

\* Before the first release, or right after it.
LEMMA InitRefines == Init => History!Init
  <1> SUFFICES ASSUME Init PROVE History!Init
    OBVIOUS
  <1>1. announced = {} /\ active = version
    BY DEF Init
  <1>2. PICK start \in Starts :
          \/ releases = <<>> /\ version = 0
          \/ /\ releases = <<numbered(buildRelease(Seeds[start.released]), 1)>>
             /\ version = 1
    BY DEF Init
  <1>3. numbered(buildRelease(Seeds[start.released]), 1).version = 1
    BY DEF numbered
  <1>4. CASE releases = <<>> /\ version = 0
    BY <1>1, <1>4 DEF History!Init
  <1>5. ASSUME NEW release, release.version = 1, releases = <<release>>, version = 1
        PROVE  History!Init
    <2>1. historyOf(releases) = <<entry(release)>>
      BY <1>5 DEF historyOf
    <2>2. historyOf(releases)[1].version = 1 /\ Len(historyOf(releases)) = 1
      BY <2>1, <1>5 DEF entry
    <2> QED BY <1>1, <1>5, <2>2 DEF History!Init, historyOf, entry
  <1> QED BY <1>2, <1>3, <1>4, <1>5

\* Storing a release publishes it.
LEMMA CommitPublishRefines ==
    ASSUME Inductive, NEW p \in Process, CommitPublish(p)
    PROVE  History!Publish
  <1> DEFINE release == job[p].built
  <1>1. /\ releases' = Append(releases, release) /\ active' = release.version
        /\ announced' = announced
    BY DEF CommitPublish, outside
  <1>2. PICK S : releases \in Seq(S)
    BY DEF Inductive, Stored
  <1>3. /\ historyOf(releases) \in Seq({entry(r) : r \in S})
        /\ historyOf(releases)' = Append(historyOf(releases), entry(release))
    BY <1>1, <1>2, HistoryGrows DEF historyOf
  <1>4. \A i \in DOMAIN releases : releases[i].version < release.version
    BY DEF CommitPublish, At, Inductive, Publishing
  <1>5. /\ Len(historyOf(releases)') = Len(historyOf(releases)) + 1
        /\ SubSeq(historyOf(releases)', 1, Len(historyOf(releases)))
             = historyOf(releases)
        /\ historyOf(releases)'[Len(historyOf(releases)')] = entry(release)
        /\ historyOf(releases)' # historyOf(releases)
    BY <1>2, <1>3 DEF entry
  <1>6. \A v \in {historyOf(releases)[i].version : i \in DOMAIN historyOf(releases)} :
           v < entry(release).version
    BY <1>4 DEF historyOf, entry
  <1>7. entry(release).version = release.version
    BY DEF entry
  <1> HIDE DEF release
  <1> QED BY <1>1, <1>5, <1>6, <1>7 DEF History!Publish, History!versions, historyOf, entry

\* What is sent was in the release compared with, and is not in the one stored.
LEMMA SendRetiredRefines ==
    ASSUME Inductive, NEW p \in Process, SendRetired(p)
    PROVE  History!Announce
  <1>1. PICK sent \in SUBSET retired(p) :
           announced' = announced \union {[version |-> job[p].built.version, items |-> sent]}
    BY DEF SendRetired
  <1>2. job[p].built # None /\ job[p].against # 0 /\ job[p].pc = "send"
    BY DEF SendRetired, At, Inductive, Announcing
  <1>3. PICK i \in DOMAIN releases : Compared(p, i)
    BY <1>2 DEF Inductive, Announcing
  <1>4. PICK had \in 1..(i - 1) : releases[had].version = job[p].against
    BY <1>2, <1>3 DEF Compared
  <1>5. had \in DOMAIN releases
    BY <1>4 DEF Inductive, Stored
  <1>6. storedAs(job[p].against) = releases[had]
    <2>1. \A k \in DOMAIN releases : releases[k].version = job[p].against => k = had
      BY <1>4, <1>5 DEF Inductive, Stored
    <2>2. {releases[k] : k \in {n \in DOMAIN releases :
              releases[n].version = job[p].against}} = {releases[had]}
      BY <2>1, <1>4, <1>5
    <2> QED BY <2>2 DEF storedAs, theOne
  <1>7. retired(p) = itemIds(releases[had]) \ itemIds(releases[i])
    BY <1>2, <1>3, <1>6 DEF retired, retiredItemIds, Compared
  <1>8. job[p].built.version = releases[i].version
    BY <1>3 DEF Compared
  <1>9. UNCHANGED <<releases, active>>
    BY DEF SendRetired, releaseRows
  <1> QED BY <1>1, <1>4, <1>5, <1>7, <1>8, <1>9 DEF History!Announce

\* Every step is one of ReleaseHistory, or changes nothing it sees.
LEMMA NextRefines == Inductive /\ [Next]_vars => [History!Next]_History!vars
  <1> SUFFICES ASSUME Inductive, [Next]_vars PROVE [History!Next]_History!vars
    OBVIOUS
  <1>1. UNCHANGED <<releases, active, announced>> => UNCHANGED History!vars
    BY DEF History!vars
  <1>2. ASSUME NEW p \in Process, Quiet(p) PROVE UNCHANGED <<releases, active, announced>>
    BY <1>2, QuietSteps
  <1>3. ASSUME NEW p \in Process,
               Validate(p) \/ Flip(p) \/ CreateRelease(p) \/ DropPointer(p)
        PROVE  UNCHANGED <<releases, active, announced>>
    BY <1>3 DEF Validate, Flip, CreateRelease, DropPointer, releaseRows, outside
  <1>4. ASSUME NEW p \in Process, CommitPublish(p) PROVE History!Next
    BY <1>4, CommitPublishRefines DEF History!Next
  <1>5. ASSUME NEW p \in Process, Activate(p) PROVE History!Next
    <2>1. History!Activate
      BY <1>5 DEF Activate, outside, History!Activate, History!versions
    <2> QED BY <2>1 DEF History!Next
  <1>6. ASSUME NEW p \in Process, SendRetired(p) PROVE History!Next
    BY <1>6, SendRetiredRefines DEF History!Next
  <1>7. CASE Expire \/ SaveContent \/ UNCHANGED vars
    BY <1>1, <1>7 DEF Expire, SaveContent, vars, releaseRows
  <1> QED BY <1>1, <1>2, <1>3, <1>4, <1>5, <1>6, <1>7 DEF Next, Step, Quiet

\* Whatever the contents, the requests and the number of processes: stored
\* releases never change, each is newer than all before it, learners are moved
\* to a release in the step that stores it, and items are announced as retired
\* only for a stored release that lacks them (publish, activate, sendRetired).
THEOREM RefinesHolds == Spec => Refines
  <1>1. Init => History!Init
    BY InitRefines
  <1>2. Inductive /\ [Next]_vars => [History!Next]_History!vars
    BY NextRefines
  <1>3. Init => Inductive
    BY InitInductive
  <1>4. Inductive /\ [Next]_vars => Inductive'
    BY NextInductive
  <1> QED BY <1>1, <1>2, <1>3, <1>4, PTL DEF Spec, Refines

-----------------------------------------------------------------------------
(* Sorted numbers, and what is chosen in their order.                       *)

\* There are finitely many slugs.
LEMMA SlugFinite ==
    /\ IsFiniteSet(Slug) /\ Len(Slugs) \in Nat
    /\ \A S \in SUBSET Slug : IsFiniteSet(S) /\ Cardinality(S) \in 0 .. Len(Slugs)
<1>1. Len(Slugs) \in Nat /\ DOMAIN Slugs = 1 .. Len(Slugs)
  BY SlugsAssumption
<1>2. IsFiniteSet(1 .. Len(Slugs)) /\ Cardinality(1 .. Len(Slugs)) = Len(Slugs)
  <2>1. 1 \in Int /\ Len(Slugs) \in Int
    BY <1>1
  <2>2. /\ IsFiniteSet(1 .. Len(Slugs))
        /\ Cardinality(1 .. Len(Slugs))
             = IF 1 > Len(Slugs) THEN 0 ELSE Len(Slugs) - 1 + 1
    BY <2>1, FS_Interval, Zenon
  <2> QED  BY <1>1, <2>2
<1>3. Slugs \in Surjection(1 .. Len(Slugs), Slug)
  BY <1>1, SlugsAssumption DEF Surjection, Slug, ToSet
<1>4. IsFiniteSet(Slug) /\ Cardinality(Slug) <= Len(Slugs)
  BY <1>2, <1>3, FS_Surjection
<1>5. ASSUME NEW S \in SUBSET Slug
      PROVE  IsFiniteSet(S) /\ Cardinality(S) \in 0 .. Len(Slugs)
  <2>1. IsFiniteSet(S) /\ Cardinality(S) <= Cardinality(Slug)
    BY <1>4, FS_Subset
  <2>2. Cardinality(S) \in Nat /\ Cardinality(Slug) \in Nat
    BY <1>4, <2>1, FS_CardinalityType
  <2> QED  BY <1>1, <1>4, <2>1, <2>2
<1> QED  BY <1>1, <1>4, <1>5

\* Smaller ones first.
Below(S) == {pair \in S \X S : pair[1] < pair[2]}

\* A finite set of numbers sorted is a sequence of numbers.
LEMMA SortedNumbers ==
    ASSUME NEW S \in SUBSET Nat, IsFiniteSet(S)
    PROVE  /\ sorted(S, <) \in Seq(S)
           /\ Orders(Below(S), S)
           /\ Enumerates(sorted(S, <), S, Below(S))
<1> DEFINE R == Below(S)
           seq == [i \in 1 .. Cardinality(S) |-> CHOOSE r \in S : RankIn(r, S, R) = i]
           placed(i) == CHOOSE r \in S : RankIn(r, S, R) = i
           counted(i) == CHOOSE r \in S : 1 + Cardinality({q \in S : q < r}) = i
<1>1. \A a, b \in S : <<a, b>> \in R <=> a < b
  BY DEF Below
<1>2. Orders(R, S)
  <2> HIDE DEF R
  <2> QED  BY <1>1 DEF Orders
<1>3. Enumerates(seq, S, R)
  <2> HIDE DEF R
  <2> QED  BY <1>2, PlacesEnumerate
<1>4. \A r \in S : RankIn(r, S, R) = 1 + Cardinality({q \in S : q < r})
  <2> SUFFICES ASSUME NEW r \in S
               PROVE  RankIn(r, S, R) = 1 + Cardinality({q \in S : q < r})
    OBVIOUS
  <2>1. {q \in S : <<q, r>> \in R} = {q \in S : q < r}
    BY <1>1
  <2> QED  BY <2>1 DEF RankIn
<1>5. \A i : placed(i) = counted(i)
  <2> HIDE DEF R
  <2> QED  BY <1>4
<1>6. sorted(S, <) = [i \in 1 .. Cardinality(S) |-> counted(i)]
  BY DEF sorted
<1>7. seq = [i \in 1 .. Cardinality(S) |-> placed(i)]
  OBVIOUS
<1> HIDE DEF placed, counted, seq, R
<1>8. sorted(S, <) = seq
  BY <1>5, <1>6, <1>7
<1> QED  BY <1>2, <1>3, <1>8 DEF Enumerates, R

\* What is chosen of a sequence is what it has at the positions.
LEMMA ChosenIs ==
    ASSUME NEW T, NEW seq \in Seq(T), NEW positions \in SUBSET DOMAIN seq
    PROVE  /\ chosen(seq, positions) \in Seq(T)
           /\ \A k \in DOMAIN chosen(seq, positions) :
                 \E i \in positions : chosen(seq, positions)[k] = seq[i]
           /\ \A i \in positions : \E k \in DOMAIN chosen(seq, positions) :
                 chosen(seq, positions)[k] = seq[i]
<1> DEFINE at == sorted(positions, <)
<1>1. positions \in SUBSET Nat /\ positions \subseteq 1 .. Len(seq) /\ Len(seq) \in Nat
  OBVIOUS
<1>2. IsFiniteSet(positions)
  BY <1>1, FS_Interval, FS_Subset
<1>3. at \in Seq(positions) /\ \A i \in positions : \E k \in DOMAIN at : at[k] = i
  BY <1>1, <1>2, SortedNumbers DEF Enumerates
<1>4. chosen(seq, positions) = [k \in DOMAIN at |-> seq[at[k]]]
  BY DEF chosen
<1> HIDE DEF at
<1>5. \A k \in DOMAIN at : at[k] \in positions /\ seq[at[k]] \in T
  BY <1>3
<1> QED  BY <1>3, <1>4, <1>5

-----------------------------------------------------------------------------
(* Records.                                                                 *)

\* A position counts from one.
LEMMA PositionsArePositive == Positions \subseteq Nat \ {0}
<1>1. \A r \in Ordered : r.order \in Nat \ {0}
  BY DEF Ordered, parseAdminRecord, unitRecordSchema
<1>2. Len(Slugs) \in Nat
  BY SlugsAssumption
<1> QED  BY <1>1, <1>2 DEF Positions

\* What a unit or a lesson is, whatever its position.
LEMMA OrderedIs ==
    ASSUME NEW r \in Ordered, NEW n \in Positions
    PROVE  /\ r \in Sources
           /\ [r EXCEPT !.order = n].kind = r.kind /\ [r EXCEPT !.order = n].slug = r.slug
           /\ [r EXCEPT !.order = n].order = n
           /\ parseAdminRecord([r EXCEPT !.order = n])
           /\ \A m : [[r EXCEPT !.order = n] EXCEPT !.order = m] = [r EXCEPT !.order = m]
<1>1. n \in Nat \ {0}
  BY PositionsArePositive
<1>2. CASE r.kind = "unit"
  <2>1. DOMAIN r = {"kind", "slug", "stage", "order"} /\ r \in Sources
    BY <1>2 DEF Ordered, parseAdminRecord, unitRecordSchema
  <2>2. /\ [r EXCEPT !.order = n].kind = "unit" /\ [r EXCEPT !.order = n].slug = r.slug
        /\ [r EXCEPT !.order = n].order = n
        /\ DOMAIN [r EXCEPT !.order = n] = DOMAIN r
    BY <2>1, <1>2
  <2>3. parseAdminRecord([r EXCEPT !.order = n])
    BY <2>1, <2>2, <1>1 DEF parseAdminRecord, unitRecordSchema
  <2>4. \A m : [[r EXCEPT !.order = n] EXCEPT !.order = m] = [r EXCEPT !.order = m]
    BY <2>1
  <2> QED  BY <2>1, <2>2, <2>3, <2>4, <1>2
<1>3. CASE r.kind = "lesson"
  <2>1. /\ DOMAIN r = {"kind", "slug", "unit", "order", "items", "steps"} /\ r \in Sources
        /\ lessonSchema(r)
    BY <1>3 DEF Ordered, parseAdminRecord, lessonSchema
  <2>2. /\ [r EXCEPT !.order = n].kind = "lesson" /\ [r EXCEPT !.order = n].slug = r.slug
        /\ [r EXCEPT !.order = n].order = n
        /\ [r EXCEPT !.order = n].items = r.items /\ [r EXCEPT !.order = n].steps = r.steps
        /\ DOMAIN [r EXCEPT !.order = n] = DOMAIN r
    BY <2>1, <1>3
  <2>3. lessonSchema([r EXCEPT !.order = n])
    BY <2>1, <2>2 DEF lessonSchema
  <2>4. parseAdminRecord([r EXCEPT !.order = n])
    BY <2>2, <2>3, <1>1 DEF parseAdminRecord
  <2>5. \A m : [[r EXCEPT !.order = n] EXCEPT !.order = m] = [r EXCEPT !.order = m]
    BY <2>1
  <2> QED  BY <2>1, <2>2, <2>4, <2>5, <1>3
<1> QED  BY <1>2, <1>3 DEF Ordered

\* A lesson with the steps of one and the links of another fits the schema, for
\* that asks nothing of steps and links together.
LEMMA LessonOfIs ==
    ASSUME NEW l \in LessonSources, NEW n \in Positions,
           NEW a \in LessonSources, NEW b \in LessonSources
    PROVE  /\ l \in Sources /\ l.kind = "lesson"
           /\ lessonOf(l, n, a, b).kind = "lesson" /\ lessonOf(l, n, a, b).slug = l.slug
           /\ lessonOf(l, n, a, b).order = n
           /\ lessonOf(l, n, a, b).steps = a.steps /\ lessonOf(l, n, a, b).items = b.items
           /\ lessonOf(l, n, a, b) \in Record
<1>0. PICK r : r = lessonOf(l, n, a, b)
  OBVIOUS
<1>1. n \in Nat \ {0}
  BY PositionsArePositive
<1>2. \A s \in LessonSources :
          /\ s \in Sources /\ s.kind = "lesson" /\ lessonSchema(s)
          /\ DOMAIN s = {"kind", "slug", "unit", "order", "items", "steps"}
  BY DEF LessonSources, Ordered, parseAdminRecord, lessonSchema
<1>3. /\ r.kind = "lesson" /\ r.slug = l.slug /\ r.order = n
      /\ r.steps = a.steps /\ r.items = b.items /\ DOMAIN r = DOMAIN l
  BY <1>0, <1>2 DEF lessonOf
<1>4. lessonSchema(r)
  BY <1>2, <1>3 DEF lessonSchema
<1>5. parseAdminRecord(r)
  BY <1>1, <1>3, <1>4 DEF parseAdminRecord
<1>6. r \in Mixed
  BY <1>0 DEF Mixed
<1>7. r \in Record
  BY <1>5, <1>6 DEF Record
<1> QED  BY <1>0, <1>2, <1>3, <1>7

\* It has the fields of one.
LEMMA LessonFields ==
    ASSUME NEW l \in LessonSources
    PROVE  DOMAIN l = {"kind", "slug", "unit", "order", "items", "steps"}
BY DEF LessonSources, Ordered, parseAdminRecord, lessonSchema

\* What the schema let through has the shape the model gives a record.
LEMMA RecordIs ==
    ASSUME NEW r \in Record
    PROVE  /\ parseAdminRecord(r) /\ r.slug \in Slug
           /\ r.kind \in Kinds /\ r.kind \in ToSet(Tables)
           /\ \E s \in Sources : s.slug = r.slug /\ s.kind = r.kind
<1>1. parseAdminRecord(r) /\ r \in Sources \union Reordered \union Mixed
  BY DEF Record
<1>2. \A s \in Sources : s.slug \in Slug /\ s.kind \in Kinds /\ s.kind \in ToSet(Tables)
  <2>1. ToSet(Tables) \subseteq Kinds
    BY AuthoringAssumption DEF ToSet
  <2> QED  BY <2>1, AuthoringAssumption
<1>3. CASE r \in Sources
  BY <1>1, <1>2, <1>3
<1>4. CASE r \in Reordered
  <2>1. PICK s \in Ordered : \E n \in Positions : r = [s EXCEPT !.order = n]
    BY <1>4 DEF Reordered
  <2>2. PICK n \in Positions : r = [s EXCEPT !.order = n]
    BY <2>1
  <2>3. s \in Sources /\ r.kind = s.kind /\ r.slug = s.slug
    BY <2>2, OrderedIs
  <2> QED  BY <1>1, <1>2, <2>3
<1>5. CASE r \in Mixed
  <2>1. PICK l \in LessonSources : \E n \in Positions, a \in LessonSources,
                                      b \in LessonSources : r = lessonOf(l, n, a, b)
    BY <1>5 DEF Mixed
  <2>2. l \in Sources /\ r.kind = l.kind /\ r.slug = l.slug
    BY <2>1, LessonOfIs
  <2> QED  BY <1>1, <1>2, <2>2
<1> QED  BY <1>1, <1>3, <1>4, <1>5

\* A slug is of one kind.
LEMMA SameKind ==
    ASSUME NEW a \in Record, NEW b \in Record, a.slug = b.slug
    PROVE  a.kind = b.kind
BY RecordIs, AuthoringAssumption

\* A record that parses is one rows can hold.
LEMMA SourceRecord ==
    ASSUME NEW r \in Sources, parseAdminRecord(r)
    PROVE  r \in Record
BY DEF Record

\* Every lesson there can be is put together like this.
LEMMA LessonRecord ==
    ASSUME NEW r \in Record, r.kind = "lesson"
    PROVE  \E l \in LessonSources, n \in Positions, a \in LessonSources,
              b \in LessonSources : r = lessonOf(l, n, a, b)
<1>1. ASSUME NEW s \in Ordered, s.kind = "lesson"
      PROVE  /\ s \in LessonSources /\ s.order \in Positions
             /\ s = lessonOf(s, s.order, s, s)
             /\ \A n \in Positions : [s EXCEPT !.order = n] = lessonOf(s, n, s, s)
  <2>1. /\ s \in LessonSources /\ s.order \in Positions
        /\ DOMAIN s = {"kind", "slug", "unit", "order", "items", "steps"}
        /\ s = [field \in DOMAIN s |-> s[field]]
    BY <1>1, AuthoringAssumption
       DEF LessonSources, Positions, Ordered, parseAdminRecord, lessonSchema
  <2>2. \A n : [s EXCEPT !.order = n] = lessonOf(s, n, s, s)
    BY <2>1 DEF lessonOf
  <2>3. s = [s EXCEPT !.order = s.order]
    BY <2>1
  <2> QED  BY <2>1, <2>2, <2>3
<1>2. CASE r \in Sources
  <2>1. r \in Ordered
    BY <1>2 DEF Record, Ordered
  <2> QED  BY <1>1, <2>1
<1>3. CASE r \in Reordered
  <2>1. PICK s \in Ordered : \E n \in Positions : r = [s EXCEPT !.order = n]
    BY <1>3 DEF Reordered
  <2>2. PICK n \in Positions : r = [s EXCEPT !.order = n]
    BY <2>1
  <2>3. s.kind = "lesson"
    BY <2>2, OrderedIs
  <2> QED  BY <1>1, <2>2, <2>3
<1>4. CASE r \in Mixed
  BY <1>4 DEF Mixed
<1> QED  BY <1>2, <1>3, <1>4 DEF Record

\* A lesson with a part of another is one rows can hold; with a part of its own
\* it is what it was.
LEMMA PartOfAnother ==
    ASSUME NEW r \in Record, r.kind = "lesson", NEW now \in Record, now.kind = "lesson",
           NEW part
    PROVE  /\ withPart(r, part, now) \in Record
           /\ withPart(r, part, now).slug = r.slug /\ withPart(r, part, now).kind = "lesson"
           /\ withPart(r, part, r) = r
<1>1. PICK l \in LessonSources, n \in Positions, a \in LessonSources, b \in LessonSources :
          r = lessonOf(l, n, a, b)
  BY LessonRecord
<1>2. PICK m \in LessonSources, o \in Positions, c \in LessonSources, d \in LessonSources :
          now = lessonOf(m, o, c, d)
  BY LessonRecord
<1>3. now.steps = c.steps /\ now.items = d.items
  BY <1>2, LessonOfIs
<1>4. r.steps = a.steps /\ r.items = b.items /\ r.slug = l.slug
  BY <1>1, LessonOfIs
<1>7. /\ \A x : [r EXCEPT !.steps = x.steps] = lessonOf(l, n, x, b)
      /\ \A x : [r EXCEPT !.items = x.items] = lessonOf(l, n, a, x)
  BY <1>1, LessonFields DEF lessonOf
<1>5. CASE part = "steps"
  <2>1. withPart(r, part, now) = lessonOf(l, n, c, b) /\ withPart(r, part, r) = r
    BY <1>1, <1>3, <1>4, <1>5, <1>7 DEF withPart
  <2> QED  BY <1>4, <2>1, LessonOfIs
<1>6. CASE part # "steps"
  <2>1. withPart(r, part, now) = lessonOf(l, n, a, d) /\ withPart(r, part, r) = r
    BY <1>1, <1>3, <1>4, <1>6, <1>7 DEF withPart
  <2> QED  BY <1>4, <2>1, LessonOfIs
<1> QED  BY <1>5, <1>6

\* Moved to a position that can be handed out, a record stays one.
LEMMA MovedRecord ==
    ASSUME NEW r \in Record, r.kind \in {"unit", "lesson"}
    PROVE  /\ r.order \in Positions
           /\ \A n \in Positions :
                 [r EXCEPT !.order = n] \in Record /\ [r EXCEPT !.order = n].slug = r.slug
<1>1. CASE r \in Sources
  <2>1. r \in Ordered
    BY <1>1 DEF Record, Ordered
  <2>2. \A n \in Positions : [r EXCEPT !.order = n] \in Reordered
    BY <2>1 DEF Reordered
  <2> QED  BY <2>1, <2>2, OrderedIs DEF Record, Positions
<1>2. CASE r \in Reordered
  <2>1. PICK s \in Ordered : \E n \in Positions : r = [s EXCEPT !.order = n]
    BY <1>2 DEF Reordered
  <2>2. PICK m \in Positions : r = [s EXCEPT !.order = m]
    BY <2>1
  <2>3. r.order = m /\ r.slug = s.slug
    BY <2>2, OrderedIs
  <2>4. ASSUME NEW n \in Positions
        PROVE  [r EXCEPT !.order = n] \in Record /\ [r EXCEPT !.order = n].slug = r.slug
    <3>1. [r EXCEPT !.order = n] = [s EXCEPT !.order = n]
      BY <2>2, OrderedIs
    <3>2. [s EXCEPT !.order = n] \in Reordered
      BY DEF Reordered
    <3>3. parseAdminRecord([s EXCEPT !.order = n]) /\ [s EXCEPT !.order = n].slug = s.slug
      BY OrderedIs
    <3> QED  BY <3>1, <3>2, <3>3, <2>3 DEF Record
  <2> QED  BY <2>3, <2>4
<1>3. CASE r \in Mixed
  <2>1. PICK l \in LessonSources, m \in Positions, a \in LessonSources, b \in LessonSources :
            r = lessonOf(l, m, a, b)
    BY <1>3 DEF Mixed
  <2>2. r.order = m /\ r.slug = l.slug
    BY <2>1, LessonOfIs
  <2>3. ASSUME NEW n \in Positions
        PROVE  [r EXCEPT !.order = n] \in Record /\ [r EXCEPT !.order = n].slug = r.slug
    <3>1. [r EXCEPT !.order = n] = lessonOf(l, n, a, b)
      BY <2>1, LessonFields DEF lessonOf
    <3> QED  BY <2>2, <3>1, LessonOfIs
  <2> QED  BY <2>2, <2>3
<1> QED  BY <1>1, <1>2, <1>3 DEF Record

-----------------------------------------------------------------------------
(* What files hold.                                                         *)

\* What a set of files holds.
LEMMA CorpusIs ==
    ASSUME NEW corpus \in Corpora
    PROVE  /\ corpus \subseteq Sources /\ inFiles(corpus)
           /\ \A r \in corpus : r.slug \in Slug /\ r.kind \in Kinds
           /\ \A a, b \in corpus : a.slug = b.slug => a = b
<1>1. corpus \subseteq Sources
  BY DEF Sources
<1>2. ToSet(Tables) \subseteq Kinds
  BY AuthoringAssumption DEF ToSet
<1> QED  BY <1>1, <1>2, AuthoringAssumption

\* Every record of a corpus that was loaded parses.
LEMMA LoadedRecords ==
    ASSUME NEW corpus \in Corpora, loadContent(corpus)
    PROVE  corpus \subseteq Record
<1> SUFFICES ASSUME NEW r \in corpus PROVE r \in Record
  OBVIOUS
<1>1. r \in Sources /\ r.kind \in Kinds /\ inFiles(corpus)
  BY CorpusIs
<1>2. CASE r.kind \in {"stage", "placement"}
  BY <1>1, <1>2, SourceRecord DEF loadContent
<1>3. CASE r.kind = "unit"
  <2>1. unitFileSchema(unitFile(corpus, r)) /\ r \in unitFile(corpus, r)
    BY <1>3 DEF loadContent, unitFile, of
  <2> QED  BY <1>1, <2>1, SourceRecord DEF unitFileSchema
<1>4. CASE r.kind \in ChildKinds
  <2>1. PICK u \in of(corpus, "unit") : u.slug = r.unit
    BY <1>1, <1>4 DEF inFiles, slugsOf
  <2>2. unitFileSchema(unitFile(corpus, u)) /\ r \in unitFile(corpus, u)
    BY <1>4, <2>1 DEF loadContent, unitFile
  <2> QED  BY <1>1, <2>2, SourceRecord DEF unitFileSchema
<1>5. Kinds = {"stage", "placement", "unit"} \union ChildKinds
  BY DEF Kinds, IMPORT_ORDER, ToSet, ChildKinds
<1> QED  BY <1>1, <1>2, <1>3, <1>4, <1>5

\* The place of a kind among the kinds.
LEMMA KindPlaces ==
    \E at : /\ \A k \in Kinds : at[k] \in Nat
            /\ \A a, b : a.kind \in Kinds /\ b.kind \in Kinds =>
                  (byKind(a, b) <=> \/ at[a.kind] < at[b.kind]
                                    \/ a.kind = b.kind /\ bySlug(a, b))
            /\ \A j, k \in Kinds : at[j] = at[k] => j = k
<1> DEFINE at == [k \in Kinds |-> CHOOSE i \in DOMAIN IMPORT_ORDER : IMPORT_ORDER[i] = k]
<1>1. DOMAIN IMPORT_ORDER = 1 .. 7
  BY DEF IMPORT_ORDER
<1>2. \A i, j \in DOMAIN IMPORT_ORDER : IMPORT_ORDER[i] = IMPORT_ORDER[j] => i = j
  BY <1>1 DEF IMPORT_ORDER
<1>3. \A i \in DOMAIN IMPORT_ORDER : IMPORT_ORDER[i] \in Kinds
  BY DEF Kinds, ToSet
<1>4. \A k \in Kinds : \E i \in DOMAIN IMPORT_ORDER : IMPORT_ORDER[i] = k
  BY DEF Kinds, ToSet
<1>5. \A k \in Kinds : at[k] \in DOMAIN IMPORT_ORDER /\ IMPORT_ORDER[at[k]] = k
  BY <1>4
<1> HIDE DEF at
<1>6. ASSUME NEW a, NEW b, a.kind \in Kinds, b.kind \in Kinds
      PROVE  byKind(a, b) <=> \/ at[a.kind] < at[b.kind]
                              \/ a.kind = b.kind /\ bySlug(a, b)
  <2>1. (\E i, j \in DOMAIN IMPORT_ORDER :
            IMPORT_ORDER[i] = a.kind /\ IMPORT_ORDER[j] = b.kind /\ i < j)
        <=> at[a.kind] < at[b.kind]
    BY <1>2, <1>5, <1>6
  <2> HIDE DEF bySlug
  <2> QED  BY <2>1 DEF byKind
<1>7. \A k \in Kinds : at[k] \in Nat
  BY <1>1, <1>5
<1>8. \A j, k \in Kinds : at[j] = at[k] => j = k
  BY <1>5
<1> QED  BY <1>6, <1>7, <1>8

\* An import goes through the records of its corpus.
LEMMA SeedRecordsAre ==
    ASSUME NEW corpus \in Corpora
    PROVE  /\ toSeedRecords(corpus) \in Seq(corpus)
           /\ \A r \in corpus :
                 \E i \in DOMAIN toSeedRecords(corpus) : toSeedRecords(corpus)[i] = r
<1> DEFINE R == {pair \in corpus \X corpus : byKind(pair[1], pair[2])}
           seq == [i \in 1 .. Cardinality(corpus) |-> CHOOSE r \in corpus : RankIn(r, corpus, R) = i]
           placed(i) == CHOOSE r \in corpus : RankIn(r, corpus, R) = i
           counted(i) == CHOOSE r \in corpus :
                             1 + Cardinality({q \in corpus : byKind(q, r)}) = i
<1>1. PICK kindAt :
          /\ \A k \in Kinds : kindAt[k] \in Nat
          /\ \A a, b : a.kind \in Kinds /\ b.kind \in Kinds =>
                (byKind(a, b) <=> \/ kindAt[a.kind] < kindAt[b.kind]
                                  \/ a.kind = b.kind /\ bySlug(a, b))
          /\ \A j, k \in Kinds : kindAt[j] = kindAt[k] => j = k
  BY KindPlaces
<1>2. PICK at : /\ \A s \in ToSet(Slugs) :
                      at[s] \in Nat /\ at[s] \in DOMAIN Slugs /\ Slugs[at[s]] = s
                /\ \A a, b : a.slug \in ToSet(Slugs) /\ b.slug \in ToSet(Slugs) =>
                      (bySlug(a, b) <=> at[a.slug] < at[b.slug])
  BY SlugPlaces
<1>3. /\ IsFiniteSet(corpus)
      /\ \A r \in corpus : r.slug \in ToSet(Slugs) /\ r.kind \in Kinds
      /\ \A a, b \in corpus : a.slug = b.slug => a = b
  BY CorpusIs DEF inFiles, Slug
<1>4. \A a, b \in corpus :
          byKind(a, b) <=> \/ kindAt[a.kind] < kindAt[b.kind]
                           \/ kindAt[a.kind] = kindAt[b.kind] /\ at[a.slug] < at[b.slug]
  BY <1>1, <1>2, <1>3
<1>5. \A r \in corpus : kindAt[r.kind] \in Nat /\ at[r.slug] \in Nat
  BY <1>1, <1>2, <1>3
<1>6. \A a, b \in corpus : a # b => at[a.slug] # at[b.slug]
  BY <1>2, <1>3
<1>7. \A a, b \in corpus : <<a, b>> \in R <=> byKind(a, b)
  OBVIOUS
<1>8. Orders(R, corpus)
  <2>1. \A a \in corpus : ~byKind(a, a)
    BY <1>4, <1>5
  <2>2. \A a, b \in corpus : a # b => byKind(a, b) \/ byKind(b, a)
    BY <1>4, <1>5, <1>6
  <2>3. ASSUME NEW a \in corpus, NEW b \in corpus, NEW c \in corpus, byKind(a, b), byKind(b, c)
        PROVE  byKind(a, c)
    <3>1. /\ kindAt[a.kind] \in Nat /\ kindAt[b.kind] \in Nat /\ kindAt[c.kind] \in Nat
          /\ at[a.slug] \in Nat /\ at[b.slug] \in Nat /\ at[c.slug] \in Nat
      BY <1>5
    <3>2. /\ \/ kindAt[a.kind] < kindAt[b.kind]
             \/ kindAt[a.kind] = kindAt[b.kind] /\ at[a.slug] < at[b.slug]
          /\ \/ kindAt[b.kind] < kindAt[c.kind]
             \/ kindAt[b.kind] = kindAt[c.kind] /\ at[b.slug] < at[c.slug]
      BY <1>4, <2>3
    <3> QED  BY <3>1, <3>2, <1>4
  <2> HIDE DEF R
  <2> QED  BY <1>7, <2>1, <2>2, <2>3 DEF Orders
<1>9. Enumerates(seq, corpus, R)
  <2> HIDE DEF R
  <2> QED  BY <1>3, <1>8, PlacesEnumerate
<1>10. \A r \in corpus : RankIn(r, corpus, R) = 1 + Cardinality({q \in corpus : byKind(q, r)})
  <2> SUFFICES ASSUME NEW r \in corpus
               PROVE  RankIn(r, corpus, R) = 1 + Cardinality({q \in corpus : byKind(q, r)})
    OBVIOUS
  <2>1. {q \in corpus : <<q, r>> \in R} = {q \in corpus : byKind(q, r)}
    BY <1>7
  <2> QED  BY <2>1 DEF RankIn
<1>11. \A i : placed(i) = counted(i)
  <2> HIDE DEF R
  <2> QED  BY <1>10
<1>12. toSeedRecords(corpus) = [i \in 1 .. Cardinality(corpus) |-> counted(i)]
  BY DEF toSeedRecords, sorted
<1>13. seq = [i \in 1 .. Cardinality(corpus) |-> placed(i)]
  OBVIOUS
<1> HIDE DEF placed, counted, seq, R
<1>14. toSeedRecords(corpus) = seq
  BY <1>11, <1>12, <1>13
<1> QED  BY <1>9, <1>14 DEF Enumerates

\* Every record of a unit's file that parsed parses.
LEMMA UnitFileRecords ==
    ASSUME NEW corpus \in Corpora, unitFileSchema(corpus)
    PROVE  corpus \subseteq Record
BY CorpusIs, SourceRecord DEF unitFileSchema

-----------------------------------------------------------------------------
(* What a plan leaves to write.                                             *)

\* The writes an import of "seeds" has to do.
Imports(todo) ==
    /\ \E S : todo \in Seq(S)
    /\ \A i \in DOMAIN todo : todo[i].record \in Record

\* A plan names the records it was made from.
LEMMA ChangesImport ==
    ASSUME NEW seeds \in Seq(Record), NEW T, NEW plan \in [DOMAIN seeds -> T],
           \A i \in DOMAIN seeds : plan[i].record = seeds[i]
    PROVE  Imports(changes(plan))
<1> DEFINE those == {i \in DOMAIN plan : plan[i].action \in {"insert", "update"}}
<1>1. plan \in Seq(T)
  <2>1. DOMAIN seeds = 1 .. Len(seeds) /\ Len(seeds) \in Nat
    OBVIOUS
  <2> QED  BY <2>1
<1>2. those \in SUBSET DOMAIN plan
  OBVIOUS
<1>3. changes(plan) = chosen(plan, those)
  BY DEF changes
<1> HIDE DEF those
<1>4. /\ chosen(plan, those) \in Seq(T)
      /\ \A k \in DOMAIN chosen(plan, those) :
            \E i \in those : chosen(plan, those)[k] = plan[i]
  BY <1>1, <1>2, ChosenIs
<1>5. \A i \in those : plan[i].record \in Record
  BY <1>2
<1> QED  BY <1>3, <1>4, <1>5 DEF Imports

\* Both import plans leave only records to write.
LEMMA PlansImport ==
    ASSUME NEW seeds \in Seq(Record), NEW seen, NEW force
    PROVE  /\ Imports(changes(planImport(seeds, seen, force)))
           /\ Imports(changes(planAdminImport(seeds, seen)))
<1> DEFINE plan == planImport(seeds, seen, force)
           adminPlan == planAdminImport(seeds, seen)
<1>1. /\ \E T : plan \in [DOMAIN seeds -> T]
      /\ \A i \in DOMAIN seeds :
            plan[i] = importAction(seen[seeds[i].slug], seeds[i], force)
  <2>1. plan \in [DOMAIN seeds -> {plan[i] : i \in DOMAIN seeds}]
    BY DEF planImport
  <2> QED  BY <2>1 DEF planImport
<1>2. /\ \E T : adminPlan \in [DOMAIN seeds -> T]
      /\ \A i \in DOMAIN seeds :
            adminPlan[i] = adminImportAction(seen[seeds[i].slug], seeds[i])
  <2>1. adminPlan \in [DOMAIN seeds -> {adminPlan[i] : i \in DOMAIN seeds}]
    BY DEF planAdminImport
  <2> QED  BY <2>1 DEF planAdminImport
<1>3. \A row, record : importAction(row, record, force).record = record
  BY DEF importAction, Plan
<1>4. \A row, record : adminImportAction(row, record).record = record
  BY DEF adminImportAction, Plan
<1> HIDE DEF plan, adminPlan
<1>5. Imports(changes(plan))
  <2>1. PICK T : plan \in [DOMAIN seeds -> T]
    BY <1>1
  <2>2. \A i \in DOMAIN seeds : plan[i].record = seeds[i]
    BY <1>1, <1>3
  <2> QED  BY <2>1, <2>2, ChangesImport
<1>6. Imports(changes(adminPlan))
  <2>1. PICK T : adminPlan \in [DOMAIN seeds -> T]
    BY <1>2
  <2>2. \A i \in DOMAIN seeds : adminPlan[i].record = seeds[i]
    BY <1>2, <1>4
  <2> QED  BY <2>1, <2>2, ChangesImport
<1> QED  BY <1>5, <1>6 DEF plan, adminPlan

\* A row a reorder moves: a unit or a lesson, to a position there is.
OrderedSlug(slug) ==
    slug \in Slug /\ \E r \in Record : r.slug = slug /\ r.kind \in {"unit", "lesson"}
Moves(todo) ==
    /\ \E S : todo \in Seq(S)
    /\ \A i \in DOMAIN todo : OrderedSlug(todo[i].slug) /\ todo[i].order \in Positions

\* What a function makes of finitely many things is finite.
LEMMA FiniteImage ==
    ASSUME NEW f, IsFiniteSet(DOMAIN f)
    PROVE  IsFiniteSet({f[x] : x \in DOMAIN f})
<1> DEFINE T == {f[x] : x \in DOMAIN f}
           g == [x \in DOMAIN f |-> f[x]]
<1>1. g \in Surjection(DOMAIN f, T)
  BY DEF Surjection
<1> QED  BY <1>1, FS_Surjection

\* The positions handed out are those the rows had, or numbers up to their count.
LEMMA NewOrderIs ==
    ASSUME NEW current \in SUBSET Record, NEW slugs \in Seq(Slug),
           IsFiniteSet(current), reorderOk(current, slugs),
           \A r \in current : r.kind \in {"unit", "lesson"}
    PROVE  \A i \in DOMAIN slugs : newOrder(current, slugs)[i] \in Positions
<1> DEFINE orders == {r.order : r \in current}
           positions == sorted(orders, <)
           orderOf == [r \in current |-> r.order]
<1>1. orders \subseteq Positions /\ orders \in SUBSET Nat
  BY MovedRecord, PositionsArePositive
<1>2. IsFiniteSet(orders)
  <2>1. DOMAIN orderOf = current /\ orders = {orderOf[r] : r \in DOMAIN orderOf}
    OBVIOUS
  <2> HIDE DEF orderOf, orders
  <2> QED  BY <2>1, FiniteImage
<1>3. positions \in Seq(orders)
  <2> HIDE DEF orders
  <2> QED  BY <1>1, <1>2, SortedNumbers
<1>4. DOMAIN slugs = 1 .. Len(slugs) /\ Len(slugs) \in Nat
  OBVIOUS
<1>5. Len(slugs) <= Len(Slugs)
  <2>1. ToSet(slugs) \in SUBSET Slug /\ Cardinality(ToSet(slugs)) = Len(slugs)
    BY DEF ToSet, reorderOk
  <2> QED  BY <2>1, <1>4, SlugFinite
<1>6. Len(Slugs) \in Nat
  BY SlugsAssumption
<1>7. ASSUME NEW i \in DOMAIN slugs PROVE newOrder(current, slugs)[i] \in Positions
  <2>1. CASE Len(positions) = Len(slugs)
    <3>1. newOrder(current, slugs) = positions
      BY <2>1 DEF newOrder
    <3>2. positions[i] \in orders
      <4> HIDE DEF positions, orders
      <4> QED  BY <1>3, <1>4, <2>1
    <3> HIDE DEF positions, orders
    <3> QED  BY <3>1, <3>2, <1>1
  <2>2. CASE Len(positions) # Len(slugs)
    <3>1. newOrder(current, slugs)[i] = i
      BY <2>2 DEF newOrder
    <3>2. i \in 1 .. Len(Slugs)
      BY <1>4, <1>5, <1>6
    <3> QED  BY <3>1, <3>2 DEF Positions
  <2> QED  BY <2>1, <2>2
<1> QED  BY <1>7

\* A reorder leaves only moves of the rows it was given.
LEMMA PlansMove ==
    ASSUME NEW current \in SUBSET Record, NEW slugs \in Seq(Slug),
           IsFiniteSet(current), reorderOk(current, slugs),
           \A r \in current : r.kind \in {"unit", "lesson"}
    PROVE  /\ Moves(planReorder(current, slugs))
           /\ \A i \in DOMAIN planReorder(current, slugs) :
                 planReorder(current, slugs)[i].slug \in {r.slug : r \in current}
<1> DEFINE order == newOrder(current, slugs)
           all == [i \in DOMAIN slugs |-> [slug |-> slugs[i], order |-> order[i]]]
           T == {all[i] : i \in DOMAIN slugs}
           those == {i \in DOMAIN slugs : \A r \in current :
                        r.slug = slugs[i] => r.order # order[i]}
<1>1. \A i \in DOMAIN slugs : order[i] \in Positions
  BY NewOrderIs
<1>2. \A i \in DOMAIN slugs : slugs[i] \in {r.slug : r \in current}
  BY DEF reorderOk, ToSet
<1>3. \A i \in DOMAIN slugs : slugs[i] \in Slug
  OBVIOUS
<1>4. planReorder(current, slugs) = chosen(all, those)
  BY DEF planReorder
<1>5. all \in Seq(T)
  <2>1. DOMAIN slugs = 1 .. Len(slugs) /\ Len(slugs) \in Nat
    OBVIOUS
  <2> QED  BY <2>1
<1>6. DOMAIN all = DOMAIN slugs /\ those \in SUBSET DOMAIN all
  OBVIOUS
<1>7. \A i \in DOMAIN all : all[i].slug = slugs[i] /\ all[i].order = order[i]
  OBVIOUS
<1> HIDE DEF order, all, T, those
<1>8. /\ chosen(all, those) \in Seq(T)
      /\ \A k \in DOMAIN chosen(all, those) :
            \E i \in those : chosen(all, those)[k] = all[i]
  BY <1>5, <1>6, ChosenIs
<1>9. ASSUME NEW k \in DOMAIN chosen(all, those)
      PROVE  /\ chosen(all, those)[k].slug \in {r.slug : r \in current}
             /\ OrderedSlug(chosen(all, those)[k].slug)
             /\ chosen(all, those)[k].order \in Positions
  <2>1. PICK i \in DOMAIN slugs : chosen(all, those)[k] = all[i]
    BY <1>6, <1>8
  <2> QED  BY <2>1, <1>1, <1>2, <1>3, <1>6, <1>7 DEF OrderedSlug
<1> QED  BY <1>4, <1>8, <1>9 DEF Moves

-----------------------------------------------------------------------------
(* Releases.                                                                *)

\* What learners are served from.
Good(release) ==
    /\ {"tree", "lessons", "checkpoints", "items"} \subseteq DOMAIN release
    /\ Whole(release) /\ TaughtFirst(release)

\* A number changes nothing of it.
LEMMA NumberedKeeps ==
    ASSUME NEW release, NEW number, Good(release)
    PROVE  Good(numbered(release, number)) /\ numbered(release, number).version = number
<1> DEFINE it == numbered(release, number)
<1>1. /\ DOMAIN it = DOMAIN release \union {"version"} /\ it.version = number
      /\ it.tree = release.tree /\ it.lessons = release.lessons
      /\ it.checkpoints = release.checkpoints /\ it.items = release.items
  BY DEF numbered, Good
<1> HIDE DEF it
<1>2. Whole(it)
  BY <1>1 DEF Good, Whole
<1>3. TaughtFirst(it)
  <2>1. \A id : lessonIn(it, id) = lessonIn(release, id)
    BY <1>1 DEF lessonIn
  <2>2. itemIds(it) = itemIds(release)
    BY <1>1 DEF itemIds
  <2>3. pathOf(it) = pathOf(release)
    BY <1>1 DEF pathOf
  <2> DEFINE ids == pathOf(release)
             taught(r, p) == introducedIn(lessonIn(r, ids[p]))
  <2>4. TaughtFirst(release)
    BY DEF Good
  <2>5. /\ \A p \in DOMAIN ids : usedItems(lessonIn(release, ids[p])) \subseteq
                                     UNION {taught(release, q) : q \in 1 .. p}
        /\ \A p, q \in DOMAIN ids :
              p # q => taught(release, p) \intersect taught(release, q) = {}
        /\ itemIds(release) = UNION {taught(release, p) : p \in DOMAIN ids}
    BY <2>4 DEF TaughtFirst, pathOf
  <2>6. \A p : taught(it, p) = taught(release, p)
    BY <2>1
  <2> HIDE DEF ids, taught
  <2>7. \A p : UNION {taught(release, q) : q \in 1 .. p} = UNION {taught(it, q) : q \in 1 .. p}
    BY <2>6
  <2>8. UNION {taught(release, p) : p \in DOMAIN ids} = UNION {taught(it, p) : p \in DOMAIN ids}
    BY <2>6
  <2>9. /\ \A p \in DOMAIN ids : usedItems(lessonIn(it, ids[p])) \subseteq
                                     UNION {taught(it, q) : q \in 1 .. p}
        /\ \A p, q \in DOMAIN ids :
              p # q => taught(it, p) \intersect taught(it, q) = {}
        /\ itemIds(it) = UNION {taught(it, p) : p \in DOMAIN ids}
    BY <2>1, <2>2, <2>5, <2>6, <2>7, <2>8
  <2>10. pathOf(it) = ids
    BY <2>3 DEF ids
  <2> QED  BY <2>9, <2>10 DEF TaughtFirst, pathOf, taught
<1>4. {"tree", "lessons", "checkpoints", "items"} \subseteq DOMAIN it
  BY <1>1 DEF Good
<1> QED  BY <1>1, <1>2, <1>3, <1>4 DEF Good, it

\* What is built of a corpus that was let through is such a release.
LEMMA BuiltGood ==
    ASSUME NEW corpus, Publishable(corpus)
    PROVE  Good(buildRelease(corpus))
<1>1. {"tree", "lessons", "checkpoints", "items"} \subseteq DOMAIN buildRelease(corpus)
  BY DEF buildRelease
<1> QED  BY <1>1, BuiltWhole, BuiltTaughtFirst DEF Good

-----------------------------------------------------------------------------
(* The rows, as they are and as each transaction sees them.                 *)

\* Every row is typed and under its slug, and a unit has one checkpoint.
Sound(table) ==
    /\ table \in [Slug -> Row \union {None}]
    /\ \A s \in Slug : table[s] # None => table[s].record.slug = s
    /\ oneCheckpointEach(table)

\* What a transaction has written.
Written(written) ==
    /\ DOMAIN written \subseteq Slug
    /\ \A s \in DOMAIN written :
          written[s] \in Row /\ written[s].record.slug = s

over(written, table) ==
    [s \in Slug |-> IF s \in DOMAIN written THEN written[s] ELSE table[s]]

\* What two transactions have written is not in each other's way.
Apart(one, other) ==
    /\ DOMAIN one \intersect DOMAIN other = {}
    /\ \A s \in DOMAIN one, t \in DOMAIN other :
          one[s].record.kind = "checkpoint" /\ other[t].record.kind = "checkpoint" =>
              one[s].record.unit # other[t].record.unit

Publishes == {"lock", "copy", "flip", "create", "point"}

Steady ==
    /\ Sound(rows)
    /\ \A p \in Process :
          /\ Written(job[p].written)
          /\ Sound(over(job[p].written, rows))
          /\ job[p].pc \in Publishes =>
                \A s \in DOMAIN job[p].written :
                    rows[s] # None /\ job[p].written[s].record = rows[s].record
          /\ \A q \in Process \ {p} : Apart(job[p].written, job[q].written)

\* A row is not None.
LEMMA RowIsSome == \A row \in Row : row # None
BY AuthoringAssumption

\* What a statement sees is a row of the transaction, or a committed one.
LEMMA ViewIs ==
    ASSUME NEW p
    PROVE  /\ view(p) = over(job[p].written, rows)
           /\ \A s \in Slug :
                 view(p)[s] = IF s \in DOMAIN job[p].written
                              THEN job[p].written[s] ELSE rows[s]
BY DEF view, over

\* A transaction that has written nothing.
LEMMA NothingWritten ==
    /\ Written(<<>>) /\ DOMAIN <<>> = {}
    /\ \A table : Sound(table) => over(<<>>, table) = table
    /\ \A other : Apart(<<>>, other) /\ Apart(other, <<>>)
<1>1. DOMAIN <<>> = {}
  OBVIOUS
<1>2. ASSUME NEW table, Sound(table)
      PROVE  over(<<>>, table) = table
  BY <1>1, <1>2 DEF Sound, over
<1> QED  BY <1>1, <1>2 DEF Written, Apart

\* Committing what one transaction has written.
LEMMA CommitSound ==
    ASSUME NEW table, NEW one, NEW other, Sound(table),
           Written(one), Written(other), Apart(one, other),
           Sound(over(one, table)), Sound(over(other, table))
    PROVE  Sound(over(other, over(one, table)))
<1> DEFINE after == over(other, over(one, table))
<1>1. \A s \in Slug : after[s] = IF s \in DOMAIN other THEN over(other, table)[s]
                                 ELSE over(one, table)[s]
  BY DEF over
<1>2. after = [s \in Slug |-> after[s]]
  BY DEF over
<1>3. \A s \in Slug : after[s] \in Row \union {None}
  BY <1>1 DEF Sound
<1>4. after \in [Slug -> Row \union {None}]
  <2> HIDE DEF after
  <2> QED  BY <1>2, <1>3
<1>5. \A s \in Slug : after[s] # None => after[s].record.slug = s
  BY <1>1 DEF Sound
<1>6. oneCheckpointEach(after)
  <2> SUFFICES ASSUME NEW s \in Slug, NEW t \in Slug,
                      after[s] # None, after[s].record.kind = "checkpoint",
                      after[t] # None, after[t].record.kind = "checkpoint",
                      after[s].record.unit = after[t].record.unit
               PROVE  s = t
    BY DEF oneCheckpointEach
  <2> DEFINE otherSees == over(other, table)
             oneSees == over(one, table)
  <2>0. /\ \A x \in Slug : otherSees[x] = IF x \in DOMAIN other THEN other[x] ELSE table[x]
        /\ \A x \in Slug : oneSees[x] = IF x \in DOMAIN one THEN one[x] ELSE table[x]
        /\ \A x \in Slug : after[x] = IF x \in DOMAIN other THEN otherSees[x] ELSE oneSees[x]
    BY <1>1 DEF over
  <2>1. oneCheckpointEach(otherSees) /\ oneCheckpointEach(oneSees)
    BY DEF Sound
  <2> HIDE DEF after, otherSees, oneSees
  <2>2. CASE s \in DOMAIN other /\ t \in DOMAIN other
    BY <2>0, <2>1, <2>2 DEF oneCheckpointEach
  <2>3. CASE s \notin DOMAIN other /\ t \notin DOMAIN other
    BY <2>0, <2>1, <2>3 DEF oneCheckpointEach
  <2>4. CASE s \in DOMAIN other /\ t \notin DOMAIN other
    <3>1. CASE t \in DOMAIN one
      BY <2>0, <2>4, <3>1 DEF Apart
    <3>2. CASE t \notin DOMAIN one
      BY <2>0, <2>1, <2>4, <3>2 DEF oneCheckpointEach
    <3> QED  BY <3>1, <3>2
  <2>5. CASE s \notin DOMAIN other /\ t \in DOMAIN other
    <3>1. CASE s \in DOMAIN one
      BY <2>0, <2>5, <3>1 DEF Apart
    <3>2. CASE s \notin DOMAIN one
      BY <2>0, <2>1, <2>5, <3>2 DEF oneCheckpointEach
    <3> QED  BY <3>1, <3>2
  <2> QED  BY <2>2, <2>3, <2>4, <2>5
<1> QED  BY <1>4, <1>5, <1>6 DEF Sound

-----------------------------------------------------------------------------
(* The four things a step may do to rows.                                   *)

\* A step that writes nothing, or gives up what it wrote.
WritesNothing(p) ==
    /\ rows' = rows
    /\ job'[p].written \in {job[p].written, <<>>}
    /\ job'[p].written # <<>> => (job'[p].pc \in Publishes <=> job[p].pc \in Publishes)

\* Giving up, or writing nothing, leaves the rows steady.
LEMMA WritesNothingSteady ==
    ASSUME Steady, JobTyped, NEW p \in Process, WritesNothing(p),
           \A q \in Process \ {p} : job'[q] = job[q]
    PROVE  Steady'
<1>1. Sound(rows')
  BY DEF Steady, WritesNothing
<1>2. ASSUME NEW q \in Process
      PROVE  /\ job'[q].written \in {job[q].written, <<>>}
             /\ job'[q].written # <<>> => (job'[q].pc \in Publishes <=> job[q].pc \in Publishes)
  BY DEF WritesNothing
<1>3. ASSUME NEW q \in Process PROVE Written(job'[q].written)
  BY <1>2, NothingWritten DEF Steady
<1>4. ASSUME NEW q \in Process PROVE Sound(over(job'[q].written, rows'))
  <2>1. CASE job'[q].written = job[q].written
    BY <2>1 DEF Steady, WritesNothing
  <2>2. CASE job'[q].written = <<>>
    BY <2>2, <1>1, NothingWritten
  <2> QED  BY <1>2, <2>1, <2>2
<1>5. ASSUME NEW q \in Process, job'[q].pc \in Publishes, NEW s \in DOMAIN job'[q].written
      PROVE  rows'[s] # None /\ job'[q].written[s].record = rows'[s].record
  <2>1. job'[q].written # <<>>
    BY <1>5, NothingWritten
  <2>2. job'[q].written = job[q].written /\ job[q].pc \in Publishes /\ rows' = rows
    BY <1>2, <1>5, <2>1 DEF WritesNothing
  <2> QED  BY <1>5, <2>2 DEF Steady
<1>6. ASSUME NEW q \in Process, NEW o \in Process \ {q}
      PROVE  Apart(job'[q].written, job'[o].written)
  <2>1. Apart(job[q].written, job[o].written)
    BY DEF Steady
  <2>2. o \in Process
    OBVIOUS
  <2> QED  BY <1>2, <2>1, <2>2, NothingWritten
<1> QED  BY <1>1, <1>3, <1>4, <1>5, <1>6 DEF Steady

\* A commit.
Commits(p) == rows' = view(p) /\ job'[p].written = <<>>

\* So does a commit: what the others have written stays apart from it.
LEMMA CommitsSteady ==
    ASSUME Steady, NEW p \in Process, Commits(p),
           \A q \in Process \ {p} : job'[q] = job[q]
    PROVE  Steady'
<1>1. rows' = over(job[p].written, rows) /\ job'[p].written = <<>>
  BY ViewIs DEF Commits
<1>2. Sound(rows')
  BY <1>1 DEF Steady
<1>3. ASSUME NEW q \in Process PROVE Written(job'[q].written)
  BY <1>1, NothingWritten DEF Steady
<1>4. ASSUME NEW q \in Process PROVE Sound(over(job'[q].written, rows'))
  <2>1. CASE q = p
    BY <2>1, <1>1, <1>2, NothingWritten
  <2>2. CASE q # p
    <3>1. /\ Apart(job[p].written, job[q].written) /\ Sound(rows)
          /\ Written(job[p].written) /\ Written(job[q].written)
          /\ Sound(over(job[p].written, rows)) /\ Sound(over(job[q].written, rows))
      BY <2>2 DEF Steady
    <3>2. Sound(over(job[q].written, over(job[p].written, rows)))
      BY <3>1, CommitSound
    <3> QED  BY <1>1, <2>2, <3>2
  <2> QED  BY <2>1, <2>2
<1>5. ASSUME NEW q \in Process, job'[q].pc \in Publishes, NEW s \in DOMAIN job'[q].written
      PROVE  rows'[s] # None /\ job'[q].written[s].record = rows'[s].record
  <2>1. q # p
    BY <1>1, <1>5, NothingWritten
  <2>2. job'[q] = job[q] /\ s \in DOMAIN job[q].written /\ job[q].pc \in Publishes
    BY <1>5, <2>1
  <2>3. s \in Slug /\ s \notin DOMAIN job[p].written
    BY <2>1, <2>2 DEF Steady, Written, Apart
  <2>4. rows'[s] = rows[s]
    BY <1>1, <2>3 DEF over
  <2> QED  BY <2>2, <2>4 DEF Steady
<1>6. ASSUME NEW q \in Process, NEW o \in Process \ {q}
      PROVE  Apart(job'[q].written, job'[o].written)
  <2>1. Apart(job[q].written, job[o].written)
    BY DEF Steady
  <2> QED  BY <1>1, <2>1, NothingWritten
<1> QED  BY <1>2, <1>3, <1>4, <1>5, <1>6 DEF Steady

\* What is apart one way is the other way.
LEMMA ApartBothWays ==
    ASSUME NEW one, NEW other, Apart(one, other)
    PROVE  Apart(other, one)
BY DEF Apart

\* Nobody else wrote the row, nor a checkpoint of its unit.
NotOthers(p, record) ==
    \A q \in Process \ {p} :
        /\ record.slug \notin DOMAIN job[q].written
        /\ record.kind = "checkpoint" => ~sameUnit(q, record)

\* A write of one row.
Writes(p, row) ==
    /\ rows' = rows
    /\ row \in Row
    /\ job'[p].written = withRow(job[p].written, row.record.slug, row)
    /\ job'[p].pc \notin Publishes
    /\ NotOthers(p, row.record)
    /\ row.record.kind = "checkpoint" => ~otherCheckpoint(p, row.record)

\* So does one row written, which the lock of the row or the unique index lets
\* through only when no other transaction is in its way.
LEMMA WritesSteady ==
    ASSUME Steady, NEW p \in Process, NEW row, Writes(p, row),
           \A q \in Process \ {p} : job'[q] = job[q]
    PROVE  Steady'
<1> DEFINE s == row.record.slug
           was == job[p].written
           now == job'[p].written
<1>1. row \in Row /\ row.record \in Record /\ s \in Slug /\ row # None
  BY RecordIs, RowIsSome DEF Writes, Row
<1>2. /\ DOMAIN now = DOMAIN was \union {s} /\ now[s] = row
      /\ \A t \in DOMAIN was : t # s => now[t] = was[t]
  BY DEF Writes, withRow
<1>3. Written(was) /\ Sound(over(was, rows)) /\ Sound(rows) /\ rows' = rows
  BY DEF Steady, Writes
<1>4. Written(now)
  <2> HIDE DEF was, now
  <2> QED  BY <1>1, <1>2, <1>3 DEF Written
<1>5. \A t \in Slug : over(now, rows)[t] = IF t = s THEN row ELSE over(was, rows)[t]
  <2> HIDE DEF was, now
  <2> QED  BY <1>1, <1>2 DEF over
<1>6. Sound(over(now, rows))
  <2> DEFINE after == over(now, rows)
             before == over(was, rows)
  <2>1. after = [t \in Slug |-> after[t]]
    BY DEF over
  <2>2. \A t \in Slug : after[t] = IF t = s THEN row ELSE before[t]
    BY <1>5
  <2>3. Sound(before)
    BY <1>3
  <2>4. row.record.kind = "checkpoint" =>
            \A t \in Slug \ {s} :
                before[t] # None /\ before[t].record.kind = "checkpoint" =>
                    before[t].record.unit # row.record.unit
    BY ViewIs DEF Writes, otherCheckpoint
  <2> HIDE DEF after, before
  <2>5. \A t \in Slug : after[t] \in Row \union {None}
    BY <2>2, <2>3, <1>1 DEF Sound
  <2>6. after \in [Slug -> Row \union {None}]
    BY <2>1, <2>5
  <2>7. \A t \in Slug : after[t] # None => after[t].record.slug = t
    BY <2>2, <2>3 DEF Sound
  <2>8. oneCheckpointEach(after)
    <3> SUFFICES ASSUME NEW x \in Slug, NEW y \in Slug,
                        after[x] # None, after[x].record.kind = "checkpoint",
                        after[y] # None, after[y].record.kind = "checkpoint",
                        after[x].record.unit = after[y].record.unit
                 PROVE  x = y
      BY DEF oneCheckpointEach
    <3>1. CASE x = s \/ y = s
      BY <3>1, <2>2, <2>4
    <3>2. CASE x # s /\ y # s
      BY <3>2, <2>2, <2>3 DEF Sound, oneCheckpointEach
    <3> QED  BY <3>1, <3>2
  <2> QED  BY <2>6, <2>7, <2>8 DEF Sound, after
<1>7. ASSUME NEW q \in Process \ {p} PROVE Apart(now, job[q].written)
  <2>1. Apart(was, job[q].written)
    BY DEF Steady
  <2>2. /\ s \notin DOMAIN job[q].written
        /\ row.record.kind = "checkpoint" =>
              \A t \in DOMAIN job[q].written :
                  job[q].written[t].record.kind = "checkpoint" =>
                      job[q].written[t].record.unit # row.record.unit
    BY DEF Writes, NotOthers, sameUnit
  <2> HIDE DEF was, now
  <2> QED  BY <1>2, <2>1, <2>2 DEF Apart
<1>8. ASSUME NEW q \in Process
      PROVE  /\ Written(job'[q].written) /\ Sound(over(job'[q].written, rows'))
             /\ job'[q].pc \in Publishes =>
                   \A t \in DOMAIN job'[q].written :
                       rows'[t] # None /\ job'[q].written[t].record = rows'[t].record
  <2>1. CASE q = p
    BY <2>1, <1>3, <1>4, <1>6 DEF Writes
  <2>2. CASE q # p
    BY <2>2, <1>3 DEF Steady
  <2> QED  BY <2>1, <2>2
<1>9. ASSUME NEW q \in Process, NEW o \in Process \ {q}
      PROVE  Apart(job'[q].written, job'[o].written)
  <2>1. CASE q = p
    BY <2>1, <1>7
  <2>2. CASE o = p
    BY <2>2, <1>7, ApartBothWays
  <2>3. CASE q # p /\ o # p
    BY <2>3 DEF Steady
  <2> QED  BY <2>1, <2>2, <2>3
<1> QED  BY <1>3, <1>8, <1>9 DEF Steady

\* A row written again with the record it has is in nobody's way, unless
\* somebody else has written it.
LEMMA SameRecord ==
    ASSUME Steady, NEW p \in Process, NEW s \in Slug, view(p)[s] # None,
           \A q \in Process \ {p} : s \notin DOMAIN job[q].written
    PROVE  /\ view(p)[s] \in Row /\ view(p)[s].record.slug = s
           /\ NotOthers(p, view(p)[s].record)
           /\ view(p)[s].record.kind = "checkpoint" =>
                 ~otherCheckpoint(p, view(p)[s].record)
<1> DEFINE row == view(p)[s]
<1>1. Sound(view(p))
  BY ViewIs DEF Steady
<1>2. row \in Row /\ row.record.slug = s
  BY <1>1 DEF Sound
<1>3. ASSUME row.record.kind = "checkpoint" PROVE ~otherCheckpoint(p, row.record)
  BY <1>1, <1>2, <1>3 DEF Sound, oneCheckpointEach, otherCheckpoint
<1>4. ASSUME NEW q \in Process \ {p}, row.record.kind = "checkpoint", sameUnit(q, row.record)
      PROVE  FALSE
  <2>1. PICK t \in DOMAIN job[q].written :
           /\ job[q].written[t].record.kind = "checkpoint"
           /\ job[q].written[t].record.unit = row.record.unit
    BY <1>4 DEF sameUnit
  <2>2. CASE s \in DOMAIN job[p].written
    <3>1. row = job[p].written[s] /\ Apart(job[p].written, job[q].written)
      BY <2>2, ViewIs DEF Steady
    <3> QED  BY <2>1, <2>2, <3>1, <1>4 DEF Apart
  <2>3. CASE s \notin DOMAIN job[p].written
    <3>1. row = rows[s] /\ view(q)[s] = rows[s]
      BY <2>3, ViewIs
    <3>2. t \in Slug /\ view(q)[t] = job[q].written[t] /\ job[q].written[t] \in Row
      BY <2>1, ViewIs DEF Steady, Written
    <3>3. oneCheckpointEach(view(q))
      BY ViewIs DEF Steady, Sound
    <3>4. s = t
      BY <2>1, <3>1, <3>2, <3>3, <1>4, RowIsSome DEF oneCheckpointEach
    <3> QED  BY <2>1, <3>4
  <2> QED  BY <2>2, <2>3
<1> HIDE DEF row
<1>5. NotOthers(p, row.record)
  BY <1>2, <1>4 DEF NotOthers
<1> QED  BY <1>2, <1>3, <1>5 DEF row

\* Marking committed drafts as published.
Flips(p, those) ==
    /\ rows' = rows
    /\ those \subseteq {s \in Slug : rows[s] # None}
    /\ \A q \in Process \ {p} : those \intersect DOMAIN job[q].written = {}
    /\ job[p].pc \in Publishes
    /\ job'[p].written =
          [s \in DOMAIN job[p].written \union those |->
              IF s \in those THEN [rows[s] EXCEPT !.status = "PUBLISHED"]
              ELSE job[p].written[s]]

\* So do rows published, whose records stay as they are.
LEMMA FlipsSteady ==
    ASSUME Steady, NEW p \in Process, NEW those, Flips(p, those),
           \A q \in Process \ {p} : job'[q] = job[q]
    PROVE  Steady'
<1> DEFINE was == job[p].written
           now == job'[p].written
<1>1. those \subseteq Slug /\ rows' = rows /\ Sound(rows)
  BY DEF Flips, Steady
<1>2. ASSUME NEW s \in those
      PROVE  /\ [rows[s] EXCEPT !.status = "PUBLISHED"] \in Row
             /\ [rows[s] EXCEPT !.status = "PUBLISHED"].record = rows[s].record
             /\ rows[s].record.slug = s /\ rows[s] # None
  BY <1>1 DEF Flips, Sound, Row, Statuses
<1>3. /\ DOMAIN now = DOMAIN was \union those
      /\ \A s \in those : now[s] = [rows[s] EXCEPT !.status = "PUBLISHED"]
      /\ \A s \in DOMAIN was : s \notin those => now[s] = was[s]
  BY DEF Flips
<1>4. /\ Written(was) /\ Sound(over(was, rows))
      /\ \A s \in DOMAIN was : rows[s] # None /\ was[s].record = rows[s].record
  BY DEF Steady, Flips
<1> HIDE DEF was, now
<1>5. ASSUME NEW s \in DOMAIN now
      PROVE  /\ now[s] \in Row /\ now[s].record = rows[s].record
             /\ now[s].record.slug = s /\ rows[s] # None
  <2>1. CASE s \in those
    <3>1. now[s] = [rows[s] EXCEPT !.status = "PUBLISHED"]
      BY <1>3, <2>1
    <3>2. /\ [rows[s] EXCEPT !.status = "PUBLISHED"] \in Row
          /\ [rows[s] EXCEPT !.status = "PUBLISHED"].record = rows[s].record
          /\ rows[s].record.slug = s /\ rows[s] # None
      BY <1>2, <2>1
    <3> QED  BY <3>1, <3>2
  <2>2. CASE s \notin those
    <3>1. s \in DOMAIN was /\ now[s] = was[s]
      BY <1>3, <2>2
    <3> QED  BY <1>4, <3>1 DEF Written
  <2> QED  BY <2>1, <2>2
<1>6. Written(now)
  BY <1>1, <1>3, <1>4, <1>5 DEF Written
<1>7. Sound(over(now, rows))
  <2> DEFINE after == over(now, rows)
  <2>1. after = [t \in Slug |-> after[t]]
    BY DEF over
  <2>2. \A t \in Slug : after[t] = IF t \in DOMAIN now THEN now[t] ELSE rows[t]
    BY DEF over
  <2> HIDE DEF after
  <2>3. \A t \in Slug : /\ after[t] \in Row \union {None}
                        /\ after[t] # None => rows[t] # None /\ after[t].record = rows[t].record
    BY <2>2, <1>1, <1>5 DEF Sound
  <2>4. after \in [Slug -> Row \union {None}]
    BY <2>1, <2>3
  <2>5. \A t \in Slug : after[t] # None => after[t].record.slug = t
    BY <2>3, <1>1 DEF Sound
  <2>6. oneCheckpointEach(after)
    BY <2>3, <1>1 DEF Sound, oneCheckpointEach
  <2> QED  BY <2>4, <2>5, <2>6 DEF Sound, after
<1>8. ASSUME NEW q \in Process \ {p} PROVE Apart(now, job[q].written)
  <2> DEFINE other == job[q].written
  <2>1. DOMAIN now \intersect DOMAIN other = {}
    BY <1>3 DEF Steady, Apart, Flips, was
  <2>2. /\ \A s \in Slug : s \notin DOMAIN other => over(other, rows)[s] = rows[s]
        /\ \A t \in DOMAIN other : over(other, rows)[t] = other[t] /\ t \in Slug /\ other[t] # None
    BY RowIsSome DEF over, Steady, Written
  <2>3. oneCheckpointEach(over(other, rows))
    BY DEF Steady, Sound
  <2> HIDE DEF other
  <2>4. \A s \in DOMAIN now : s \in Slug
    BY <1>6 DEF Written
  <2> QED  BY <2>1, <2>2, <2>3, <2>4, <1>5 DEF Apart, oneCheckpointEach, other
<1>9. ASSUME NEW q \in Process
      PROVE  /\ Written(job'[q].written) /\ Sound(over(job'[q].written, rows'))
             /\ job'[q].pc \in Publishes =>
                   \A t \in DOMAIN job'[q].written :
                       rows'[t] # None /\ job'[q].written[t].record = rows'[t].record
  <2>1. CASE q = p
    BY <2>1, <1>1, <1>5, <1>6, <1>7 DEF now
  <2>2. CASE q # p
    BY <2>2, <1>1 DEF Steady
  <2> QED  BY <2>1, <2>2
<1>10. ASSUME NEW q \in Process, NEW o \in Process \ {q}
      PROVE  Apart(job'[q].written, job'[o].written)
  <2>1. CASE q = p
    BY <2>1, <1>8 DEF now
  <2>2. CASE o = p
    BY <2>2, <1>8, ApartBothWays DEF now
  <2>3. CASE q # p /\ o # p
    BY <2>3 DEF Steady
  <2> QED  BY <2>1, <2>2, <2>3
<1> QED  BY <1>1, <1>9, <1>10 DEF Steady

-----------------------------------------------------------------------------
(* What each step does to the rows.                                         *)

\* A row the process sees: it wrote it, or it is committed.
Known(p, s) == s \in DOMAIN job[p].written \/ rows[s] # None

\* A row that is known to be there is seen, with its slug.
LEMMA KnownRow ==
    ASSUME Steady, NEW p \in Process, NEW s \in Slug, Known(p, s)
    PROVE  view(p)[s] \in Row /\ view(p)[s] # None /\ view(p)[s].record.slug = s
<1>1. Sound(view(p)) /\ Written(job[p].written)
  BY ViewIs DEF Steady
<1>2. view(p)[s] # None
  BY <1>1, ViewIs, RowIsSome DEF Known, Written
<1> QED  BY <1>1, <1>2 DEF Sound

\* What a transaction sees is committed or its own.
LEMMA SeenIsKnown ==
    ASSUME NEW p \in Process, NEW s \in Slug, view(p)[s] # None
    PROVE  Known(p, s)
BY ViewIs DEF Known

Fields == DOMAIN job = Process /\ \A p \in Process : DOMAIN job[p] = DOMAIN Idle

\* A job that goes on with nothing new written.
LEMMA GoWritesNothing ==
    ASSUME Fields, NEW p \in Process, NEW j, Go(p, j), rows' = rows,
           j.written \in {job[p].written, <<>>},
           j.written # <<>> => (j.pc \in Publishes <=> job[p].pc \in Publishes)
    PROVE  WritesNothing(p)
BY DEF WritesNothing, Go, Fields

\* A job that ends without a commit writes nothing.
LEMMA EndWritesNothing ==
    ASSUME Fields, NEW p \in Process, End(p), rows' = rows
    PROVE  WritesNothing(p)
BY GoWritesNothing DEF End, Idle

\* The steps that write no row.
Rowless(p) ==
    \/ Quiet(p) /\ ~SetStatus(p) /\ ~Write(p) /\ ~Commit(p)
    \/ Validate(p) \/ CreateRelease(p) \/ Activate(p) \/ DropPointer(p) \/ SendRetired(p)

\* Nor does any step that is no write, commit or end of a transaction.
LEMMA RowlessEffect ==
    ASSUME Fields, NEW p \in Process, Rowless(p)
    PROVE  WritesNothing(p)
<1> USE DEF Publishes, At
<1>0. DOMAIN job[p] = DOMAIN Idle /\ DOMAIN job[p] = {"pc", "request", "seen", "left",
          "todo", "written", "refused", "against", "built"}
  BY DEF Fields, Idle
<1>1. ASSUME NEW q \in RequestName, Receive(p, q) \/ CheckForChanges(p, q)
      PROVE  WritesNothing(p)
  <2>1. CASE Receive(p, q)
    BY <2>1, GoWritesNothing DEF Receive, Idle
  <2>2. CASE CheckForChanges(p, q)
    BY <2>2, GoWritesNothing DEF CheckForChanges, Idle
  <2> QED  BY <1>1, <2>1, <2>2
<1>2. CASE FindForCreate(p) \/ FindForUpdate(p) \/ FindForArchive(p)
  BY <1>0, <1>2, GoWritesNothing, EndWritesNothing DEF FindForCreate, FindForUpdate, FindForArchive
<1>3. CASE FindForRestore(p) \/ FindParent(p) \/ CheckEmpty(p)
  BY <1>0, <1>3, GoWritesNothing, EndWritesNothing DEF FindForRestore, FindParent, CheckEmpty
<1>4. CASE FindChildren(p) \/ Reread(p) \/ RereadPart(p)
  BY <1>0, <1>4, GoWritesNothing, EndWritesNothing DEF FindChildren, Reread, RereadPart
<1>5. CASE CheckParent(p) \/ CheckOthers(p)
  <2>0. job[p].pc \notin Publishes
    BY <1>5 DEF CheckParent, CheckOthers
  <2>1. Refuse(p) /\ rows' = rows => WritesNothing(p)
    BY <1>0, <2>0, NextStepIsQuiet, GoWritesNothing, EndWritesNothing DEF Refuse
  <2>2. ASSUME NEW pc \in {"write", "checkOthers"}, Go(p, [job[p] EXCEPT !.pc = pc]), rows' = rows
        PROVE  WritesNothing(p)
    BY <1>0, <2>0, <2>2, GoWritesNothing
  <2> QED  BY <1>5, <2>1, <2>2 DEF CheckParent, CheckOthers
<1>6. CASE PlanUnitImport(p) \/ PlanImport(p)
  BY <1>0, <1>6, NextStepIsQuiet, GoWritesNothing, EndWritesNothing DEF PlanUnitImport, PlanImport
<1>7. CASE ReadTable(p) \/ ReadPart(p)
  BY <1>0, <1>7, GoWritesNothing DEF ReadTable, ReadPart
<1>8. CASE LoadContent(p) \/ ActivateNone(p) \/ TimeOut(p) \/ Stop(p)
  BY <1>0, <1>8, GoWritesNothing, EndWritesNothing DEF LoadContent, ActivateNone, TimeOut, Stop
<1>9. CASE TakeLock(p)
  BY <1>0, <1>9, GoWritesNothing DEF TakeLock
<1>10. CASE PointerHit(p) \/ FillPointer(p)
  <2>1. rows' = rows /\ \E found : Decide(p, found)
    BY <1>10 DEF PointerHit, FillPointer
  <2> QED  BY <2>1, GoWritesNothing, EndWritesNothing DEF Decide, Idle
<1>11. CASE PointerMiss(p)
  BY <1>0, <1>11, GoWritesNothing DEF PointerMiss
<1>12. CASE Validate(p)
  BY <1>0, <1>12, GoWritesNothing, EndWritesNothing DEF Validate
<1>13. CASE CreateRelease(p) \/ Activate(p)
  BY <1>0, <1>13, GoWritesNothing DEF CreateRelease, Activate
<1>14. CASE DropPointer(p) \/ SendRetired(p)
  BY <1>0, <1>14, GoWritesNothing, EndWritesNothing DEF DropPointer, SendRetired
<1> QED  BY <1>1, <1>2, <1>3, <1>4, <1>5, <1>6, <1>7, <1>8, <1>9, <1>10, <1>11, <1>12,
            <1>13, <1>14 DEF Rowless, Quiet

\* A commit, or the end of a transaction that is rolled back.
LEMMA CommitEffect ==
    ASSUME Fields, NEW p \in Process, Commit(p) \/ CommitPublish(p)
    PROVE  Commits(p) \/ WritesNothing(p)
<1>0. DOMAIN job[p] = {"pc", "request", "seen", "left",
          "todo", "written", "refused", "against", "built"}
  BY DEF Fields, Idle
<1>1. CASE Commit(p)
  <2>1. PICK pc : Go(p, [Idle EXCEPT !.pc = pc, !.request = job[p].request]) \/ End(p)
    BY <1>1 DEF Commit
  <2>2. job'[p].written = <<>>
    <3>1. CASE End(p)
      BY <3>1 DEF Go, End, Idle, Fields
    <3>2. CASE Go(p, [Idle EXCEPT !.pc = pc, !.request = job[p].request])
      BY <3>2 DEF Go, Idle, Fields
    <3> QED  BY <2>1, <3>1, <3>2
  <2> QED  BY <1>1, <2>2 DEF Commit, Commits, WritesNothing
<1>2. CASE CommitPublish(p)
  BY <1>0, <1>2 DEF CommitPublish, Commits, Go, Fields
<1> QED  BY <1>1, <1>2

\* The row as archiving or restoring leaves it.
statusRow(p) ==
    [view(p)[target(p)] EXCEPT !.status = IF op(p) = "archive" THEN "ARCHIVED" ELSE "DRAFT"]

\* Archiving and restoring write the row with the record it has.
LEMMA SetStatusEffect ==
    ASSUME Fields, Steady, NEW p \in Process, SetStatus(p),
           target(p) \in Slug, Known(p, target(p))
    PROVE  view(p)[target(p)] \in Row /\ Writes(p, statusRow(p))
<1> DEFINE status == IF op(p) = "archive" THEN "ARCHIVED" ELSE "DRAFT"
           was == view(p)[target(p)]
           row == statusRow(p)
<1>0. DOMAIN job[p] = {"pc", "request", "seen", "left",
          "todo", "written", "refused", "against", "built"}
  BY DEF Fields, Idle
<1>1. was \in Row /\ was # None /\ was.record.slug = target(p)
  BY KnownRow
<1>2. \A q \in Process \ {p} : target(p) \notin DOMAIN job[q].written
  BY DEF SetStatus, Waits, At, writes
<1>3. /\ NotOthers(p, was.record)
      /\ was.record.kind = "checkpoint" => ~otherCheckpoint(p, was.record)
  BY <1>1, <1>2, SameRecord
<1>4. row \in Row /\ row.record = was.record
  BY <1>1 DEF Row, Statuses, statusRow
<1>5. /\ job'[p].written = withRow(job[p].written, target(p), row)
      /\ job'[p].pc = "commit" /\ rows' = rows
  BY <1>0 DEF SetStatus, Go, Fields, statusRow
<1>6. Writes(p, row)
  <2> HIDE DEF row, was
  <2> QED  BY <1>1, <1>3, <1>4, <1>5 DEF Writes, Publishes
<1> QED  BY <1>1, <1>6

\* A write: the database lets it in, and nobody else has it locked.
LEMMA WriteEffect ==
    ASSUME Fields, Steady, NEW p \in Process, Write(p),
           Head(job[p].todo).record \in Record
    PROVE  \/ /\ dbAccepts(p, Head(job[p].todo))
              /\ Writes(p, writeRecord(p, Head(job[p].todo).record))
           \/ WritesNothing(p)
<1> DEFINE record == Head(job[p].todo).record
           row == writeRecord(p, record)
           rest == Tail(job[p].todo)
<1>0. DOMAIN job[p] = {"pc", "request", "seen", "left",
          "todo", "written", "refused", "against", "built"}
  BY DEF Fields, Idle
<1>1. CASE dbAccepts(p, Head(job[p].todo))
  <2>1. /\ job'[p].written = withRow(job[p].written, record.slug, row)
        /\ job'[p].pc = nextStep(p, rest) /\ rows' = rows
    BY <1>0, <1>1 DEF Write, Go, Fields
  <2>2. record.slug \in Slug
    BY RecordIs
  <2>3. Sound(view(p))
    BY ViewIs DEF Steady
  <2>4. row \in Row /\ row.record = record
    BY <2>2, <2>3 DEF writeRecord, Sound, Row, Statuses
  <2>5. record.kind = "checkpoint" => ~otherCheckpoint(p, record)
    BY <1>1 DEF dbAccepts
  <2>6. NotOthers(p, record)
    BY DEF Write, Waits, At, lockedBy, writes, NotOthers
  <2>7. nextStep(p, rest) \notin Publishes
    BY NextStepIsQuiet DEF Publishes
  <2> HIDE DEF row, record, rest
  <2>8. Writes(p, row)
    BY <2>1, <2>4, <2>5, <2>6, <2>7 DEF Writes
  <2> QED  BY <1>1, <2>8 DEF row, record
<1>2. CASE ~dbAccepts(p, Head(job[p].todo))
  BY <1>2, EndWritesNothing DEF Write
<1> QED  BY <1>1, <1>2

\* Marking the drafts of a table as published.
LEMMA FlipEffect ==
    ASSUME Fields, Steady, NEW p \in Process, Flip(p)
    PROVE  Flips(p, drafts(Head(job[p].left)))
<1> DEFINE those == drafts(Head(job[p].left))
<1>0. DOMAIN job[p] = {"pc", "request", "seen", "left",
          "todo", "written", "refused", "against", "built"}
  BY DEF Fields, Idle
<1>1. those \subseteq {s \in Slug : rows[s] # None}
  BY DEF drafts
<1>2. job[p].pc = "flip" /\ rows' = rows
  BY DEF Flip, At
<1>3. \A q \in Process \ {p} : those \intersect DOMAIN job[q].written = {}
  BY DEF Flip, Waits, At, writes
<1>4. job'[p].written =
          [s \in DOMAIN job[p].written \union those |->
              IF s \in those THEN [rows[s] EXCEPT !.status = "PUBLISHED"]
              ELSE job[p].written[s]]
  BY <1>0 DEF Flip, Go, Fields
<1> HIDE DEF those
<1>5. Flips(p, those)
  BY <1>1, <1>2, <1>3, <1>4 DEF Flips, Publishes
<1> QED  BY <1>5 DEF those

-----------------------------------------------------------------------------
(* What a process knows at each of its steps.                               *)

\* What is left to write.
Pending(p, todo) ==
    IF op(p) = "reorder"
    THEN Moves(todo) /\ \A i \in DOMAIN todo : Known(p, todo[i].slug)
    ELSE Imports(todo)

\* The request was let through.
Asked(p) ==
    job[p].pc # "idle" => job[p].request \in RequestName /\ Parses(request(p))

\* The tables read so far hold rows there are, and one checkpoint for a unit.
Reading(p) ==
    job[p].pc \in {"read", "copy"} =>
        /\ Sound(job[p].seen)
        /\ \A s \in Slug : job[p].seen[s] # None => Known(p, s)
        /\ job[p].pc = "read" => job[p].todo \in Seq(Record)

\* There is something to write: a record, or a row to move, which is there; of a
\* lesson to move parts may still be to read.
WritingSteps == {"check", "checkOthers", "write", "reread", "rereadParts"}
Writing(p) ==
    job[p].pc \in WritingSteps =>
        /\ job[p].todo # <<>> /\ \E S : job[p].todo \in Seq(S)
        /\ Pending(p, Tail(job[p].todo))
        /\ IF job[p].pc = "reread"
           THEN /\ op(p) = "reorder"
                /\ OrderedSlug(job[p].todo[1].slug) /\ job[p].todo[1].order \in Positions
                /\ Known(p, job[p].todo[1].slug)
           ELSE job[p].todo[1].record \in Record
        /\ job[p].pc = "rereadParts" =>
              /\ op(p) = "reorder" /\ job[p].todo[1].record.kind = "lesson"
              /\ Known(p, job[p].todo[1].record.slug)

\* The row to archive or restore is there.
Marking(p) ==
    /\ job[p].pc \in {"status", "empty"} =>
          /\ op(p) \in {"archive", "restore"}
          /\ request(p).slug \in Slug /\ Known(p, request(p).slug)
    /\ job[p].pc = "children" => op(p) = "reorder"

\* The release in hand, and the version to cache.
Holding(p) ==
    /\ job[p].pc \in {"flip", "create", "point"} => Good(job[p].built)
    /\ job[p].pc = "point" => job[p].built.version \in 1..version
    /\ job[p].pc = "fill" => job[p].against \in 0..version

Facts(p) == Asked(p) /\ Reading(p) /\ Writing(p) /\ Marking(p) /\ Holding(p)

\* What is stored and cached.
Served ==
    /\ \A i \in DOMAIN releases :
          Good(releases[i]) /\ releases[i].version \in 1..version
    /\ pointer \in 0..version \union {None}
    /\ lock \in Process \union {None} /\ received \in 0..MaxRequests
    /\ disk \in DOMAIN Seeds /\ fingerprint \in DOMAIN Seeds \union {None}

Correct == Fields /\ Steady /\ Served /\ \A p \in Process : Facts(p)

\* Rows do not go away.
RowsStay == \A s \in Slug : rows[s] # None => rows'[s] # None

\* A commit adds rows and changes them; it takes none away.
LEMMA CommitsStay ==
    ASSUME Steady, NEW p \in Process, Commits(p)
    PROVE  RowsStay
<1>1. Written(job[p].written) /\ \A s \in Slug : rows'[s] =
          IF s \in DOMAIN job[p].written THEN job[p].written[s] ELSE rows[s]
  BY ViewIs DEF Steady, Commits
<1> QED  BY <1>1, RowIsSome DEF RowsStay, Written

\* What a process knows does not depend on what the others do.
LEMMA OthersFacts ==
    ASSUME NEW p \in Process, Facts(p), job'[p] = job[p], RowsStay,
           version \in Nat, version' \in Nat, version <= version'
    PROVE  Facts(p)'
<1>1. \A s \in Slug : Known(p, s) => Known(p, s)'
  BY DEF Known, RowsStay
<1>2. op(p)' = op(p) /\ request(p)' = request(p)
  BY DEF op, request
<1>3. ASSUME NEW todo, Pending(p, todo)
      PROVE  IF op(p)' = "reorder"
             THEN Moves(todo) /\ \A i \in DOMAIN todo : Known(p, todo[i].slug)'
             ELSE Imports(todo)
  BY <1>1, <1>2, <1>3 DEF Pending, Moves, OrderedSlug
<1>4. Asked(p)'
  BY <1>2 DEF Facts, Asked
<1>5. Reading(p)'
  BY <1>1 DEF Facts, Reading
<1>6. Writing(p)'
  <2> SUFFICES ASSUME job[p].pc \in WritingSteps
               PROVE  Writing(p)'
    BY DEF Writing, WritingSteps
  <2>1. Writing(p)
    BY DEF Facts
  <2>2. Pending(p, Tail(job[p].todo))'
    BY <1>3, <2>1 DEF Writing, WritingSteps, Pending
  <2>3. job[p].pc = "rereadParts" =>
            /\ job[p].todo[1].record.slug \in Slug
            /\ Known(p, job[p].todo[1].record.slug)'
    <3>1. \A r \in Record : r.slug \in Slug
      BY RecordIs
    <3> QED  BY <1>1, <2>1, <3>1 DEF Writing, WritingSteps
  <2> QED  BY <1>1, <1>2, <2>1, <2>2, <2>3 DEF Writing, WritingSteps, OrderedSlug
<1>7. Marking(p)'
  BY <1>1, <1>2 DEF Facts, Marking
<1>8. Holding(p)'
  BY DEF Facts, Holding
<1> QED  BY <1>4, <1>5, <1>6, <1>7, <1>8 DEF Facts

-----------------------------------------------------------------------------
(* The process of the step.                                                 *)

Telling == WritingSteps \union
           {"read", "copy", "status", "empty", "children", "flip", "create", "point",
            "fill"}

\* Steps before which there is nothing to know.
LEMMA PlainFacts ==
    ASSUME NEW p \in Process, Asked(p)', job'[p].pc \notin Telling
    PROVE  Facts(p)'
BY DEF Facts, Telling, Reading, Writing, WritingSteps, Marking, Holding

\* A process that is done knows nothing.
LEMMA EndFacts ==
    ASSUME Fields, NEW p \in Process, End(p)
    PROVE  Facts(p)' /\ DOMAIN job' = Process /\ DOMAIN job'[p] = DOMAIN Idle
<1>1. job'[p] = Idle /\ DOMAIN job' = Process
  BY DEF End, Go, Fields
<1>2. job'[p].pc = "idle"
  BY <1>1 DEF Idle
<1> QED  BY <1>1, <1>2, PlainFacts DEF Asked, Telling, WritingSteps

\* A job that goes on for the same request.
GoesOn(p) ==
    /\ job[p].pc # "idle" /\ job'[p].request = job[p].request
    /\ DOMAIN job' = Process /\ DOMAIN job'[p] = DOMAIN Idle

\* A request stays what it was while it is handled.
LEMMA AskedStays ==
    ASSUME NEW p \in Process, Facts(p), GoesOn(p)
    PROVE  Asked(p)' /\ op(p)' = op(p) /\ request(p)' = request(p)
BY DEF Facts, Asked, GoesOn, op, request

\* At a step that needs no knowledge there is none to show.
LEMMA GoOnPlain ==
    ASSUME NEW p \in Process, Facts(p), GoesOn(p), job'[p].pc \notin Telling
    PROVE  Facts(p)'
BY AskedStays, PlainFacts

\* What is left after a write.
LEMMA TailIs ==
    ASSUME NEW todo, todo # <<>>, \E S : todo \in Seq(S)
    PROVE  /\ \E S : Tail(todo) \in Seq(S)
           /\ 1 \in DOMAIN todo /\ Head(todo) = todo[1]
           /\ \A i \in DOMAIN Tail(todo) : i + 1 \in DOMAIN todo /\ Tail(todo)[i] = todo[i + 1]
<1>1. PICK S : todo \in Seq(S)
  OBVIOUS
<1>2. Tail(todo) \in Seq(S)
  BY <1>1
<1> QED  BY <1>1, <1>2

\* What is left to write after the next is still to write.
LEMMA PendingTail ==
    ASSUME NEW p, NEW todo, Pending(p, todo), todo # <<>>
    PROVE  Pending(p, Tail(todo))
<1>1. CASE op(p) = "reorder"
  <2>1. \E S : todo \in Seq(S)
    BY <1>1 DEF Pending, Moves
  <2> QED  BY <1>1, <2>1, TailIs DEF Pending, Moves
<1>2. CASE op(p) # "reorder"
  <2>1. \E S : todo \in Seq(S)
    BY <1>2 DEF Pending, Imports
  <2> QED  BY <1>2, <2>1, TailIs DEF Pending, Imports
<1> QED  BY <1>1, <1>2

\* The next write.
LEMMA NextStepFacts ==
    ASSUME NEW p \in Process, Facts(p), GoesOn(p), NEW todo, Pending(p, todo),
           job'[p].todo = todo, job'[p].pc = nextStep(p, todo), rows' = rows,
           DOMAIN job[p].written \subseteq DOMAIN job'[p].written
    PROVE  Facts(p)'
<1>1. Asked(p)' /\ op(p)' = op(p)
  BY AskedStays
<1>2. CASE todo = <<>>
  <2>1. job'[p].pc = "commit"
    BY <1>2 DEF nextStep
  <2> QED  BY <1>1, <2>1, PlainFacts DEF Telling, WritingSteps
<1>3. CASE todo # <<>>
  <2>1. \A s : Known(p, s) => Known(p, s)'
    BY DEF Known
  <2>2. Pending(p, Tail(todo))
    BY <1>3, PendingTail
  <2>3. Pending(p, Tail(todo))'
    BY <1>1, <2>1, <2>2 DEF Pending
  <2>4. \E S : todo \in Seq(S)
    BY DEF Pending, Moves, Imports
  <2>5. 1 \in DOMAIN todo
    BY <1>3, <2>4, TailIs
  <2>6. Writing(p)'
    <3>1. CASE op(p) = "reorder"
      <4>1. job'[p].pc = "reread"
        BY <1>3, <3>1 DEF nextStep
      <4>2. /\ OrderedSlug(todo[1].slug) /\ todo[1].order \in Positions
            /\ Known(p, todo[1].slug)'
        BY <2>1, <2>5, <3>1 DEF Pending, Moves
      <4> QED  BY <1>1, <1>3, <2>3, <2>4, <3>1, <4>1, <4>2 DEF Writing, WritingSteps
    <3>2. CASE op(p) # "reorder"
      <4>1. job'[p].pc \in {"check", "write"}
        BY <1>3, <3>2 DEF nextStep
      <4>2. todo[1].record \in Record
        BY <2>5, <3>2 DEF Pending, Imports
      <4> QED  BY <1>1, <1>3, <2>3, <2>4, <4>1, <4>2 DEF Writing, WritingSteps
    <3> QED  BY <3>1, <3>2
  <2>7. job'[p].pc \in {"check", "write", "reread"}
    BY <1>3 DEF nextStep
  <2>8. Reading(p)' /\ Marking(p)' /\ Holding(p)'
    BY <2>7 DEF Reading, Marking, Holding
  <2> QED  BY <1>1, <2>6, <2>8 DEF Facts
<1> QED  BY <1>2, <1>3

-----------------------------------------------------------------------------
(* Step by step.                                                            *)

\* The empty list of writes.
LEMMA NothingPending ==
    ASSUME NEW p
    PROVE  Pending(p, <<>>)
<1>1. <<>> \in Seq({}) /\ DOMAIN <<>> = {}
  OBVIOUS
<1> QED  BY <1>1 DEF Pending, Moves, Imports

\* No table has been read yet.
LEMMA NothingSeen == Sound([s \in Slug |-> None])
BY DEF Sound, oneCheckpointEach

\* A request that is received was let through by its schema.
LEMMA ReceiveFacts ==
    ASSUME Fields, Steady, NEW p \in Process, NEW q \in RequestName, Receive(p, q)
    PROVE  Facts(p)' /\ DOMAIN job' = Process /\ DOMAIN job'[p] = DOMAIN Idle
<1>1. /\ DOMAIN job' = Process /\ DOMAIN job'[p] = DOMAIN Idle
      /\ job'[p].pc = firstStep(Requests[q].op) /\ job'[p].request = q
      /\ job'[p].seen = [s \in Slug |-> None]
      /\ job'[p].todo = IF Requests[q].op \in {"unitImport", "import"}
                        THEN toSeedRecords(Requests[q].corpus) ELSE <<>>
  BY DEF Receive, Go, Fields, Idle
<1>2. Parses(Requests[q]) /\ Requests[q].op # "watch"
  BY DEF Receive
<1>3. Asked(p)'
  BY <1>1, <1>2 DEF Asked, request
<1>4. CASE Requests[q].op \in {"unitImport", "import"}
  <2>1. job'[p].pc = "read"
    BY <1>1, <1>4 DEF firstStep, AdminWrites
  <2>2. Requests[q].corpus \in Corpora
    BY <1>4 DEF Corpora, Asking
  <2>3. Requests[q].corpus \subseteq Record
    BY <1>2, <1>4, <2>2, UnitFileRecords, LoadedRecords DEF Parses
  <2>4. toSeedRecords(Requests[q].corpus) \in Seq(Requests[q].corpus)
    BY <2>2, SeedRecordsAre
  <2>5. toSeedRecords(Requests[q].corpus) \in Seq(Record)
    BY <2>3, <2>4
  <2>6. Reading(p)'
    BY <1>1, <1>4, <2>1, <2>5, NothingSeen DEF Reading
  <2> QED  BY <1>1, <1>3, <2>1, <2>6 DEF Facts, Writing, WritingSteps, Marking, Holding
<1>5. CASE Requests[q].op \notin {"unitImport", "import"}
  <2>1. job'[p].pc \notin Telling
    BY <1>1, <1>2, <1>5, FirstStepIsQuiet, AuthoringAssumption
       DEF firstStep, Telling, WritingSteps, Operation, AdminWrites
  <2> QED  BY <1>1, <1>3, <2>1, PlainFacts
<1> QED  BY <1>4, <1>5

\* The watcher starts an import of what the files hold.
LEMMA WatchFacts ==
    ASSUME Fields, NEW p \in Process, NEW q \in RequestName, CheckForChanges(p, q)
    PROVE  Facts(p)' /\ DOMAIN job' = Process /\ DOMAIN job'[p] = DOMAIN Idle
<1>1. /\ DOMAIN job' = Process /\ DOMAIN job'[p] = DOMAIN Idle
      /\ job'[p].pc = "load" /\ job'[p].request = q /\ Requests[q].op = "watch"
  BY DEF CheckForChanges, Go, Fields, Idle
<1>2. Asked(p)'
  BY <1>1 DEF Asked, request, Parses
<1> QED  BY <1>1, <1>2, PlainFacts DEF Telling, WritingSteps

\* Files that were loaded are records.
LEMMA LoadFacts ==
    ASSUME Fields, Served, NEW p \in Process, Facts(p), LoadContent(p)
    PROVE  Facts(p)' /\ DOMAIN job' = Process /\ DOMAIN job'[p] = DOMAIN Idle
<1>1. CASE loadContent(Seeds[disk])
  <2>1. /\ GoesOn(p) /\ job'[p].pc = "read"
        /\ job'[p].seen = [s \in Slug |-> None]
        /\ job'[p].todo = toSeedRecords(Seeds[disk])
    BY <1>1 DEF LoadContent, At, Go, Fields, Idle, GoesOn
  <2>2. Seeds[disk] \in Corpora
    BY DEF Served, Corpora
  <2>3. toSeedRecords(Seeds[disk]) \in Seq(Record)
    <3>1. toSeedRecords(Seeds[disk]) \in Seq(Seeds[disk]) /\ Seeds[disk] \subseteq Record
      BY <1>1, <2>2, SeedRecordsAre, LoadedRecords
    <3> QED  BY <3>1
  <2>4. Reading(p)'
    BY <2>1, <2>3, NothingSeen DEF Reading
  <2>5. Asked(p)'
    BY <2>1, AskedStays
  <2> QED  BY <2>1, <2>4, <2>5 DEF Facts, Writing, WritingSteps, Marking, Holding, GoesOn
<1>2. CASE ~loadContent(Seeds[disk])
  BY <1>2, EndFacts DEF LoadContent
<1> QED  BY <1>1, <1>2

\* The row an admin's request names.
LEMMA TargetSlug ==
    ASSUME NEW p \in Process, Asked(p), job[p].pc # "idle",
           op(p) \in {"archive", "restore", "reorder"}
    PROVE  target(p) = request(p).slug /\ target(p) \in Slug
BY AuthoringAssumption DEF Asked, target, op, request, Asking

\* The row a request names is there, or the request is refused.
LEMMA FindFacts ==
    ASSUME Fields, Steady, NEW p \in Process, Facts(p),
           \/ FindForCreate(p) \/ FindForUpdate(p) \/ FindForArchive(p)
           \/ FindForRestore(p) \/ FindParent(p)
    PROVE  Facts(p)' /\ DOMAIN job' = Process /\ DOMAIN job'[p] = DOMAIN Idle
<1>0. DOMAIN job[p] = {"pc", "request", "seen", "left",
          "todo", "written", "refused", "against", "built"} /\ DOMAIN Idle = DOMAIN job[p]
  BY DEF Fields, Idle
<1>1. job[p].pc = "find" /\ rows' = rows /\ Asked(p)
  BY DEF FindForCreate, FindForUpdate, FindForArchive, FindForRestore, FindParent, At, Facts
<1>2. ASSUME op(p) \in {"create", "update"}, NEW action, NEW reason,
             Go(p, [job[p] EXCEPT !.pc = "check",
                       !.todo = <<Plan(action, reason, request(p).record)>>])
      PROVE  Facts(p)' /\ GoesOn(p)
  <2>1. /\ GoesOn(p) /\ job'[p].pc = "check"
        /\ job'[p].todo = <<Plan(action, reason, request(p).record)>>
    BY <1>0, <1>1, <1>2 DEF Go, GoesOn, Fields
  <2>2. request(p).record \in Record
    <3>1. PICK q \in RequestName : request(p) = Requests[q] /\ Parses(Requests[q])
      BY <1>1 DEF Asked, request
    <3>2. Requests[q].op \in {"create", "update"}
      BY <1>2, <3>1 DEF op
    <3>3. parseAdminRecord(Requests[q].record)
      BY <3>1, <3>2 DEF Parses
    <3>4. Requests[q].record \in Sources
      <4>1. q \in Asking({"create", "update"})
        BY <3>2 DEF Asking
      <4>2. Requests[q].record \in {Requests[o].record : o \in Asking({"create", "update"})}
        BY <4>1
      <4> QED  BY <4>2 DEF Sources
    <3> QED  BY <3>1, <3>3, <3>4, SourceRecord
  <2>3. Plan(action, reason, request(p).record).record = request(p).record
    BY DEF Plan
  <2>4. /\ job'[p].todo # <<>> /\ job'[p].todo[1].record \in Record
        /\ \E S : job'[p].todo \in Seq(S)
        /\ Tail(job'[p].todo) = <<>>
    <3> DEFINE plan == Plan(action, reason, request(p).record)
    <3>1. job'[p].todo = <<plan>> /\ plan.record \in Record
      BY <2>1, <2>2, <2>3
    <3> HIDE DEF plan
    <3>2. <<plan>> # <<>> /\ <<plan>>[1] = plan /\ Tail(<<plan>>) = <<>> /\ <<plan>> \in Seq({plan})
      OBVIOUS
    <3> QED  BY <3>1, <3>2
  <2>5. Pending(p, <<>>)'
    BY NothingPending DEF Pending, Moves, Imports
  <2>6. Writing(p)'
    BY <2>1, <2>4, <2>5 DEF Writing, WritingSteps
  <2>7. Asked(p)'
    BY <2>1, AskedStays
  <2> QED  BY <2>1, <2>6, <2>7 DEF Facts, Reading, Marking, Holding
<1>3. ASSUME op(p) \in {"archive", "restore"}, view(p)[target(p)] # None,
             NEW pc \in {"status", "empty"}, NEW left,
             Go(p, [job[p] EXCEPT !.pc = pc, !.left = left])
      PROVE  Facts(p)' /\ GoesOn(p)
  <2>1. GoesOn(p) /\ job'[p].pc = pc /\ job'[p].written = job[p].written
    BY <1>0, <1>1, <1>3 DEF Go, GoesOn, Fields
  <2>2. target(p) = request(p).slug /\ target(p) \in Slug /\ Known(p, target(p))
    BY <1>1, <1>3, TargetSlug, SeenIsKnown
  <2>3. Asked(p)' /\ op(p)' = op(p) /\ request(p)' = request(p)
    BY <2>1, AskedStays
  <2>4. Marking(p)'
    BY <1>1, <1>3, <2>1, <2>2, <2>3 DEF Marking, Known
  <2> QED  BY <2>1, <2>3, <2>4 DEF Facts, Reading, Writing, WritingSteps, Holding
<1>4. CASE FindForCreate(p)
  BY <1>4, <1>2, EndFacts DEF FindForCreate, GoesOn
<1>5. CASE FindForUpdate(p)
  BY <1>5, <1>2, EndFacts DEF FindForUpdate, GoesOn
<1>6. CASE FindForArchive(p)
  <2>1. \/ End(p)
        \/ /\ view(p)[target(p)] # None /\ op(p) = "archive"
           /\ \E pc \in {"status", "empty"} : \E left :
                 Go(p, [job[p] EXCEPT !.pc = pc, !.left = left])
    BY <1>6 DEF FindForArchive, live
  <2> QED  BY <2>1, <1>3, EndFacts DEF GoesOn
<1>7. CASE FindForRestore(p)
  <2>1. \/ End(p)
        \/ /\ view(p)[target(p)] # None /\ op(p) = "restore"
           /\ Go(p, [job[p] EXCEPT !.pc = "status"])
    BY <1>7 DEF FindForRestore
  <2>2. [job[p] EXCEPT !.pc = "status"] = [job[p] EXCEPT !.pc = "status", !.left = job[p].left]
    BY <1>0
  <2> QED  BY <2>1, <2>2, <1>3, EndFacts DEF GoesOn
<1>8. CASE FindParent(p)
  <2>1. CASE Go(p, [job[p] EXCEPT !.pc = "children"]) /\ op(p) = "reorder"
    <3>1. GoesOn(p) /\ job'[p].pc = "children"
      BY <1>0, <1>1, <2>1 DEF Go, GoesOn, Fields
    <3>2. Asked(p)' /\ op(p)' = op(p)
      BY <3>1, AskedStays
    <3> QED  BY <2>1, <3>1, <3>2 DEF Facts, Reading, Writing, WritingSteps, Marking, Holding, GoesOn
  <2> QED  BY <1>8, <2>1, EndFacts DEF FindParent
<1> QED  BY <1>4, <1>5, <1>6, <1>7, <1>8

\* An archive goes on with the row it found.
LEMMA CheckEmptyFacts ==
    ASSUME Fields, NEW p \in Process, Facts(p), CheckEmpty(p)
    PROVE  Facts(p)' /\ DOMAIN job' = Process /\ DOMAIN job'[p] = DOMAIN Idle
<1>0. DOMAIN job[p] = {"pc", "request", "seen", "left",
          "todo", "written", "refused", "against", "built"} /\ DOMAIN Idle = DOMAIN job[p]
  BY DEF Fields, Idle
<1>1. job[p].pc = "empty" /\ rows' = rows
  BY DEF CheckEmpty, At
<1>2. ASSUME NEW pc \in {"status", "empty"}, NEW left,
             Go(p, [job[p] EXCEPT !.pc = pc, !.left = left])
      PROVE  Facts(p)' /\ GoesOn(p)
  <2>1. GoesOn(p) /\ job'[p].pc = pc /\ job'[p].written = job[p].written
    BY <1>0, <1>1, <1>2 DEF Go, GoesOn, Fields
  <2>2. Asked(p)' /\ op(p)' = op(p) /\ request(p)' = request(p)
    BY <2>1, AskedStays
  <2>3. Marking(p)'
    BY <1>1, <2>1, <2>2 DEF Facts, Marking, Known
  <2> QED  BY <2>1, <2>2, <2>3 DEF Facts, Reading, Writing, WritingSteps, Holding
<1>3. \/ End(p)
      \/ \E pc \in {"status", "empty"} : \E left :
            Go(p, [job[p] EXCEPT !.pc = pc, !.left = left])
  BY DEF CheckEmpty
<1> QED  BY <1>2, <1>3, EndFacts DEF GoesOn

\* Whatever a job's other fields become.
LEMMA PlainStep ==
    ASSUME Fields, NEW p \in Process, Facts(p), job[p].pc # "idle", NEW j, Go(p, j),
           DOMAIN j = DOMAIN job[p], j.request = job[p].request, j.pc \notin Telling
    PROVE  Facts(p)' /\ DOMAIN job' = Process /\ DOMAIN job'[p] = DOMAIN Idle
<1>1. GoesOn(p) /\ job'[p] = j
  BY DEF Go, GoesOn, Fields
<1> QED  BY <1>1, GoOnPlain DEF GoesOn

\* The row is marked, and the request commits.
LEMMA SetStatusFacts ==
    ASSUME Fields, NEW p \in Process, Facts(p), SetStatus(p)
    PROVE  Facts(p)' /\ DOMAIN job' = Process /\ DOMAIN job'[p] = DOMAIN Idle
<1>0. DOMAIN job[p] = {"pc", "request", "seen", "left",
          "todo", "written", "refused", "against", "built"}
  BY DEF Fields, Idle
<1>1. PICK written :
          Go(p, [job[p] EXCEPT !.pc = "commit", !.written = written]) /\ job[p].pc = "status"
  BY <1>0 DEF SetStatus, At
<1> QED  BY <1>0, <1>1, PlainStep DEF Telling, WritingSteps

\* The children a reorder finds.
LEMMA ChildrenAre ==
    ASSUME Steady, NEW p \in Process, NEW kind \in {"unit", "lesson"}, NEW parent
    PROVE  LET current == {view(p)[s].record : s \in under(p, kind, parent)}
           IN  /\ current \in SUBSET Record /\ IsFiniteSet(current)
               /\ \A r \in current : r.kind \in {"unit", "lesson"} /\ Known(p, r.slug)
<1> DEFINE these == under(p, kind, parent)
           recordAt == [s \in these |-> view(p)[s].record]
           current == {view(p)[s].record : s \in these}
<1>1. Sound(view(p))
  BY ViewIs DEF Steady
<1>2. ASSUME NEW s \in these
      PROVE  /\ view(p)[s].record \in Record /\ view(p)[s].record.kind = kind
             /\ view(p)[s].record.slug = s /\ Known(p, s)
  <2>1. s \in Slug /\ view(p)[s] # None /\ view(p)[s].record.kind = kind
    BY DEF under, live
  <2>2. view(p)[s] \in Row /\ view(p)[s].record.slug = s
    BY <1>1, <2>1 DEF Sound
  <2> QED  BY <2>1, <2>2, SeenIsKnown DEF Row
<1>3. these \in SUBSET Slug
  BY DEF under
<1>4. IsFiniteSet(these)
  BY <1>3, SlugFinite
<1>5. DOMAIN recordAt = these /\ current = {recordAt[s] : s \in DOMAIN recordAt}
  OBVIOUS
<1>6. IsFiniteSet(current)
  <2> HIDE DEF these, recordAt, current
  <2> QED  BY <1>4, <1>5, FiniteImage
<1>7. current \in SUBSET Record
  BY <1>2
<1>8. \A r \in current : r.kind \in {"unit", "lesson"} /\ Known(p, r.slug)
  BY <1>2
<1> QED  BY <1>6, <1>7, <1>8

\* A reorder goes on with the rows it found, each once.
LEMMA FindChildrenFacts ==
    ASSUME Fields, Steady, NEW p \in Process, Facts(p), FindChildren(p)
    PROVE  Facts(p)' /\ DOMAIN job' = Process /\ DOMAIN job'[p] = DOMAIN Idle
<1> DEFINE kind == IF view(p)[target(p)].record.kind = "stage" THEN "unit" ELSE "lesson"
           slugs == request(p).slugs
           current == {view(p)[s].record : s \in under(p, kind, target(p))}
           moves == planReorder(current, slugs)
<1>0. DOMAIN job[p] = {"pc", "request", "seen", "left",
          "todo", "written", "refused", "against", "built"} /\ DOMAIN Idle = DOMAIN job[p]
  BY DEF Fields, Idle
<1>1. job[p].pc = "children" /\ rows' = rows /\ op(p) = "reorder"
  BY DEF FindChildren, At, Facts, Marking
<1>2. CASE ~reorderOk(current, slugs)
  BY <1>2, EndFacts DEF FindChildren
<1>3. CASE reorderOk(current, slugs)
  <2>1. Go(p, [job[p] EXCEPT !.pc = IF moves = <<>> THEN "commit" ELSE "reread",
                             !.todo = moves])
    BY <1>3 DEF FindChildren
  <2>2. slugs \in Seq(Slug)
    <3>1. PICK q \in RequestName : request(p) = Requests[q]
      BY <1>1 DEF Facts, Asked, request
    <3>2. q \in Asking({"reorder"})
      BY <1>1, <3>1 DEF op, Asking
    <3> QED  BY <3>1, <3>2, AuthoringAssumption
  <2>3. kind \in {"unit", "lesson"}
    OBVIOUS
  <2>4. /\ current \in SUBSET Record /\ IsFiniteSet(current)
        /\ \A r \in current : r.kind \in {"unit", "lesson"} /\ Known(p, r.slug)
    <3> HIDE DEF kind
    <3> QED  BY <2>3, ChildrenAre
  <2> HIDE DEF current, slugs
  <2>5. /\ Moves(moves)
        /\ \A i \in DOMAIN moves : moves[i].slug \in {r.slug : r \in current}
    BY <1>3, <2>2, <2>4, PlansMove
  <2> HIDE DEF moves
  <2>6. Pending(p, moves)
    BY <1>1, <2>4, <2>5 DEF Pending
  <2>7. /\ GoesOn(p) /\ job'[p].todo = moves /\ job'[p].written = job[p].written
        /\ job'[p].pc = nextStep(p, moves)
    BY <1>0, <1>1, <2>1 DEF Go, GoesOn, Fields, nextStep
  <2>8. Facts(p)'
    BY <1>1, <2>6, <2>7, NextStepFacts
  <2> QED  BY <2>7, <2>8 DEF GoesOn
<1> QED  BY <1>2, <1>3

\* The row that is read again is there, so that its draft is a record.
LEMMA RereadFacts ==
    ASSUME Fields, Steady, NEW p \in Process, Facts(p), Reread(p)
    PROVE  Facts(p)' /\ DOMAIN job' = Process /\ DOMAIN job'[p] = DOMAIN Idle
<1> DEFINE todo == job[p].todo
           record == [read(p, todo[1].slug) EXCEPT !.order = todo[1].order]
           entry1 == Plan("update", "moved", record)
<1>0. DOMAIN job[p] = {"pc", "request", "seen", "left",
          "todo", "written", "refused", "against", "built"} /\ DOMAIN Idle = DOMAIN job[p]
  BY DEF Fields, Idle
<1>1. job[p].pc = "reread" /\ rows' = rows
  BY DEF Reread, At
<1>2. /\ todo # <<>> /\ Pending(p, Tail(todo)) /\ op(p) = "reorder"
      /\ OrderedSlug(todo[1].slug) /\ todo[1].order \in Positions /\ Known(p, todo[1].slug)
  BY <1>1 DEF Facts, Writing, WritingSteps
<1>3. PICK S : todo \in Seq(S)
  BY <1>1 DEF Facts, Writing, WritingSteps
<1>4. Head(todo) = todo[1] /\ 1 \in DOMAIN todo
  BY <1>2, <1>3
<1>5. /\ GoesOn(p) /\ job'[p].written = job[p].written
      /\ job'[p].pc = IF record.kind = "lesson" THEN "rereadParts" ELSE "write"
      /\ job'[p].todo = [todo EXCEPT ![1] = entry1]
  BY <1>0, <1>1, <1>4 DEF Reread, Go, GoesOn, Fields
<1>6. record \in Record /\ Known(p, record.slug)
  <2> DEFINE was == read(p, todo[1].slug)
  <2>1. todo[1].slug \in Slug
    BY <1>2 DEF OrderedSlug
  <2>2. was \in Record /\ was.slug = todo[1].slug
    BY <1>2, <2>1, KnownRow DEF read, Row
  <2>3. was.kind \in {"unit", "lesson"}
    BY <1>2, <2>2, SameKind DEF OrderedSlug
  <2> HIDE DEF was
  <2>4. [was EXCEPT !.order = todo[1].order] \in Record
    BY <1>2, <2>2, <2>3, MovedRecord
  <2>5. [was EXCEPT !.order = todo[1].order].slug = was.slug
    OBVIOUS
  <2> QED  BY <1>2, <2>2, <2>4, <2>5 DEF was
<1>7. entry1.record = record
  BY DEF Plan
<1> HIDE DEF entry1, record, todo
<1>8. /\ [todo EXCEPT ![1] = entry1] \in Seq(S \union {entry1})
      /\ [todo EXCEPT ![1] = entry1] # <<>>
      /\ [todo EXCEPT ![1] = entry1][1] = entry1
      /\ Tail([todo EXCEPT ![1] = entry1]) = Tail(todo)
  BY <1>2, <1>3, <1>4
<1>9. Asked(p)' /\ op(p)' = op(p)
  BY <1>5, AskedStays
<1>10. \A s : Known(p, s)' = Known(p, s)
  BY <1>1, <1>5 DEF Known
<1>11. PICK rest : rest = Tail(todo)
  OBVIOUS
<1>12. Pending(p, rest)'
  BY <1>2, <1>9, <1>10, <1>11 DEF Pending
<1>13. /\ job'[p].todo # <<>> /\ \E T : job'[p].todo \in Seq(T)
       /\ Tail(job'[p].todo) = rest /\ job'[p].todo[1].record = record
  BY <1>5, <1>7, <1>8, <1>11
<1>14. Writing(p)'
  BY <1>2, <1>5, <1>6, <1>9, <1>10, <1>12, <1>13 DEF Writing, WritingSteps
<1> QED  BY <1>5, <1>9, <1>14 DEF Facts, Reading, Marking, Holding, GoesOn

\* A lesson with a part of what its row now holds is a record.
LEMMA RereadPartFacts ==
    ASSUME Fields, Steady, NEW p \in Process, Facts(p), RereadPart(p)
    PROVE  Facts(p)' /\ DOMAIN job' = Process /\ DOMAIN job'[p] = DOMAIN Idle
<1> DEFINE todo == job[p].todo
           lesson == todo[1].record
           record == withPart(lesson, Head(job[p].left), read(p, lesson.slug))
           entry1 == Plan("update", "moved", record)
<1>0. DOMAIN job[p] = {"pc", "request", "seen", "left",
          "todo", "written", "refused", "against", "built"} /\ DOMAIN Idle = DOMAIN job[p]
  BY DEF Fields, Idle
<1>1. job[p].pc = "rereadParts" /\ rows' = rows
  BY DEF RereadPart, At
<1>2. /\ todo # <<>> /\ Pending(p, Tail(todo)) /\ op(p) = "reorder"
      /\ lesson \in Record /\ lesson.kind = "lesson" /\ Known(p, lesson.slug)
  BY <1>1 DEF Facts, Writing, WritingSteps
<1>3. PICK S : todo \in Seq(S)
  BY <1>1 DEF Facts, Writing, WritingSteps
<1>4. Head(todo) = todo[1] /\ 1 \in DOMAIN todo
  BY <1>2, <1>3
<1>5. /\ GoesOn(p) /\ job'[p].written = job[p].written
      /\ job'[p].pc \in {"rereadParts", "write"}
      /\ job'[p].todo = [todo EXCEPT ![1] = entry1]
  BY <1>0, <1>1, <1>4 DEF RereadPart, Go, GoesOn, Fields
<1>6. record \in Record /\ record.kind = "lesson" /\ Known(p, record.slug)
  <2> DEFINE now == read(p, lesson.slug)
  <2>1. lesson.slug \in Slug
    BY <1>2, RecordIs
  <2>2. now \in Record /\ now.slug = lesson.slug
    BY <1>2, <2>1, KnownRow DEF read, Row
  <2>3. now.kind = "lesson"
    BY <1>2, <2>2, SameKind
  <2> HIDE DEF now, lesson
  <2>4. PICK part : part = Head(job[p].left)
    OBVIOUS
  <2>5. /\ withPart(lesson, part, now) \in Record
        /\ withPart(lesson, part, now).slug = lesson.slug
        /\ withPart(lesson, part, now).kind = "lesson"
    BY <1>2, <2>2, <2>3, PartOfAnother
  <2> QED  BY <1>2, <2>4, <2>5 DEF now
<1>7. entry1.record = record
  BY DEF Plan
<1> HIDE DEF entry1, record, lesson, todo
<1>8. /\ [todo EXCEPT ![1] = entry1] \in Seq(S \union {entry1})
      /\ [todo EXCEPT ![1] = entry1] # <<>>
      /\ [todo EXCEPT ![1] = entry1][1] = entry1
      /\ Tail([todo EXCEPT ![1] = entry1]) = Tail(todo)
  BY <1>2, <1>3, <1>4
<1>9. Asked(p)' /\ op(p)' = op(p)
  BY <1>5, AskedStays
<1>10. \A s : Known(p, s)' = Known(p, s)
  BY <1>1, <1>5 DEF Known
<1>11. PICK rest : rest = Tail(todo)
  OBVIOUS
<1>12. Pending(p, rest)'
  BY <1>2, <1>9, <1>10, <1>11 DEF Pending
<1>13. /\ job'[p].todo # <<>> /\ \E T : job'[p].todo \in Seq(T)
       /\ Tail(job'[p].todo) = rest /\ job'[p].todo[1].record = record
  BY <1>5, <1>7, <1>8, <1>11
<1>14. Writing(p)'
  BY <1>2, <1>5, <1>6, <1>9, <1>10, <1>12, <1>13 DEF Writing, WritingSteps
<1> QED  BY <1>5, <1>9, <1>14 DEF Facts, Reading, Marking, Holding, GoesOn

\* A write that is checked, and then refused or done.
LEMMA CheckFacts ==
    ASSUME Fields, NEW p \in Process, Facts(p), CheckParent(p) \/ CheckOthers(p)
    PROVE  Facts(p)' /\ DOMAIN job' = Process /\ DOMAIN job'[p] = DOMAIN Idle
<1>0. DOMAIN job[p] = {"pc", "request", "seen", "left",
          "todo", "written", "refused", "against", "built"} /\ DOMAIN Idle = DOMAIN job[p]
  BY DEF Fields, Idle
<1>1. job[p].pc \in {"check", "checkOthers"} /\ rows' = rows
  BY DEF CheckParent, CheckOthers, At
<1>2. Writing(p) /\ Pending(p, Tail(job[p].todo))
  BY <1>1 DEF Facts, Writing, WritingSteps
<1>3. CASE Refuse(p)
  <2>1. PICK rest : rest = Tail(job[p].todo)
    OBVIOUS
  <2>2. CASE op(p) = "unitImport"
    <3>1. /\ GoesOn(p) /\ job'[p].todo = rest /\ job'[p].pc = nextStep(p, rest)
          /\ job'[p].written = job[p].written
      BY <1>0, <1>1, <1>3, <2>1, <2>2 DEF Refuse, Go, GoesOn, Fields
    <3> QED  BY <1>1, <1>2, <2>1, <3>1, NextStepFacts DEF GoesOn
  <2>3. CASE op(p) # "unitImport"
    BY <1>3, <2>3, EndFacts DEF Refuse
  <2> QED  BY <2>2, <2>3
<1>4. ASSUME NEW pc \in {"write", "checkOthers"}, Go(p, [job[p] EXCEPT !.pc = pc])
      PROVE  Facts(p)' /\ GoesOn(p)
  <2>1. /\ GoesOn(p) /\ job'[p].pc = pc /\ job'[p].written = job[p].written
        /\ job'[p].todo = job[p].todo
    BY <1>0, <1>1, <1>4 DEF Go, GoesOn, Fields
  <2>2. Asked(p)' /\ op(p)' = op(p)
    BY <2>1, AskedStays
  <2>3. \A s : Known(p, s)' = Known(p, s)
    BY <1>1, <2>1 DEF Known
  <2>4. PICK rest : rest = Tail(job[p].todo)
    OBVIOUS
  <2>5. Pending(p, rest)'
    BY <1>2, <2>2, <2>3, <2>4 DEF Pending
  <2>6. Tail(job'[p].todo) = rest
    BY <2>1, <2>4
  <2>7. Writing(p)'
    BY <1>1, <1>2, <2>1, <2>5, <2>6 DEF Writing, WritingSteps
  <2> QED  BY <2>1, <2>2, <2>7 DEF Facts, Reading, Marking, Holding
<1>5. \/ Refuse(p)
      \/ \E pc \in {"write", "checkOthers"} : Go(p, [job[p] EXCEPT !.pc = pc])
  BY DEF CheckParent, CheckOthers
<1> QED  BY <1>3, <1>4, <1>5 DEF GoesOn

\* After a write the rest is left to write, or the request commits.
LEMMA WriteFacts ==
    ASSUME Fields, NEW p \in Process, Facts(p), Write(p)
    PROVE  Facts(p)' /\ DOMAIN job' = Process /\ DOMAIN job'[p] = DOMAIN Idle
<1> DEFINE todo == job[p].todo
           row == writeRecord(p, Head(todo).record)
<1>0. DOMAIN job[p] = {"pc", "request", "seen", "left",
          "todo", "written", "refused", "against", "built"} /\ DOMAIN Idle = DOMAIN job[p]
  BY DEF Fields, Idle
<1>1. job[p].pc = "write" /\ rows' = rows
  BY DEF Write, At
<1>2. Writing(p) /\ Pending(p, Tail(job[p].todo))
  BY <1>1 DEF Facts, Writing, WritingSteps
<1>3. CASE dbAccepts(p, Head(todo))
  <2>1. PICK rest : rest = Tail(todo)
    OBVIOUS
  <2>2. /\ GoesOn(p) /\ job'[p].todo = rest /\ job'[p].pc = nextStep(p, rest)
        /\ job'[p].written = withRow(job[p].written, Head(todo).record.slug, row)
    BY <1>0, <1>1, <1>3, <2>1 DEF Write, Go, GoesOn, Fields
  <2>3. DOMAIN job[p].written \subseteq DOMAIN job'[p].written
    BY <2>2 DEF withRow
  <2> QED  BY <1>1, <1>2, <2>1, <2>2, <2>3, NextStepFacts DEF GoesOn
<1>4. CASE ~dbAccepts(p, Head(todo))
  BY <1>4, EndFacts DEF Write
<1> QED  BY <1>3, <1>4

\* A table read: what is seen of it is there, and of its checkpoints each is of
\* a unit of its own, whatever was read before.
LEMMA ReadTableFacts ==
    ASSUME Fields, Steady, NEW p \in Process, Facts(p), ReadTable(p)
    PROVE  Facts(p)' /\ DOMAIN job' = Process /\ DOMAIN job'[p] = DOMAIN Idle
<1> DEFINE kind == Head(job[p].left)
           was == job[p].seen
           sees == view(p)
           now == [s \in Slug |-> IF sees[s] # None /\ sees[s].record.kind = kind
                                  THEN sees[s] ELSE was[s]]
<1>0. DOMAIN job[p] = {"pc", "request", "seen", "left",
          "todo", "written", "refused", "against", "built"} /\ DOMAIN Idle = DOMAIN job[p]
  BY DEF Fields, Idle
<1>1. job[p].pc \in {"read", "copy"} /\ rows' = rows
  BY DEF ReadTable, At
<1>2. /\ Sound(was) /\ \A s \in Slug : was[s] # None => Known(p, s)
      /\ job[p].pc = "read" => job[p].todo \in Seq(Record)
  BY <1>1 DEF Facts, Reading
<1>3. /\ GoesOn(p) /\ job'[p].pc = job[p].pc /\ job'[p].seen = now
      /\ job'[p].todo = job[p].todo /\ job'[p].written = job[p].written
  BY <1>0, <1>1 DEF ReadTable, Go, GoesOn, Fields
<1>4. Sound(sees)
  BY ViewIs DEF Steady
<1>5. \A s \in Slug : now[s] = IF sees[s] # None /\ sees[s].record.kind = kind
                               THEN sees[s] ELSE was[s]
  OBVIOUS
<1>6. now = [s \in Slug |-> now[s]]
  OBVIOUS
<1>7. \A s \in Slug : was[s] # None => sees[s] # None
  BY <1>2, KnownRow
<1>8. \A s \in Slug : sees[s] # None => Known(p, s)
  BY SeenIsKnown
<1> HIDE DEF now, was, sees, kind
<1>9. \A s \in Slug : now[s] # None => Known(p, s)
  BY <1>2, <1>5, <1>8
<1>10. Sound(now)
  <2>1. now \in [Slug -> Row \union {None}]
    <3>1. \A s \in Slug : now[s] \in Row \union {None}
      BY <1>2, <1>4, <1>5 DEF Sound
    <3> QED  BY <1>6, <3>1
  <2>2. \A s \in Slug : now[s] # None => now[s].record.slug = s
    BY <1>2, <1>4, <1>5 DEF Sound
  <2>3. ASSUME NEW s \in Slug, was[s] # None
        PROVE  sees[s].record.kind = was[s].record.kind
    <3>1. /\ was[s].record \in Record /\ was[s].record.slug = s
          /\ sees[s].record \in Record /\ sees[s].record.slug = s
      BY <1>2, <1>4, <1>7, <2>3 DEF Sound, Row
    <3> QED  BY <3>1, SameKind
  <2>4. oneCheckpointEach(now)
    <3> SUFFICES ASSUME NEW s \in Slug, NEW t \in Slug,
                        now[s] # None, now[s].record.kind = "checkpoint",
                        now[t] # None, now[t].record.kind = "checkpoint",
                        now[s].record.unit = now[t].record.unit
                 PROVE  s = t
      BY DEF oneCheckpointEach
    <3>1. CASE kind = "checkpoint"
      <4>1. now[s] = sees[s] /\ now[t] = sees[t]
        BY <1>5, <1>7, <2>3, <3>1
      <4> QED  BY <1>4, <4>1 DEF Sound, oneCheckpointEach
    <3>2. CASE kind # "checkpoint"
      <4>1. now[s] = was[s] /\ now[t] = was[t]
        BY <1>5, <3>2
      <4> QED  BY <1>2, <4>1 DEF Sound, oneCheckpointEach
    <3> QED  BY <3>1, <3>2
  <2> QED  BY <2>1, <2>2, <2>4 DEF Sound
<1>11. PICK after : after = now
  OBVIOUS
<1>12. \A s : Known(p, s)' = Known(p, s)
  BY <1>1, <1>3 DEF Known
<1>13. Sound(after)'
  BY <1>10, <1>11 DEF Sound, oneCheckpointEach
<1>14. job'[p].seen = after
  BY <1>3, <1>11
<1>15. Reading(p)'
  BY <1>2, <1>3, <1>9, <1>11, <1>12, <1>13, <1>14 DEF Reading
<1>16. Asked(p)'
  BY <1>3, AskedStays
<1> QED  BY <1>1, <1>3, <1>15, <1>16 DEF Facts, Writing, WritingSteps, Marking, Holding, GoesOn

\* The steps, or the links, of the lessons read before: what is seen still holds
\* records, and of anything but lessons it is what it was.
LEMMA ReadPartFacts ==
    ASSUME Fields, Steady, NEW p \in Process, Facts(p), ReadPart(p)
    PROVE  Facts(p)' /\ DOMAIN job' = Process /\ DOMAIN job'[p] = DOMAIN Idle
<1> DEFINE part == Head(job[p].left)
           was == job[p].seen
           sees == view(p)
           isLesson(s) == was[s] # None /\ was[s].record.kind = "lesson"
           row(s) == [was[s] EXCEPT !.record = withPart(@, part, sees[s].record)]
           now == [s \in Slug |-> IF isLesson(s) THEN row(s) ELSE was[s]]
<1>0. DOMAIN job[p] = {"pc", "request", "seen", "left",
          "todo", "written", "refused", "against", "built"} /\ DOMAIN Idle = DOMAIN job[p]
  BY DEF Fields, Idle
<1>1. job[p].pc = "copy" /\ rows' = rows
  BY DEF ReadPart, At
<1>2. Sound(was) /\ \A s \in Slug : was[s] # None => Known(p, s)
  BY <1>1 DEF Facts, Reading
<1>3. /\ GoesOn(p) /\ job'[p].pc = "copy" /\ job'[p].seen = now
      /\ job'[p].written = job[p].written
  BY <1>0, <1>1 DEF ReadPart, Go, GoesOn, Fields
<1>4. ASSUME NEW s \in Slug, isLesson(s)
      PROVE  /\ row(s) \in Row /\ row(s) # None /\ row(s).record.slug = s
             /\ row(s).record.kind = "lesson"
  <2>1. /\ was[s] \in Row /\ was[s].record \in Record /\ was[s].record.slug = s
        /\ was[s].record.kind = "lesson"
    BY <1>2, <1>4 DEF Sound, Row
  <2>2. sees[s] \in Row /\ sees[s].record \in Record /\ sees[s].record.slug = s
    BY <1>2, <1>4, KnownRow DEF Row
  <2>3. sees[s].record.kind = "lesson"
    BY <2>1, <2>2, SameKind
  <2>4. PICK record : record = withPart(was[s].record, part, sees[s].record)
    OBVIOUS
  <2>5. record \in Record /\ record.slug = s /\ record.kind = "lesson"
    <3> HIDE DEF was, sees, part
    <3>1. PICK r : r = was[s].record
      OBVIOUS
    <3>2. PICK r2 : r2 = sees[s].record
      OBVIOUS
    <3>3. r \in Record /\ r.kind = "lesson" /\ r2 \in Record /\ r2.kind = "lesson" /\ r.slug = s
      BY <2>1, <2>2, <2>3, <3>1, <3>2
    <3>4. PICK any : any = part
      OBVIOUS
    <3>5. /\ withPart(r, any, r2) \in Record /\ withPart(r, any, r2).slug = r.slug
          /\ withPart(r, any, r2).kind = "lesson"
      BY <3>3, PartOfAnother
    <3> QED  BY <2>4, <3>1, <3>2, <3>3, <3>4, <3>5
  <2>6. row(s) = [was[s] EXCEPT !.record = record]
    BY <2>4
  <2> HIDE DEF row, was
  <2>7. row(s) \in Row /\ row(s).record = record
    BY <2>1, <2>5, <2>6 DEF Row
  <2> QED  BY <2>5, <2>7, RowIsSome
<1>5. \A s \in Slug : now[s] = IF isLesson(s) THEN row(s) ELSE was[s]
  OBVIOUS
<1>6. now = [s \in Slug |-> now[s]]
  OBVIOUS
<1>7. \A s \in Slug : (now[s] = None) = (was[s] = None)
  BY <1>4
<1> HIDE DEF row, sees, now
<1>8. \A s \in Slug : now[s] # None => Known(p, s)
  BY <1>2, <1>7
<1>9. Sound(now)
  <2>1. \A s \in Slug : now[s] \in Row \union {None}
    BY <1>2, <1>4, <1>5 DEF Sound
  <2>2. \A s \in Slug : now[s] # None => now[s].record.slug = s
    BY <1>2, <1>4, <1>5 DEF Sound
  <2>3. \A s \in Slug : now[s] # None /\ now[s].record.kind = "checkpoint" => now[s] = was[s]
    BY <1>4, <1>5
  <2>4. oneCheckpointEach(now)
    BY <1>2, <2>3 DEF Sound, oneCheckpointEach
  <2>5. now \in [Slug -> Row \union {None}]
    BY <1>6, <2>1
  <2> QED  BY <2>2, <2>4, <2>5 DEF Sound
<1>10. PICK after : after = now
  OBVIOUS
<1>11. \A s : Known(p, s)' = Known(p, s)
  BY <1>1, <1>3 DEF Known
<1>12. Sound(after)'
  BY <1>9, <1>10 DEF Sound, oneCheckpointEach
<1>13. job'[p].seen = after
  BY <1>3, <1>10
<1>14. Reading(p)'
  BY <1>3, <1>8, <1>10, <1>11, <1>12, <1>13 DEF Reading
<1>15. Asked(p)'
  BY <1>3, AskedStays
<1> QED  BY <1>3, <1>14, <1>15 DEF Facts, Writing, WritingSteps, Marking, Holding, GoesOn

\* What an import still has to write.
LEMMA PlanFacts ==
    ASSUME Fields, NEW p \in Process, Facts(p), PlanUnitImport(p) \/ PlanImport(p)
    PROVE  Facts(p)' /\ DOMAIN job' = Process /\ DOMAIN job'[p] = DOMAIN Idle
<1>0. DOMAIN job[p] = {"pc", "request", "seen", "left",
          "todo", "written", "refused", "against", "built"} /\ DOMAIN Idle = DOMAIN job[p]
  BY DEF Fields, Idle
<1>1. /\ job[p].pc = "read" /\ rows' = rows /\ job[p].todo \in Seq(Record)
      /\ op(p) # "reorder"
  BY DEF PlanUnitImport, PlanImport, At, Facts, Reading
<1>2. CASE PlanUnitImport(p)
  <2>1. PICK todo : todo = changes(planAdminImport(job[p].todo, job[p].seen))
    OBVIOUS
  <2>2. Pending(p, todo)
    BY <1>1, <2>1, PlansImport DEF Pending
  <2>3. /\ GoesOn(p) /\ job'[p].todo = todo /\ job'[p].pc = nextStep(p, todo)
        /\ job'[p].written = job[p].written
    BY <1>0, <1>1, <1>2, <2>1 DEF PlanUnitImport, Go, GoesOn, Fields
  <2> QED  BY <1>1, <2>2, <2>3, NextStepFacts DEF GoesOn
<1>3. CASE PlanImport(p) /\ request(p).dryRun
  BY <1>3, EndFacts DEF PlanImport
<1>4. CASE PlanImport(p) /\ ~request(p).dryRun
  <2>1. PICK todo : todo = changes(planImport(job[p].todo, job[p].seen, request(p).force))
    OBVIOUS
  <2>2. Pending(p, todo)
    BY <1>1, <2>1, PlansImport DEF Pending
  <2>3. /\ GoesOn(p) /\ job'[p].todo = todo /\ job'[p].pc = nextStep(p, todo)
        /\ job'[p].written = job[p].written
    BY <1>0, <1>1, <1>4, <2>1 DEF PlanImport, Go, GoesOn, Fields
  <2> QED  BY <1>1, <2>2, <2>3, NextStepFacts DEF GoesOn
<1> QED  BY <1>2, <1>3, <1>4

\* What a publish has read can be published, if rowsToCorpus lets it through.
LEMMA CopyPublishable ==
    ASSUME NEW seen, Sound(seen), rowsToCorpus(copyOf(seen))
    PROVE  /\ IsFiniteSet(copyOf(seen)) /\ Publishable(corpusOf(copyOf(seen)))
           /\ Good(buildRelease(corpusOf(copyOf(seen))))
<1> DEFINE these == {t \in Slug : live(seen[t])}
           recordAt == [s \in these |-> seen[s].record]
           copy == copyOf(seen)
<1>1. ASSUME NEW s \in these
      PROVE  /\ s \in Slug /\ seen[s] # None /\ seen[s].record \in Record
             /\ seen[s].record.slug = s
  BY DEF live, Sound, Row
<1>2. copy = {seen[s].record : s \in these}
  BY DEF copyOf
<1>3. IsFiniteSet(copy)
  <2>1. these \in SUBSET Slug /\ DOMAIN recordAt = these
        /\ copy = {recordAt[s] : s \in DOMAIN recordAt}
    BY <1>2
  <2>2. IsFiniteSet(these)
    BY <2>1, SlugFinite
  <2> HIDE DEF these, recordAt, copy
  <2> QED  BY <2>1, <2>2, FiniteImage
<1> HIDE DEF these, copy
<1>4. \A r \in copy : r.slug \in ToSet(Slugs)
  BY <1>1, <1>2 DEF Slug
<1>5. ASSUME NEW a \in of(copy, "checkpoint"), NEW b \in of(copy, "checkpoint"), a.unit = b.unit
      PROVE  a = b
  <2>1. /\ a \in copy /\ b \in copy /\ a.kind = "checkpoint" /\ b.kind = "checkpoint"
    BY DEF of
  <2>2. PICK s \in these : a = seen[s].record
    BY <1>2, <2>1
  <2>3. PICK t \in these : b = seen[t].record
    BY <1>2, <2>1
  <2>4. oneCheckpointEach(seen)
    BY DEF Sound
  <2> QED  BY <1>1, <1>5, <2>1, <2>2, <2>3, <2>4 DEF oneCheckpointEach
<1>6. Publishable(corpusOf(copy))
  BY <1>3, <1>4, <1>5, RowsPublishable DEF copy
<1> QED  BY <1>3, <1>6, BuiltGood DEF copy

\* The corpus a publish read and let through gives a release that is Good.
LEMMA ValidateFacts ==
    ASSUME Fields, NEW p \in Process, Facts(p), Validate(p)
    PROVE  Facts(p)' /\ DOMAIN job' = Process /\ DOMAIN job'[p] = DOMAIN Idle
<1> DEFINE copy == copyOf(job[p].seen)
<1>0. DOMAIN job[p] = {"pc", "request", "seen", "left",
          "todo", "written", "refused", "against", "built"} /\ DOMAIN Idle = DOMAIN job[p]
  BY DEF Fields, Idle
<1>1. job[p].pc = "copy" /\ Sound(job[p].seen)
  BY DEF Validate, At, Facts, Reading
<1>2. CASE rowsToCorpus(copy)
  <2>1. /\ GoesOn(p) /\ job'[p].pc = "flip"
        /\ job'[p].built = buildRelease(corpusOf(copy))
    <3>1. Go(p, [job[p] EXCEPT !.pc = "flip", !.left = Tables, !.seen = None,
                               !.built = buildRelease(corpusOf(copy)),
                               !.against = active])
      BY <1>2 DEF Validate
    <3> HIDE DEF copy
    <3> QED  BY <1>0, <1>1, <3>1 DEF Go, GoesOn, Fields
  <2>2. Good(buildRelease(corpusOf(copy)))
    BY <1>1, <1>2, CopyPublishable
  <2>3. PICK release : release = buildRelease(corpusOf(copy))
    OBVIOUS
  <2>4. job'[p].built = release /\ Good(release)
    BY <2>1, <2>2, <2>3
  <2>5. Holding(p)'
    BY <2>1, <2>4 DEF Holding
  <2>6. Asked(p)'
    BY <2>1, AskedStays
  <2> QED  BY <2>1, <2>5, <2>6 DEF Facts, Reading, Writing, WritingSteps, Marking, GoesOn
<1>3. CASE ~rowsToCorpus(copy)
  BY <1>3, EndFacts DEF Validate
<1> QED  BY <1>2, <1>3

\* A publish starts to read with nothing seen.
LEMMA TakeLockFacts ==
    ASSUME Fields, NEW p \in Process, Facts(p), TakeLock(p)
    PROVE  Facts(p)' /\ DOMAIN job' = Process /\ DOMAIN job'[p] = DOMAIN Idle
<1>0. DOMAIN job[p] = {"pc", "request", "seen", "left",
          "todo", "written", "refused", "against", "built"} /\ DOMAIN Idle = DOMAIN job[p]
  BY DEF Fields, Idle
<1>1. GoesOn(p) /\ job'[p].pc = "copy" /\ job'[p].seen = [s \in Slug |-> None]
  BY <1>0 DEF TakeLock, At, Go, GoesOn, Fields
<1>2. Reading(p)'
  BY <1>1, NothingSeen DEF Reading
<1>3. Asked(p)'
  BY <1>1, AskedStays
<1> QED  BY <1>1, <1>2, <1>3 DEF Facts, Writing, WritingSteps, Marking, Holding, GoesOn

\* The release in hand stays Good while its rows are marked.
LEMMA FlipFacts ==
    ASSUME Fields, NEW p \in Process, Facts(p), Flip(p)
    PROVE  Facts(p)' /\ DOMAIN job' = Process /\ DOMAIN job'[p] = DOMAIN Idle
<1>0. DOMAIN job[p] = {"pc", "request", "seen", "left",
          "todo", "written", "refused", "against", "built"} /\ DOMAIN Idle = DOMAIN job[p]
  BY DEF Fields, Idle
<1>1. /\ GoesOn(p) /\ job[p].pc = "flip" /\ job'[p].pc \in {"flip", "create"}
      /\ job'[p].built = job[p].built
  BY <1>0 DEF Flip, At, Go, GoesOn, Fields
<1>2. Asked(p)'
  BY <1>1, AskedStays
<1>3. Holding(p)'
  BY <1>1 DEF Facts, Holding
<1> QED  BY <1>1, <1>2, <1>3 DEF Facts, Reading, Writing, WritingSteps, Marking, GoesOn

\* And with its number, which the sequence has given.
LEMMA CreateReleaseFacts ==
    ASSUME Fields, version \in Nat, NEW p \in Process, Facts(p), CreateRelease(p)
    PROVE  Facts(p)' /\ DOMAIN job' = Process /\ DOMAIN job'[p] = DOMAIN Idle
<1>0. DOMAIN job[p] = {"pc", "request", "seen", "left",
          "todo", "written", "refused", "against", "built"} /\ DOMAIN Idle = DOMAIN job[p]
  BY DEF Fields, Idle
<1>1. PICK release : release = numbered(job[p].built, version + 1)
  OBVIOUS
<1>2. /\ GoesOn(p) /\ job[p].pc = "create" /\ job'[p].pc = "point"
      /\ job'[p].built = release /\ version' = version + 1
  BY <1>0, <1>1 DEF CreateRelease, At, Go, GoesOn, Fields
<1>3. Good(release) /\ release.version = version + 1
  BY <1>1, <1>2, NumberedKeeps DEF Facts, Holding
<1>4. Holding(p)'
  BY <1>2, <1>3 DEF Holding
<1>5. Asked(p)'
  BY <1>2, AskedStays
<1> QED  BY <1>2, <1>4, <1>5 DEF Facts, Reading, Writing, WritingSteps, Marking, GoesOn

\* The version to cache is the active one.
LEMMA PointerMissFacts ==
    ASSUME Fields, active \in 0..version, NEW p \in Process, Facts(p), PointerMiss(p)
    PROVE  Facts(p)' /\ DOMAIN job' = Process /\ DOMAIN job'[p] = DOMAIN Idle
<1>0. DOMAIN job[p] = {"pc", "request", "seen", "left",
          "todo", "written", "refused", "against", "built"} /\ DOMAIN Idle = DOMAIN job[p]
  BY DEF Fields, Idle
<1>1. /\ GoesOn(p) /\ job'[p].pc = "fill" /\ job'[p].against = active /\ version' = version
  BY <1>0 DEF PointerMiss, At, Go, GoesOn, Fields, releaseRows
<1>2. Holding(p)'
  BY <1>1 DEF Holding
<1>3. Asked(p)'
  BY <1>1, AskedStays
<1> QED  BY <1>1, <1>2, <1>3 DEF Facts, Reading, Writing, WritingSteps, Marking, GoesOn

\* The other steps.
LEMMA OtherFacts ==
    ASSUME Fields, NEW p \in Process, Facts(p),
           \/ Commit(p) \/ CommitPublish(p) \/ Activate(p) \/ ActivateNone(p)
           \/ DropPointer(p) \/ SendRetired(p) \/ PointerHit(p) \/ FillPointer(p)
           \/ TimeOut(p) \/ Stop(p)
    PROVE  Facts(p)' /\ DOMAIN job' = Process /\ DOMAIN job'[p] = DOMAIN Idle
<1>0. DOMAIN job[p] = {"pc", "request", "seen", "left",
          "todo", "written", "refused", "against", "built"} /\ DOMAIN Idle = DOMAIN job[p]
  BY DEF Fields, Idle
<1>1. ASSUME job[p].pc # "idle", NEW pc, pc \notin Telling,
             Go(p, [Idle EXCEPT !.pc = pc, !.request = job[p].request])
      PROVE  Facts(p)' /\ DOMAIN job' = Process /\ DOMAIN job'[p] = DOMAIN Idle
  <2> DEFINE j == [Idle EXCEPT !.pc = pc, !.request = job[p].request]
  <2>1. DOMAIN j = DOMAIN job[p] /\ j.request = job[p].request /\ j.pc = pc
    BY <1>0 DEF Idle
  <2>2. Go(p, j)
    BY <1>1
  <2> HIDE DEF j
  <2> QED  BY <1>1, <2>1, <2>2, PlainStep
<1>2. CASE Commit(p)
  <2>1. \/ End(p)
        \/ Go(p, [Idle EXCEPT !.pc = afterCommit(p), !.request = job[p].request])
    BY <1>2 DEF Commit
  <2>2. afterCommit(p) \notin Telling
    BY AfterCommitIsQuiet DEF Telling, WritingSteps
  <2>3. job[p].pc # "idle"
    BY <1>2 DEF Commit, At
  <2> QED  BY <1>1, <2>1, <2>2, <2>3, EndFacts
<1>3. CASE CommitPublish(p)
  BY <1>0, <1>3, PlainStep DEF CommitPublish, At, Telling, WritingSteps
<1>4. CASE Activate(p) \/ DropPointer(p)
  BY <1>0, <1>4, PlainStep, EndFacts DEF Activate, DropPointer, At, Telling, WritingSteps
<1>5. CASE ActivateNone(p) \/ SendRetired(p) \/ TimeOut(p) \/ Stop(p)
  BY <1>5, EndFacts DEF ActivateNone, SendRetired, TimeOut, Stop
<1>6. CASE PointerHit(p) \/ FillPointer(p)
  <2>1. job[p].pc # "idle" /\ \E found : Decide(p, found)
    BY <1>6 DEF PointerHit, FillPointer, At
  <2>2. End(p) \/ Go(p, [Idle EXCEPT !.pc = "lock", !.request = job[p].request])
    BY <2>1 DEF Decide
  <2>3. "lock" \notin Telling
    BY DEF Telling, WritingSteps
  <2> QED  BY <1>1, <2>1, <2>2, <2>3, EndFacts
<1> QED  BY <1>2, <1>3, <1>4, <1>5, <1>6

\* What the process of the step knows after it.
LEMMA StepFacts ==
    ASSUME Fields, Steady, Served, version \in Nat, active \in 0..version,
           NEW p \in Process, Facts(p),
           \/ Quiet(p) \/ Validate(p) \/ Flip(p) \/ CreateRelease(p)
           \/ CommitPublish(p) \/ Activate(p) \/ DropPointer(p) \/ SendRetired(p)
    PROVE  Facts(p)' /\ DOMAIN job' = Process /\ DOMAIN job'[p] = DOMAIN Idle
<1> DEFINE Goal == Facts(p)' /\ DOMAIN job' = Process /\ DOMAIN job'[p] = DOMAIN Idle
<1>1. ASSUME NEW q \in RequestName, Receive(p, q) \/ CheckForChanges(p, q) PROVE Goal
  BY <1>1, ReceiveFacts, WatchFacts
<1>2. \/ FindForCreate(p) \/ FindForUpdate(p) \/ FindForArchive(p)
      \/ FindForRestore(p) \/ FindParent(p)
      => Goal
  BY FindFacts
<1>3. \/ CheckEmpty(p) \/ SetStatus(p) \/ FindChildren(p)
      \/ Reread(p) \/ RereadPart(p)
      => Goal
  BY CheckEmptyFacts, SetStatusFacts, FindChildrenFacts, RereadFacts, RereadPartFacts
<1>4. CheckParent(p) \/ CheckOthers(p) \/ Write(p) \/ ReadTable(p) \/ ReadPart(p) => Goal
  BY CheckFacts, WriteFacts, ReadTableFacts, ReadPartFacts
<1>5. PlanUnitImport(p) \/ PlanImport(p) \/ LoadContent(p) => Goal
  BY PlanFacts, LoadFacts
<1>6. TakeLock(p) \/ Validate(p) \/ Flip(p) \/ CreateRelease(p) \/ PointerMiss(p) => Goal
  BY TakeLockFacts, ValidateFacts, FlipFacts, CreateReleaseFacts, PointerMissFacts
<1>7. \/ Commit(p) \/ CommitPublish(p) \/ Activate(p) \/ ActivateNone(p)
      \/ DropPointer(p) \/ SendRetired(p) \/ PointerHit(p) \/ FillPointer(p)
      \/ TimeOut(p) \/ Stop(p)
      => Goal
  BY OtherFacts
<1> HIDE DEF Goal
<1>8. Goal
  BY <1>1, <1>2, <1>3, <1>4, <1>5, <1>6, <1>7 DEF Quiet
<1> QED  BY <1>8 DEF Goal

-----------------------------------------------------------------------------
(* Releases and what is cached.                                             *)

\* What a step may do to them.
Serving ==
    /\ version' \in {version, version + 1}
    /\ \/ releases' = releases
       \/ \E p \in Process :
             /\ job[p].pc = "point" /\ version' = version
             /\ releases' = Append(releases, job[p].built)
    /\ pointer' \in {pointer, None} \union 0..version
    /\ lock' \in {lock, None} \union Process
    /\ \/ received' = received
       \/ received < MaxRequests /\ received' = received + 1
    /\ disk' \in {disk} \union DOMAIN Seeds
    /\ fingerprint' \in {fingerprint, None, disk}

\* What is stored and cached, by what a step may do to it.
LEMMA ServingKeeps ==
    ASSUME Served, Stored, \A p \in Process : Facts(p), Serving
    PROVE  Served' /\ version' \in Nat /\ version <= version'
<1>1. MaxRequests \in Nat /\ version \in Nat
  BY AuthoringAssumption DEF Stored
<1>2. version' \in Nat /\ version <= version'
  BY <1>1 DEF Serving
<1>3. ASSUME NEW i \in DOMAIN releases'
      PROVE  Good(releases'[i]) /\ releases'[i].version \in 1..version'
  <2>1. CASE releases' = releases
    BY <1>1, <1>2, <1>3, <2>1 DEF Served
  <2>2. CASE releases' # releases
    <3>1. PICK p \in Process : /\ job[p].pc = "point" /\ version' = version
                               /\ releases' = Append(releases, job[p].built)
      BY <2>2 DEF Serving
    <3>2. Good(job[p].built) /\ job[p].built.version \in 1..version
      BY <3>1 DEF Facts, Holding
    <3>3. PICK S : releases \in Seq(S)
      BY DEF Stored
    <3>4. releases'[i] = job[p].built \/ (i \in DOMAIN releases /\ releases'[i] = releases[i])
      BY <1>3, <3>1, <3>3
    <3> QED  BY <3>1, <3>2, <3>4 DEF Served
  <2> QED  BY <2>1, <2>2
<1>4. pointer' \in 0..version' \union {None}
  BY <1>1, <1>2 DEF Served, Serving
<1>5. lock' \in Process \union {None}
  BY DEF Served, Serving
<1>6. received' \in 0..MaxRequests
  BY <1>1 DEF Served, Serving
<1>7. disk' \in DOMAIN Seeds /\ fingerprint' \in DOMAIN Seeds \union {None}
  BY DEF Served, Serving
<1> QED  BY <1>2, <1>3, <1>4, <1>5, <1>6, <1>7 DEF Served

\* And every step does no more.
LEMMA StepServing ==
    ASSUME \A p \in Process : Facts(p),
           \/ \E p \in Process :
                 \/ Quiet(p) \/ Validate(p) \/ Flip(p) \/ CreateRelease(p)
                 \/ CommitPublish(p) \/ Activate(p) \/ DropPointer(p) \/ SendRetired(p)
           \/ Expire \/ SaveContent \/ UNCHANGED vars
    PROVE  Serving
<1> USE DEF releaseRows, outside, Serving
<1>1. ASSUME NEW p \in Process, NEW q \in RequestName, Receive(p, q) \/ CheckForChanges(p, q)
      PROVE  Serving
  BY <1>1 DEF Receive, CheckForChanges
<1>2. ASSUME NEW p \in Process,
             \/ FindForCreate(p) \/ FindForUpdate(p) \/ FindForArchive(p)
             \/ FindForRestore(p) \/ FindParent(p) \/ CheckEmpty(p) \/ SetStatus(p)
             \/ FindChildren(p) \/ Reread(p) \/ RereadPart(p)
             \/ CheckParent(p) \/ CheckOthers(p)
      PROVE  Serving
  BY <1>2 DEF FindForCreate, FindForUpdate, FindForArchive, FindForRestore,
              FindParent, CheckEmpty, SetStatus, FindChildren, Reread,
              RereadPart, CheckParent, CheckOthers
<1>3. ASSUME NEW p \in Process,
             \/ Write(p) \/ ReadTable(p) \/ ReadPart(p)
             \/ PlanUnitImport(p) \/ PlanImport(p)
             \/ LoadContent(p) \/ Commit(p) \/ ActivateNone(p)
             \/ PointerHit(p) \/ PointerMiss(p) \/ Flip(p) \/ Activate(p)
      PROVE  Serving
  BY <1>3 DEF Write, ReadTable, ReadPart, PlanUnitImport, PlanImport, LoadContent, Commit,
              ActivateNone, PointerHit, PointerMiss, Flip, Activate
<1>4. ASSUME NEW p \in Process, FillPointer(p) PROVE Serving
  <2>1. job[p].against \in 0..version
    BY <1>4 DEF FillPointer, At, Facts, Holding
  <2> QED  BY <1>4, <2>1 DEF FillPointer
<1>5. ASSUME NEW p \in Process, DropPointer(p) \/ SendRetired(p) PROVE Serving
  BY <1>5 DEF DropPointer, SendRetired
<1>6. ASSUME NEW p \in Process, TakeLock(p) \/ Validate(p) PROVE Serving
  BY <1>6 DEF TakeLock, Validate, Free
<1>7. ASSUME NEW p \in Process, TimeOut(p) \/ Stop(p) PROVE Serving
  BY <1>7 DEF TimeOut, Stop, Free
<1>8. ASSUME NEW p \in Process, CreateRelease(p) PROVE Serving
  BY <1>8 DEF CreateRelease
<1>9. ASSUME NEW p \in Process, CommitPublish(p) PROVE Serving
  BY <1>9 DEF CommitPublish, At, Free
<1>10. CASE Expire \/ SaveContent \/ UNCHANGED vars
  BY <1>10 DEF Expire, SaveContent, vars
<1> QED  BY <1>1, <1>2, <1>3, <1>4, <1>5, <1>6, <1>7, <1>8, <1>9, <1>10 DEF Quiet

-----------------------------------------------------------------------------
(* The theorems.                                                            *)

\* What a step does to the rows: nothing, a commit, the write of a row, or the
\* marking of drafts.
RowStep(p) ==
    \/ WritesNothing(p)
    \/ (Commit(p) \/ CommitPublish(p)) /\ Commits(p)
    \/ /\ SetStatus(p) /\ Writes(p, statusRow(p))
       /\ target(p) \in Slug /\ view(p)[target(p)] \in Row
    \/ /\ Write(p) /\ dbAccepts(p, Head(job[p].todo))
       /\ Writes(p, writeRecord(p, Head(job[p].todo).record))
    \/ Flip(p) /\ Flips(p, drafts(Head(job[p].left)))

\* Each step is one of them.
LEMMA StepEffect ==
    ASSUME Fields, Steady, NEW p \in Process, Facts(p),
           \/ Quiet(p) \/ Validate(p) \/ Flip(p) \/ CreateRelease(p)
           \/ CommitPublish(p) \/ Activate(p) \/ DropPointer(p) \/ SendRetired(p)
    PROVE  RowStep(p)
<1>1. CASE Commit(p) \/ CommitPublish(p)
  BY <1>1, CommitEffect DEF RowStep
<1>2. CASE SetStatus(p)
  <2>1. target(p) = request(p).slug /\ request(p).slug \in Slug /\ Known(p, request(p).slug)
    BY <1>2 DEF SetStatus, At, Facts, Marking, target
  <2> QED  BY <1>2, <2>1, SetStatusEffect DEF RowStep
<1>3. CASE Write(p)
  <2>1. Head(job[p].todo).record \in Record
    <3>1. /\ job[p].todo # <<>> /\ \E S : job[p].todo \in Seq(S)
          /\ job[p].todo[1].record \in Record
      BY <1>3 DEF Write, At, Facts, Writing, WritingSteps
    <3> QED  BY <3>1, TailIs
  <2> QED  BY <1>3, <2>1, WriteEffect DEF RowStep
<1>4. CASE Flip(p)
  BY <1>4, FlipEffect DEF RowStep
<1>5. CASE Rowless(p)
  BY <1>5, RowlessEffect DEF RowStep
<1> QED  BY <1>1, <1>2, <1>3, <1>4, <1>5 DEF Rowless

\* None of them leaves rows that are not steady.
LEMMA StepSteady ==
    ASSUME Fields, Steady, NEW p \in Process, RowStep(p), \A q \in Process \ {p} : job'[q] = job[q]
    PROVE  Steady' /\ RowsStay
<1>0. JobTyped
  BY DEF JobTyped, Fields, Idle
<1>1. CASE WritesNothing(p)
  BY <1>0, <1>1, WritesNothingSteady DEF RowsStay, WritesNothing
<1>2. CASE Commits(p)
  BY <1>2, CommitsSteady, CommitsStay
<1>3. ASSUME NEW row, Writes(p, row) PROVE Steady' /\ RowsStay
  BY <1>3, WritesSteady DEF RowsStay, Writes
<1>4. ASSUME NEW those, Flips(p, those) PROVE Steady' /\ RowsStay
  BY <1>4, FlipsSteady DEF RowsStay, Flips
<1> QED  BY <1>1, <1>2, <1>3, <1>4 DEF RowStep

\* A step of a process changes no other job.
LEMMA OwnJob ==
    ASSUME Fields, NEW p \in Process,
           \/ Quiet(p) \/ Validate(p) \/ Flip(p) \/ CreateRelease(p)
           \/ CommitPublish(p) \/ Activate(p) \/ DropPointer(p) \/ SendRetired(p)
    PROVE  \A q \in Process \ {p} : job'[q] = job[q]
<1>1. \A j : Go(p, j) => \A q \in Process \ {p} : job'[q] = job[q]
  BY DEF Go, Fields
<1>2. \E j : Go(p, j)
  <2>1. ASSUME NEW q \in RequestName, Receive(p, q) \/ CheckForChanges(p, q)
        PROVE  \E j : Go(p, j)
    BY <2>1 DEF Receive, CheckForChanges
  <2>2. CASE \/ FindForCreate(p) \/ FindForUpdate(p) \/ FindForArchive(p)
             \/ FindForRestore(p) \/ FindParent(p) \/ CheckEmpty(p) \/ SetStatus(p)
             \/ FindChildren(p) \/ Reread(p) \/ RereadPart(p)
             \/ CheckParent(p) \/ CheckOthers(p)
    BY <2>2 DEF FindForCreate, FindForUpdate, FindForArchive, FindForRestore, FindParent,
                CheckEmpty, SetStatus, FindChildren, Reread, RereadPart, CheckParent,
                CheckOthers, Refuse, End
  <2>3. CASE \/ Write(p) \/ ReadTable(p) \/ ReadPart(p)
             \/ PlanUnitImport(p) \/ PlanImport(p)
             \/ LoadContent(p) \/ Commit(p) \/ ActivateNone(p) \/ PointerHit(p)
             \/ PointerMiss(p) \/ FillPointer(p) \/ TakeLock(p) \/ TimeOut(p) \/ Stop(p)
    BY <2>3 DEF Write, ReadTable, ReadPart, PlanUnitImport, PlanImport, LoadContent,
                Commit, ActivateNone, PointerHit, PointerMiss, FillPointer, TakeLock, TimeOut,
                Stop, Decide, End
  <2>4. CASE \/ Validate(p) \/ Flip(p) \/ CreateRelease(p) \/ CommitPublish(p)
             \/ Activate(p) \/ DropPointer(p) \/ SendRetired(p)
    BY <2>4 DEF Validate, Flip, CreateRelease, CommitPublish, Activate, DropPointer,
                SendRetired, End
  <2> QED  BY <2>1, <2>2, <2>3, <2>4 DEF Quiet
<1> QED  BY <1>1, <1>2

\* Every step preserves the invariant.
LEMMA NextCorrect == Inductive /\ Correct /\ [Next]_vars => Correct'
<1> SUFFICES ASSUME Inductive, Correct, [Next]_vars PROVE Correct'
  OBVIOUS
<1>1. /\ Fields /\ Steady /\ Served /\ (\A p \in Process : Facts(p))
      /\ Stored /\ version \in Nat
  BY DEF Correct, Inductive, Stored
<1>2. active \in 0..version
  BY <1>1 DEF Stored, StoredVersion
<1>3. \/ \E p \in Process :
            \/ Quiet(p) \/ Validate(p) \/ Flip(p) \/ CreateRelease(p)
            \/ CommitPublish(p) \/ Activate(p) \/ DropPointer(p) \/ SendRetired(p)
      \/ Expire \/ SaveContent \/ UNCHANGED vars
  BY DEF Next, Step, Quiet
<1>4. Served' /\ version' \in Nat /\ version <= version'
  BY <1>1, <1>3, StepServing, ServingKeeps
<1>5. ASSUME NEW p \in Process,
             \/ Quiet(p) \/ Validate(p) \/ Flip(p) \/ CreateRelease(p)
             \/ CommitPublish(p) \/ Activate(p) \/ DropPointer(p) \/ SendRetired(p)
      PROVE  Correct'
  <2>1. \A q \in Process \ {p} : job'[q] = job[q]
    BY <1>1, <1>5, OwnJob
  <2>2. Steady' /\ RowsStay
    BY <1>1, <1>5, <2>1, StepEffect, StepSteady
  <2>3. Facts(p)' /\ DOMAIN job' = Process /\ DOMAIN job'[p] = DOMAIN Idle
    BY <1>1, <1>2, <1>5, StepFacts
  <2>4. ASSUME NEW q \in Process \ {p} PROVE Facts(q)'
    BY <1>1, <1>4, <2>1, <2>2, OthersFacts
  <2>5. Fields'
    BY <1>1, <2>1, <2>3 DEF Fields
  <2>6. \A q \in Process : Facts(q)'
    BY <2>3, <2>4
  <2> QED  BY <1>4, <2>2, <2>5, <2>6 DEF Correct
<1>6. CASE Expire \/ SaveContent \/ UNCHANGED vars
  <2>1. UNCHANGED <<rows, job>>
    BY <1>6 DEF Expire, SaveContent, vars
  <2>2. Fields' /\ RowsStay
    BY <1>1, <2>1 DEF Fields, RowsStay
  <2>3. Steady'
    BY <1>1, <2>1 DEF Steady
  <2>4. \A p \in Process : Facts(p)'
    BY <1>1, <1>4, <2>1, <2>2, OthersFacts
  <2> QED  BY <1>4, <2>2, <2>3, <2>4 DEF Correct
<1> QED  BY <1>3, <1>5, <1>6

\* A seed's record of a slug, if it has one.
LEMMA RecordOfIs ==
    ASSUME NEW seed \in DOMAIN Seeds, Seeds[seed] \subseteq Record, NEW s, recordOf(seed, s) # None
    PROVE  recordOf(seed, s) \in Record /\ recordOf(seed, s).slug = s
<1> DEFINE those == {r \in Seeds[seed] : r.slug = s}
<1>1. those # {} /\ recordOf(seed, s) = CHOOSE r \in those : TRUE
  BY DEF recordOf, theOne
<1>2. recordOf(seed, s) \in those
  BY <1>1
<1> QED  BY <1>2

\* What admins can have made of a seed is made of rows.
LEMMA EditedSound ==
    ASSUME NEW released \in DOMAIN Seeds, NEW copy \in DOMAIN Seeds,
           Seeds[released] \subseteq Record, Seeds[copy] \subseteq Record,
           oneCheckpointEach(Edited(released, copy))
    PROVE  Sound(Edited(released, copy))
<1> DEFINE table == Edited(released, copy)
<1>1. ASSUME NEW s \in Slug
      PROVE  /\ table[s] \in Row \union {None}
             /\ table[s] # None => table[s].record.slug = s
  <2> DEFINE before == recordOf(released, s)
             now == recordOf(copy, s)
  <2>1. before # None => before \in Record /\ before.slug = s
    BY RecordOfIs
  <2>2. now # None => now \in Record /\ now.slug = s
    BY RecordOfIs
  <2>3. table[s] = CASE now = None /\ before = None -> None
                     [] now = None /\ before # None ->
                           [record |-> before, seed |-> before, status |-> "ARCHIVED"]
                     [] OTHER ->
                           [record |-> now, seed |-> before,
                            status |-> IF now = before THEN "PUBLISHED" ELSE "DRAFT"]
    BY DEF Edited
  <2> HIDE DEF before, now, table
  <2>4. CASE now = None /\ before = None
    BY <2>3, <2>4
  <2>5. CASE now = None /\ before # None
    <3>1. table[s] = [record |-> before, seed |-> before, status |-> "ARCHIVED"]
      BY <2>3, <2>5
    <3> QED  BY <2>1, <2>5, <3>1 DEF Row, Statuses
  <2>6. CASE now # None
    <3>1. table[s] = [record |-> now, seed |-> before,
                      status |-> IF now = before THEN "PUBLISHED" ELSE "DRAFT"]
      BY <2>3, <2>6
    <3> QED  BY <2>1, <2>2, <2>6, <3>1 DEF Row, Statuses
  <2> QED  BY <2>4, <2>5, <2>6
<1>2. table = [s \in Slug |-> table[s]]
  BY DEF Edited
<1> HIDE DEF table
<1>3. table \in [Slug -> Row \union {None}]
  BY <1>1, <1>2
<1> QED  BY <1>1, <1>3 DEF Sound, table

\* It holds at the start.
LEMMA InitCorrect == Init => Correct
<1> SUFFICES ASSUME Init PROVE Correct
  OBVIOUS
<1>1. job = [p \in Process |-> Idle] /\ pointer = None /\ lock = None
      /\ fingerprint = None /\ received = 0
  BY DEF Init
<1>2. Fields
  BY <1>1 DEF Fields
<1>3. ASSUME NEW p \in Process
      PROVE  job[p].pc = "idle" /\ job[p].written = <<>>
  BY <1>1 DEF Idle
<1>4. \A p \in Process : Facts(p)
  BY <1>3 DEF Facts, Asked, Reading, Writing, WritingSteps, Marking, Holding
<1>5. PICK start \in Starts :
          IF start.released = "nothing"
          THEN /\ rows = [s \in Slug |-> None]
               /\ releases = <<>> /\ version = 0
               /\ disk = start.copy
          ELSE /\ rows = Edited(start.released, start.copy)
               /\ releases = <<numbered(buildRelease(Seeds[start.released]), 1)>>
               /\ version = 1
               /\ disk = start.released
  BY DEF Init
<1>6. /\ start.released \in DOMAIN Seeds \union {"nothing"} /\ start.copy \in DOMAIN Seeds
      /\ start.released # "nothing" =>
            /\ loadContent(Seeds[start.released])
            /\ \A r \in Seeds[start.copy] : parseAdminRecord(r)
            /\ oneCheckpointEach(Edited(start.released, start.copy))
      /\ MaxRequests \in Nat
  BY AuthoringAssumption
<1>7. CASE start.released = "nothing"
  <2>1. Sound(rows)
    BY <1>5, <1>7, NothingSeen
  <2>2. releases = <<>> /\ version = 0 /\ disk \in DOMAIN Seeds
    BY <1>5, <1>6, <1>7
  <2>3. Served
    BY <1>1, <1>6, <2>2 DEF Served
  <2> QED  BY <1>2, <1>3, <1>4, <2>1, <2>3, NothingWritten DEF Correct, Steady
<1>8. CASE start.released # "nothing"
  <2> DEFINE corpus == Seeds[start.released]
             release == numbered(buildRelease(corpus), 1)
  <2>1. /\ rows = Edited(start.released, start.copy) /\ releases = <<release>>
        /\ version = 1 /\ disk = start.released /\ start.released \in DOMAIN Seeds
    BY <1>5, <1>6, <1>8
  <2>2. /\ loadContent(corpus) /\ corpus \in Corpora /\ Seeds[start.copy] \in Corpora
        /\ \A r \in Seeds[start.copy] : parseAdminRecord(r)
    BY <1>6, <1>8, <2>1 DEF Corpora
  <2>3. corpus \subseteq Record
    BY <2>2, LoadedRecords
  <2>4. Seeds[start.copy] \subseteq Record
    BY <2>2, CorpusIs, SourceRecord
  <2>5. Sound(rows)
    BY <1>6, <1>8, <2>1, <2>3, <2>4, EditedSound
  <2>6. Publishable(corpus)
    <3>1. inFiles(corpus) /\ \A r \in corpus : r.slug \in ToSet(Slugs)
      BY <2>2, CorpusIs DEF Slug
    <3> HIDE DEF corpus
    <3> QED  BY <2>2, <3>1, FilesPublishable
  <2>7. Good(release) /\ release.version = 1
    <3> HIDE DEF corpus
    <3> QED  BY <2>6, BuiltGood, NumberedKeeps DEF release
  <2> HIDE DEF release
  <2>8. DOMAIN releases = {1} /\ releases[1] = release
    BY <2>1
  <2>9. Served
    BY <1>1, <1>6, <2>1, <2>7, <2>8 DEF Served
  <2> QED  BY <1>2, <1>3, <1>4, <2>5, <2>9, NothingWritten DEF Correct, Steady
<1> QED  BY <1>7, <1>8

\* The invariant gives what the runs check.
LEMMA CorrectTyped == Inductive /\ Correct => TypeOK /\ ReleasesAreWhole
<1> SUFFICES ASSUME Inductive, Correct PROVE TypeOK /\ ReleasesAreWhole
  OBVIOUS
<1>1. /\ Sound(rows) /\ Served /\ Stored
      /\ \A p \in Process : Written(job[p].written)
  BY DEF Correct, Steady, Inductive
<1>2. active \in 0..version
  BY <1>1 DEF Stored, StoredVersion
<1>3. TypeOK
  BY <1>1, <1>2 DEF TypeOK, Sound, Written, Served
<1>4. ReleasesAreWhole
  BY <1>1 DEF ReleasesAreWhole, Served, Good
<1> QED  BY <1>3, <1>4

\* Whatever is written, imported, reordered, restored or published, and however
\* the steps of any number of requests mix: every row holds a record in the shape
\* its schema asks for, under its slug, and so does every row a transaction has
\* written; versions stay among those the sequence has given.
THEOREM TypeCorrect == Spec => []TypeOK
<1>1. Init => Inductive /\ Correct
  BY InitInductive, InitCorrect
<1>2. Inductive /\ Correct /\ [Next]_vars => Inductive' /\ Correct'
  BY NextInductive, NextCorrect
<1>3. Inductive /\ Correct => TypeOK
  BY CorrectTyped
<1> QED  BY <1>1, <1>2, <1>3, PTL DEF Spec

\* Although a publish reads the working copy table by table while admins and
\* imports change it, every release it stores, and any that is activated again,
\* is whole, and teaches every item, once, before a step uses it.
THEOREM ReleasesAreWholeHolds == Spec => []ReleasesAreWhole
<1>1. Init => Inductive /\ Correct
  BY InitInductive, InitCorrect
<1>2. Inductive /\ Correct /\ [Next]_vars => Inductive' /\ Correct'
  BY NextInductive, NextCorrect
<1>3. Inductive /\ Correct => ReleasesAreWhole
  BY CorrectTyped
<1> QED  BY <1>1, <1>2, <1>3, PTL DEF Spec
=============================================================================
