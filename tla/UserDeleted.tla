------------------------------- MODULE UserDeleted -------------------------------
(***************************************************************************)
(* Deleted accounts: the user_deleted consumer of src/src/user-data/,      *)
(* consumeWithRetry and commitCurrentMessage of                            *)
(* src/src/messaging/kafka-helpers.ts, and purgeUser.                      *)
(*                                                                         *)
(* The topic is one partition, read by one consumer at a time.  Kafka      *)
(* delivers from the committed offset after a start, and again a message   *)
(* whose handler threw.  auth-service sends at least once.                 *)
(***************************************************************************)
EXTENDS Naturals, Sequences, FiniteSets

CONSTANTS
    None,          \* no user: a field that is missing or not a uuid
    User,          \* learners
    MaxMessages,   \* how many messages the topic gets
    MaxCrashes     \* how often the consumer dies

ASSUME UserDeletedAssumption ==
    /\ None \notin User
    /\ MaxMessages \in Nat /\ MaxCrashes \in Nat

DEFAULT_MAX_ATTEMPTS == 3

\* The tables with a learner's rows, in the order purgeUser empties them.
UserTables == <<"enrollments", "lesson_completions", "checkpoint_attempts",
                "placement_results">>
Row == User \X {UserTables[i] : i \in DOMAIN UserTables}

VARIABLES
    topic,       \* the messages: the user each names, or None
    committed,   \* how many of them are committed
    rows,        \* learners' rows, by user and table
    pc,          \* what the consumer does with the message after "committed"
    attempt,     \* which attempt this is
    tables,      \* how many tables this attempt's transaction has emptied
    gaveUp,      \* offsets logged as given up
    crashes      \* how often the consumer died

vars == <<topic, committed, rows, pc, attempt, tables, gaveUp, crashes>>

message == topic[committed + 1]

Init ==
    /\ topic = <<>> /\ committed = 0
    /\ rows = Row
    /\ pc = "waiting" /\ attempt = 1 /\ tables = 0
    /\ gaveUp = {} /\ crashes = 0

\* auth-service's outbox: an account is deleted, the message is sent again, or
\* it names nobody.
Send(user) ==
    /\ Len(topic) < MaxMessages
    /\ topic' = Append(topic, user)
    /\ UNCHANGED <<committed, rows, pc, attempt, tables, gaveUp, crashes>>

\* Mutant: the payload's field is taken as it is.
AcceptUnchecked ==
    /\ pc = "waiting" /\ committed < Len(topic)
    /\ pc' = "purging" /\ attempt' = 1 /\ tables' = 0
    /\ UNCHANGED <<topic, committed, rows, gaveUp, crashes>>

\* handleUserDeleted: a message that names nobody is only committed.
Accept ==
    /\ pc = "waiting" /\ committed < Len(topic)
    /\ pc' = IF message = None THEN "skipping" ELSE "purging"
    /\ attempt' = 1 /\ tables' = 0
    /\ UNCHANGED <<topic, committed, rows, gaveUp, crashes>>

\* One deleteMany of the transaction; none of it is seen before the commit.
EmptyTable ==
    /\ pc = "purging" /\ tables < Len(UserTables)
    /\ tables' = tables + 1
    /\ UNCHANGED <<topic, committed, rows, pc, attempt, gaveUp, crashes>>

\* A filter by a user who is not there is no filter.
matching(user) ==
    {row \in rows : (user = None \/ row[1] = user)
                    /\ \E i \in 1..tables : row[2] = UserTables[i]}

\* The transaction commits; invalidateUser swallows its errors.
CommitPurge ==
    /\ pc = "purging" /\ tables = Len(UserTables)
    /\ rows' = rows \ matching(message)
    /\ pc' = "done"
    /\ UNCHANGED <<topic, committed, attempt, tables, gaveUp, crashes>>

\* Mutant: the attempts are not counted.
FailUncounted ==
    /\ pc \in {"purging", "done"}
    /\ tables' = 0 /\ pc' = "purging"
    /\ UNCHANGED <<topic, committed, rows, attempt, gaveUp, crashes>>

\* A statement, or the commit of the offset, throws: the next attempt, after a
\* pause, or the last one was made.
Fail ==
    /\ pc \in {"purging", "done"}
    /\ tables' = 0
    /\ IF attempt < DEFAULT_MAX_ATTEMPTS
       THEN attempt' = attempt + 1 /\ pc' = "purging" /\ UNCHANGED gaveUp
       ELSE /\ pc' = "givingUp"
            /\ gaveUp' = gaveUp \union {committed + 1}
            /\ UNCHANGED attempt
    /\ UNCHANGED <<topic, committed, rows, crashes>>

\* Mutant: the offset is committed before the purge's transaction is.
CommitOffsetEarly ==
    /\ pc \in {"purging", "skipping", "done", "givingUp"}
    /\ committed' = committed + 1
    /\ pc' = "waiting" /\ tables' = 0
    /\ UNCHANGED <<topic, rows, attempt, gaveUp, crashes>>

\* commitCurrentMessage: after success, for a malformed message, or to unblock
\* the partition.
CommitOffset ==
    /\ pc \in {"skipping", "done", "givingUp"}
    /\ committed' = committed + 1
    /\ pc' = "waiting" /\ tables' = 0
    /\ UNCHANGED <<topic, rows, attempt, gaveUp, crashes>>

\* Outside the attempts nobody catches an error: Kafka delivers again.
Throw ==
    /\ pc \in {"skipping", "givingUp"}
    /\ pc' = "waiting" /\ tables' = 0
    /\ UNCHANGED <<topic, committed, rows, attempt, gaveUp, crashes>>

\* The consumer dies, and with it its transaction; the next one starts from the
\* committed offset.
Crash ==
    /\ crashes < MaxCrashes /\ pc # "waiting"
    /\ crashes' = crashes + 1
    /\ pc' = "waiting" /\ tables' = 0
    /\ UNCHANGED <<topic, committed, rows, attempt, gaveUp>>

Consume == Accept \/ EmptyTable \/ CommitPurge \/ Fail \/ CommitOffset \/ Throw

Next ==
    \/ \E user \in User \union {None} : Send(user)
    \/ Accept \/ EmptyTable \/ CommitPurge \/ Fail \/ CommitOffset \/ Throw
    \/ Crash

\* The consumer goes on with a message, and the broker takes a commit in the end
\* when it is asked again and again.  The database may fail every attempt.
Fairness ==
    /\ WF_vars(Consume)
    /\ SF_vars(CommitOffset)

Spec == Init /\ [][Next]_vars /\ Fairness

-----------------------------------------------------------------------------
(* Properties.                                                              *)

rowsOfUser(user) == {row \in rows : row[1] = user}

\* A committed message's user has no row left in any of the tables, unless the
\* message was given up and logged: a crash, a failed commit and a second
\* delivery lose no purge.
CommittedMeansPurged ==
    \A i \in 1..committed :
        topic[i] # None => rowsOfUser(topic[i]) = {} \/ i \in gaveUp

\* Only accounts that were deleted lose rows, and all of them or none: a message
\* without a user empties no table, and no attempt that failed half way shows.
OnlyTheDeletedLoseRows ==
    \A user \in User :
        \/ rowsOfUser(user) = {<<user, UserTables[i]>> : i \in DOMAIN UserTables}
        \/ /\ rowsOfUser(user) = {}
           /\ \E i \in DOMAIN topic : topic[i] = user

\* No message stops the partition, not even one whose purge always fails.
PartitionMovesOn == \A n \in 1..MaxMessages : Len(topic) >= n ~> committed >= n
=============================================================================
