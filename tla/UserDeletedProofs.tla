------------------------- MODULE UserDeletedProofs -------------------------
(***************************************************************************)
(* What UserDeleted promises of every topic, however many messages and     *)
(* crashes: a committed message is a purged or a given-up one, and nobody  *)
(* else loses a row.                                                       *)
(*                                                                         *)
(* Neither invariant is inductive: that a commit is sound rests on what    *)
(* the consumer knows of the message it holds (Holding), and this on the   *)
(* types (Typed).                                                          *)
(***************************************************************************)
EXTENDS UserDeleted, TLAPS

\* The values of the variables.
Typed ==
    /\ topic \in Seq(User \union {None})
    /\ committed \in Nat /\ committed <= Len(topic)
    /\ rows \subseteq Row
    /\ pc \in {"waiting", "purging", "skipping", "done", "givingUp"}
    /\ tables \in 0..4
    /\ gaveUp \subseteq Nat

\* What the consumer knows of the message it holds.
Holding ==
    /\ pc # "waiting" => committed < Len(topic)
    /\ pc \in {"purging", "done", "givingUp"} => message # None
    /\ pc = "skipping" => message = None
    /\ pc = "done" => rowsOfUser(message) = {}
    /\ pc = "givingUp" => committed + 1 \in gaveUp

Inductive == Typed /\ Holding /\ CommittedMeansPurged /\ OnlyTheDeletedLoseRows

\* The four tables of UserTables, one by one.
LEMMA FourTables ==
    /\ Len(UserTables) = 4 /\ DOMAIN UserTables = 1..4
    /\ \A row \in Row : row[1] \in User /\ \E i \in 1..4 : row[2] = UserTables[i]
  BY DEF UserTables, Row

\* What a finished purge deletes: the rows of its user, all of them.
LEMMA PurgeDeletesTheUser ==
    ASSUME Typed, tables = Len(UserTables), NEW user \in User
    PROVE  matching(user) = rowsOfUser(user)
  <1>1. user # None
    BY UserDeletedAssumption
  <1>2. \A row \in rows : \E i \in 1..tables : row[2] = UserTables[i]
    BY FourTables DEF Typed
  <1> QED BY <1>1, <1>2 DEF matching, rowsOfUser

\* A message is a user or None.
LEMMA MessageTyped ==
    ASSUME Typed, committed < Len(topic)
    PROVE  message \in User \union {None}
  BY DEF Typed, message

\* The initial state.
LEMMA InitInductive == Init => Inductive
  <1> SUFFICES ASSUME Init PROVE Inductive
    OBVIOUS
  <1>1. Typed
    BY DEF Init, Typed
  <1>2. Holding
    BY DEF Init, Holding
  <1>3. CommittedMeansPurged
    BY DEF Init, CommittedMeansPurged
  <1>4. OnlyTheDeletedLoseRows
    <2> SUFFICES ASSUME NEW user \in User
                 PROVE  rowsOfUser(user)
                          = {<<user, UserTables[i]>> : i \in DOMAIN UserTables}
      BY DEF OnlyTheDeletedLoseRows
    <2> QED BY DEF Init, rowsOfUser, Row
  <1> QED BY <1>1, <1>2, <1>3, <1>4 DEF Inductive

\* A message more changes nothing of those before it.
LEMMA SendKeeps ==
    ASSUME Inductive, NEW user \in User \union {None}, Send(user)
    PROVE  Inductive'
  <1> USE DEF Inductive, Send
  <1>1. /\ topic' \in Seq(User \union {None}) /\ Len(topic') = Len(topic) + 1
        /\ \A i \in 1..Len(topic) : topic'[i] = topic[i]
    BY DEF Typed
  <1>2. \A u : rowsOfUser(u)' = rowsOfUser(u)
    BY DEF rowsOfUser
  <1>3. Typed'
    BY <1>1 DEF Typed
  <1>4. pc # "waiting" => message' = message
    BY <1>1 DEF Typed, Holding, message
  <1>5. Holding'
    <2>1. Len(topic) \in Nat /\ committed \in Nat
      BY DEF Typed
    <2>2. CASE pc = "waiting"
      BY <2>2 DEF Holding
    <2>3. CASE pc # "waiting"
      <3>1. message' = message
        BY <2>3, <1>4
      <3>2. rowsOfUser(message)' = rowsOfUser(message)
        BY <3>1 DEF rowsOfUser
      <3> QED BY <2>1, <2>3, <1>1, <3>1, <3>2 DEF Holding
    <2> QED BY <2>2, <2>3
  <1>6. CommittedMeansPurged'
    <2> SUFFICES ASSUME NEW i \in 1..committed, topic'[i] # None
                 PROVE  rowsOfUser(topic[i])' = {} \/ i \in gaveUp
      BY DEF CommittedMeansPurged
    <2>1. i \in 1..Len(topic)
      BY DEF Typed
    <2>2. topic'[i] = topic[i]
      BY <2>1, <1>1
    <2>3. rowsOfUser(topic[i])' = rowsOfUser(topic[i])
      BY <2>2 DEF rowsOfUser
    <2> QED BY <2>2, <2>3 DEF CommittedMeansPurged
  <1>7. OnlyTheDeletedLoseRows'
    <2> SUFFICES ASSUME NEW u \in User
                 PROVE  (\/ rowsOfUser(u) = {<<u, UserTables[i]>> : i \in DOMAIN UserTables}
                         \/ /\ rowsOfUser(u) = {}
                            /\ \E i \in DOMAIN topic : topic[i] = u)'
      BY DEF OnlyTheDeletedLoseRows
    <2>1. ASSUME NEW i \in DOMAIN topic PROVE i \in DOMAIN topic' /\ topic'[i] = topic[i]
      BY <1>1 DEF Typed
    <2> QED BY <2>1, <1>2 DEF OnlyTheDeletedLoseRows
  <1> QED BY <1>3, <1>5, <1>6, <1>7

\* The steps that leave the topic, the rows and the committed offset alone.
LEMMA QuietKeeps ==
    ASSUME Inductive, Accept \/ EmptyTable \/ Fail \/ Throw \/ Crash
    PROVE  Inductive'
  <1>1. UNCHANGED <<topic, rows, committed>>
    BY DEF Accept, EmptyTable, Fail, Throw, Crash
  <1>2. gaveUp \subseteq gaveUp' /\ gaveUp' \subseteq Nat
    <2>1. CASE Fail
      <3>1. gaveUp' = gaveUp \/ gaveUp' = gaveUp \union {committed + 1}
        BY <2>1 DEF Fail
      <3>2. committed + 1 \in Nat /\ gaveUp \subseteq Nat
        BY DEF Inductive, Typed
      <3> QED BY <3>1, <3>2
    <2>2. CASE Accept \/ EmptyTable \/ Throw \/ Crash
      BY <2>2 DEF Inductive, Typed, Accept, EmptyTable, Throw, Crash
    <2> QED BY <2>1, <2>2
  <1>3. Typed'
    <2>1. /\ pc' \in {"waiting", "purging", "skipping", "done", "givingUp"}
          /\ tables' \in 0..4
      BY FourTables DEF Inductive, Typed, Accept, EmptyTable, Fail, Throw, Crash
    <2> QED BY <1>1, <1>2, <2>1 DEF Inductive, Typed
  <1>4. message' = message /\ rowsOfUser(message)' = rowsOfUser(message)
    BY <1>1 DEF message, rowsOfUser
  <1>5. Holding'
    <2>1. CASE Accept
      BY <2>1, <1>1, <1>4 DEF Accept, Holding
    <2>2. CASE EmptyTable
      BY <2>2, <1>1, <1>4 DEF EmptyTable, Holding, Inductive
    <2>3. CASE Fail
      BY <2>3, <1>1, <1>4 DEF Fail, Holding, Inductive
    <2>4. CASE Throw \/ Crash
      BY <2>4 DEF Throw, Crash, Holding
    <2> QED BY <2>1, <2>2, <2>3, <2>4
  <1>6. CommittedMeansPurged' /\ OnlyTheDeletedLoseRows'
    BY <1>1, <1>2 DEF Inductive, CommittedMeansPurged, OnlyTheDeletedLoseRows, rowsOfUser
  <1> QED BY <1>3, <1>5, <1>6 DEF Inductive

\* The purge takes the rows of the user the message names, and of nobody else.
LEMMA CommitPurgeKeeps ==
    ASSUME Inductive, CommitPurge
    PROVE  Inductive'
  <1> USE DEF Inductive
  <1>1. pc = "purging" /\ committed < Len(topic) /\ message # None
    BY DEF CommitPurge, Holding
  <1>2. message \in User
    BY <1>1, MessageTyped
  <1>3. UNCHANGED <<topic, committed, tables, gaveUp>> /\ pc' = "done" /\ message' = message
    BY DEF CommitPurge, message
  <1>4. rows' = rows \ rowsOfUser(message)
    BY <1>2, PurgeDeletesTheUser DEF CommitPurge
  <1>5. \A user : rowsOfUser(user)' =
                    IF user = message THEN {} ELSE rowsOfUser(user)
    BY <1>4 DEF rowsOfUser
  <1>6. Typed'
    BY <1>3, <1>4 DEF Typed
  <1>7. Holding'
    <2>1. rowsOfUser(message)' = {}
      BY <1>3, <1>4 DEF rowsOfUser
    <2> QED BY <1>1, <1>3, <2>1 DEF Holding
  <1>8. CommittedMeansPurged'
    BY <1>3, <1>4 DEF CommittedMeansPurged, rowsOfUser
  <1>9. OnlyTheDeletedLoseRows'
    <2> SUFFICES ASSUME NEW u \in User
                 PROVE  (\/ rowsOfUser(u) = {<<u, UserTables[i]>> : i \in DOMAIN UserTables}
                         \/ /\ rowsOfUser(u) = {}
                            /\ \E i \in DOMAIN topic : topic[i] = u)'
      BY DEF OnlyTheDeletedLoseRows
    <2>1. CASE u = message
      <3>1. committed + 1 \in DOMAIN topic
        BY <1>1 DEF Typed
      <3> QED BY <2>1, <3>1, <1>3, <1>5 DEF message
    <2>2. CASE u # message
      BY <2>2, <1>3, <1>5 DEF OnlyTheDeletedLoseRows
    <2> QED BY <2>1, <2>2
  <1> QED BY <1>6, <1>7, <1>8, <1>9

\* Only a message that is purged, given up or nobody's is committed.
LEMMA CommitOffsetKeeps ==
    ASSUME Inductive, CommitOffset
    PROVE  Inductive'
  <1> USE DEF Inductive
  <1>1. /\ UNCHANGED <<topic, rows, gaveUp>>
        /\ committed' = committed + 1 /\ pc' = "waiting" /\ tables' = 0
        /\ committed < Len(topic)
    BY DEF CommitOffset, Holding
  <1>2. Typed'
    BY <1>1 DEF Typed
  <1>3. Holding'
    BY <1>1 DEF Holding
  <1>4. CommittedMeansPurged'
    <2> SUFFICES ASSUME NEW i \in 1..committed + 1, topic[i] # None
                 PROVE  rowsOfUser(topic[i]) = {} \/ i \in gaveUp
      BY <1>1 DEF CommittedMeansPurged, rowsOfUser
    <2>1. CASE i \in 1..committed
      BY <2>1 DEF CommittedMeansPurged
    <2>2. CASE i = committed + 1
      BY <2>2 DEF CommitOffset, Holding, message
    <2> QED BY <2>1, <2>2 DEF Typed
  <1>5. OnlyTheDeletedLoseRows'
    BY <1>1 DEF OnlyTheDeletedLoseRows, rowsOfUser
  <1> QED BY <1>2, <1>3, <1>4, <1>5

\* Every step keeps the invariant.
LEMMA NextInductive == Inductive /\ [Next]_vars => Inductive'
  <1> SUFFICES ASSUME Inductive, [Next]_vars PROVE Inductive'
    OBVIOUS
  <1>1. ASSUME NEW user \in User \union {None}, Send(user) PROVE Inductive'
    BY <1>1, SendKeeps
  <1>2. CASE Accept \/ EmptyTable \/ Fail \/ Throw \/ Crash
    BY <1>2, QuietKeeps
  <1>3. CASE CommitPurge
    BY <1>3, CommitPurgeKeeps
  <1>4. CASE CommitOffset
    BY <1>4, CommitOffsetKeeps
  <1>5. CASE UNCHANGED vars
    BY <1>5 DEF vars, Inductive, Typed, Holding, message, rowsOfUser,
                CommittedMeansPurged, OnlyTheDeletedLoseRows
  <1> QED BY <1>1, <1>2, <1>3, <1>4, <1>5 DEF Next

\* In every reachable state the invariant holds.
LEMMA AlwaysInductive == Spec => []Inductive
  <1> QED BY InitInductive, NextInductive, PTL DEF Spec

\* However often the consumer dies, a purge fails or a message is delivered
\* again, a committed message's user is gone from every table unless the message
\* was given up (handleUserDeleted, consumeWithRetry).
THEOREM CommittedMeansPurgedHolds == Spec => []CommittedMeansPurged
  <1>1. Inductive => CommittedMeansPurged
    BY DEF Inductive
  <1> QED BY AlwaysInductive, <1>1, PTL

\* No sequence of messages, malformed ones among them, takes a row of an account
\* nobody deleted, or part of the rows of one that was (purgeUser).
THEOREM OnlyTheDeletedLoseRowsHolds == Spec => []OnlyTheDeletedLoseRows
  <1>1. Inductive => OnlyTheDeletedLoseRows
    BY DEF Inductive
  <1> QED BY AlwaysInductive, <1>1, PTL
=============================================================================
