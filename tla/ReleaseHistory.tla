----------------------------- MODULE ReleaseHistory -----------------------------
(***************************************************************************)
(* What releases promise to learners and to learning-service, whatever     *)
(* happens to the working copy: the class comment of                       *)
(* src/src/release/release.service.ts.  Releases are never edited or       *)
(* removed, each is newer than all before it, and learners are moved to a  *)
(* release in the step that stores it.  Items are announced as retired     *)
(* only for a release that is stored, lacks them, and came after one that  *)
(* had them.                                                               *)
(***************************************************************************)
EXTENDS Naturals, Sequences

VARIABLES
    history,   \* the releases stored: [version, items], oldest first
    active,    \* the version learners read, 0 before the first release
    announced  \* what learning-service was told: [version, items]

vars == <<history, active, announced>>

versions == {history[i].version : i \in DOMAIN history}

\* Before the first release, or right after it.
Init ==
    /\ \/ history = <<>> /\ active = 0
       \/ Len(history) = 1 /\ active = history[1].version
    /\ announced = {}

Publish ==
    /\ history' # history
    /\ Len(history') = Len(history) + 1
    /\ SubSeq(history', 1, Len(history)) = history
    /\ LET release == history'[Len(history')]
       IN  /\ \A v \in versions : v < release.version
           /\ active' = release.version
    /\ UNCHANGED announced

\* Roll back or forward; nothing is announced for it.
Activate ==
    /\ active' \in versions
    /\ UNCHANGED <<history, announced>>

Announce ==
    /\ \E i \in DOMAIN history : \E had \in 1..(i - 1) :
          \E items \in SUBSET (history[had].items \ history[i].items) :
              announced' = announced \union
                               {[version |-> history[i].version, items |-> items]}
    /\ UNCHANGED <<history, active>>

Next == Publish \/ Activate \/ Announce

Spec == Init /\ [][Next]_vars
=============================================================================
