----------------------------- MODULE MCPathProgress -----------------------------
(***************************************************************************)
(* Small trees and small sets of requests for PathProgress.                *)
(***************************************************************************)
EXTENDS PathProgress

U(id, lessons, checkpointId) ==
    [id |-> id, lessons |-> lessons, checkpointId |-> checkpointId]

\* The second release adds a lesson to u1, moves the checkpoint to u2 and gives
\* u2 a stage of its own; the third is long enough to place in different units.
MCTree == [r1 |-> << <<U("u1", <<"a">>, "k1"), U("u2", <<"b">>, None)>> >>,
           r2 |-> << <<U("u1", <<"a", "c">>, None)>>, <<U("u2", <<"b">>, "k2")>> >>,
           r3 |-> << <<U("u1", <<"a">>, None), U("u2", <<"b">>, "k2")>>,
                     <<U("u3", <<"c">>, "k3")>> >>]

Complete(lesson, score, n) ==
    [op |-> "complete", target |-> lesson, passes |-> {FALSE}, score |-> score,
     sends |-> n]
Take(unit, passes, n) ==
    [op |-> "checkpoint", target |-> unit, passes |-> passes, score |-> None,
     sends |-> n]
Plain(op, n) ==
    [op |-> op, target |-> None, passes |-> {FALSE}, score |-> None, sends |-> n]

\* Side by side: the placement test, the first lesson finished on two devices,
\* and its checkpoint.
Overlapping == [a |-> Complete("a", 50, 1), again |-> Complete("a", 90, 1),
                k |-> Take("u1", BOOLEAN, 1), place |-> Plain("placement", 1)]

\* Every operation, one at a time.
Sequential == [enroll |-> Plain("enroll", 1), a |-> Complete("a", 50, 2),
               a2 |-> Complete("a", None, 1), k |-> Take("u1", {TRUE}, 1),
               fail |-> Take("u1", {FALSE}, 1),
               place |-> Plain("placement", 1), reset |-> Plain("reset", 1),
               purge |-> Plain("purge", 1)]

\* The placement test and a checkpoint are resent, the checkpoint with other
\* answers perhaps.
Unreliable == [k |-> Take("u1", BOOLEAN, 2), place |-> Plain("placement", 2)]

\* A lesson done once, then finished again by a request sent twice.
Resent == [enroll |-> Plain("enroll", 1), a |-> Complete("a", 50, 1),
           again |-> Complete("a", 90, 2)]

\* A view is read while the learner enrols.
ReadWhileEnrolling == [enroll |-> Plain("enroll", 1), me |-> Plain("me", 1)]

\* Every process runs the same handlers.
Symmetry == Permutations(Process)
=============================================================================
