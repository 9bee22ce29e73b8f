----------------------------- MODULE MCLearnerPath -----------------------------
(***************************************************************************)
(* Three releases of a small path. The second adds a lesson to each of the *)
(* first two units (which have no checkpoint) and replaces the last unit,  *)
(* which has one, by another.  The third has a first stage without units.  *)
(***************************************************************************)
EXTENDS AdminLearners

U(id, lessons, checkpointId) ==
    [id |-> id, lessons |-> lessons, checkpointId |-> checkpointId]

MCTree == [r1 |-> << <<U("u1", <<"a">>, None), U("u2", <<"b">>, None)>>,
                     <<U("u3", <<"c">>, "k3")>> >>,
           r2 |-> << <<U("u1", <<"a", "d">>, None), U("u2", <<"b", "e">>, None)>>,
                     <<U("u4", <<"f">>, "k4")>> >>,
           r3 |-> << <<>>, <<U("u2", <<"b">>, None), U("u3", <<"c">>, "k3")>> >>]
=============================================================================
