-------------------------- MODULE MCSessionTimeline --------------------------
(***************************************************************************)
(* Small instances of SessionTimeline for TLC.                              *)
(***************************************************************************)
EXTENDS SessionTimeline

CONSTANTS u1, u2, u3

TwoTools == [u \in {u1, u2, u3} |-> IF u = u3 THEN "web" ELSE "exec"]

\* Runs of the same tool are alike.
Alike == Permutations({u1, u2})

Demo(n, failure) == [records |-> n, tools |-> <<"exec", "web">>, failure |-> failure]

Demos ==
    {Demo(16, Absent), Demo(16, [call |-> 1, terminal |-> FALSE]),
     Demo(13, [call |-> Absent, terminal |-> TRUE])}
=============================================================================
