---------------------------- MODULE MCGoProcessor ----------------------------
(***************************************************************************)
(* Small instances of GoProcessor for TLC.                                  *)
(***************************************************************************)
EXTENDS GoProcessor, TLC

CONSTANTS e1, e2, e3, w1, w2, convA, convB

TwoTopics == (e1 :> convA) @@ (e2 :> convB) @@ (e3 :> convA)
OneTopic == (e1 :> convA) @@ (e2 :> convA) @@ (e3 :> convA)
=============================================================================
