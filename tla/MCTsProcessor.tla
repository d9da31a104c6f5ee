---------------------------- MODULE MCTsProcessor ----------------------------
(***************************************************************************)
(* Small instances of TsProcessor for TLC.                                  *)
(***************************************************************************)
EXTENDS TsProcessor, TLC

CONSTANTS convA, convB

FourEvents == 1..4
TwoCalls == 1..2
=============================================================================
