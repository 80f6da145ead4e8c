---------------------------- MODULE MCTaskRunner ----------------------------
(* One shell and two processes it may leave behind; a read asks for two      *)
(* units, so that output can end with half of one.                           *)
EXTENDS TaskRunner, TLC

CONSTANTS k1, k2

MCKids == {k1, k2}
==============================================================================
