---------------------------- MODULE MCTaskRunner -----------------------------
(***************************************************************************)
(* Model values for model-checking TaskRunner: two tasks, for one          *)
(* transfer or for two, and two threads.                                   *)
(***************************************************************************)
EXTENDS TaskRunner

CONSTANTS t1, t2, noTransfer
=============================================================================
