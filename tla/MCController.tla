---------------------------- MODULE MCController ----------------------------
(***************************************************************************)
(* Model values for model-checking Controller.  Transfers, filesets and    *)
(* handlers are interchangeable, so the safety runs use them up to         *)
(* permutation.  The run that checks liveness may not: it has the rows     *)
(* used in one order instead, which loses nothing, since whatever is done  *)
(* with one unused row could be done with another.                         *)
(***************************************************************************)
EXTENDS Controller, TLC

CONSTANTS t1, t2, t3, f1, f2, h1, h2, e1, noTransfer, noFileset

Symmetric ==
    Permutations(Transfers) \cup Permutations(Filesets) \cup Permutations(Handlers)

Used(t) == transfer[t].state # "NONE"

InOrder == (Used(t2)' => Used(t1)') /\ (Used(t3)' => Used(t2)')
=============================================================================
