------------------------------- MODULE MCUsage --------------------------------
(***************************************************************************)
(* Model values for model-checking Usage: one user, one storage.           *)
(***************************************************************************)
EXTENDS Usage

CONSTANTS u1, s1, n1, n2, f1, f2, h1, h2, nobody, noFileset, everywhere, unset
=============================================================================
