----------------------------- MODULE MCAdmission -----------------------------
(***************************************************************************)
(* Model values for model-checking Admission.  Users, storages, names,     *)
(* rows and handlers are interchangeable, except that a resting request    *)
(* carries one chosen user, storage and name: those are not permuted.      *)
(***************************************************************************)
EXTENDS Admission, TLC

CONSTANTS u1, u2, s1, n1, n2, n3, f1, f2, f3, h1, h2, nobody, noFileset, everywhere, unset

\* The limit across all caches is lowered below the one on the storage, and cleared.
SettableMC == {<<everywhere, 2>>}

Symmetric == Permutations(Filesets) \cup Permutations(Handlers)
=============================================================================
