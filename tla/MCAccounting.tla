---------------------------- MODULE MCAccounting -----------------------------
(***************************************************************************)
(* An instance of Accounting: two transfers of one user that fall into one *)
(* bucket when they are of one day, each a little more than a GiB.          *)
(***************************************************************************)
EXTENDS Accounting, TLC

CONSTANTS w1, w2, alice, flash, site, route, noTime

AboutMC ==
    [t \in {w1, w2} |-> [user |-> alice, storage |-> flash, route |-> route, kind |-> "warm"]]

LocationOfMC == flash :> site

SizeMC == [t \in {w1, w2} |-> 11]

Symmetric == Permutations({w1, w2})
=============================================================================
