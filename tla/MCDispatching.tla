---------------------------- MODULE MCDispatching ----------------------------
(***************************************************************************)
(* An instance of Dispatching in which the slots of users and storages run *)
(* out: alice has three warms, two of them on the route of bob's flush     *)
(* (home and scratch are both caches and sources), home is at an end of    *)
(* all of them, and a release of carol's takes a slot of it beside them.   *)
(***************************************************************************)
EXTENDS Dispatching, TLC

CONSTANTS w1, w2, w3, b1, r1, alice, bob, carol, home, scratch, flash

UserOfMC ==
    (w1 :> alice) @@ (w2 :> alice) @@ (w3 :> alice) @@ (b1 :> bob) @@ (r1 :> carol)

SourceOfMC == [t \in {w1, w2, w3, b1, r1} |-> home]

TargetOfMC ==
    (w1 :> scratch) @@ (w2 :> flash) @@ (w3 :> scratch) @@ (b1 :> scratch) @@ (r1 :> home)

NumberMC == (w1 :> 1) @@ (w2 :> 2) @@ (b1 :> 3) @@ (w3 :> 4)

\* Bob owes less than alice, or as much.
StandingsMC == {(alice :> 1) @@ (bob :> p) @@ (carol :> 0) : p \in {0, 1}}
=============================================================================
