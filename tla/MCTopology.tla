----------------------------- MODULE MCTopology ------------------------------
(***************************************************************************)
(* Model values for Topology.  home and flash stay where they are, spare   *)
(* is added, moved from d1 to d2 and removed again; every document that    *)
(* must not run breaks one rule.                                           *)
(***************************************************************************)
EXTENDS Topology, TLC

CONSTANTS home, flash, spare, d1, d2, d3, w1, w2, w3, b1, site, noDocument, noDaemon

Entry(s, d, roles) ==
    [id |-> s, location |-> site, daemon |-> d, roles |-> roles, sized |-> TRUE,
     root |-> <<s>>]

Home == Entry(home, d1, {"source"})
Flash == Entry(flash, d2, {"cache"})
Spare(d) == Entry(spare, d, {"source", "cache"})

Document(rev, storages) ==
    [rev |-> rev, locations |-> <<site>>, daemons |-> <<d1, d2>>, storages |-> storages,
     throughput |-> {}, minRate |-> 1, maxRate |-> 2]

Without == Document(1, <<Home, Flash>>)
Near == Document(2, <<Home, Flash, Spare(d1)>>)
Far == Document(3, <<Home, Flash, Spare(d2)>>)
Again == Document(4, <<Home, Flash>>)

Refused ==
    {Document(4, <<Entry(home, d3, {"source"}), Flash, Spare(d1)>>),
     Document(4, <<Home, Flash, Spare(d1), Spare(d2)>>),
     Document(4, <<Home, Flash, [Spare(d1) EXCEPT !.root = <<home, spare>>]>>),
     Document(4, <<Home, Flash, [Spare(d1) EXCEPT !.sized = FALSE]>>),
     [Again EXCEPT !.throughput = {<<spare, flash>>}],
     [Again EXCEPT !.minRate = 3],
     [Again EXCEPT !.daemons = <<d1, d2, d2>>],
     [Again EXCEPT !.locations = <<>>]}

DocumentsMC == {Near, Far, Again} \cup Refused

\* A cache that is added while the controller runs.
GrowsMC == {Without, Near}

DeclarationsMC == {{flash}, {flash, spare}, {home, spare}}

RouteMC ==
    LET Between(source, target) == [source |-> source, target |-> target]
        all == (w1 :> Between(home, flash)) @@ (w2 :> Between(spare, flash))
               @@ (w3 :> Between(home, spare)) @@ (b1 :> Between(flash, spare))
    IN  [t \in Transfers |-> all[t]]
=============================================================================
