--------------------------- MODULE AdmissionProofs ----------------------------
(***************************************************************************)
(* Proofs about Admission, for every set of users, storages, filesets and  *)
(* requests and every limit.  What an admission decided still holds when   *)
(* its row is inserted because the lock is held from the one to the other  *)
(* (LocksHeld), so nobody else inserts a row for that user meanwhile and   *)
(* the room found is still there (RoomLeft).  That the row being made is   *)
(* still CREATING (MakersOwn) is what keeps a late answer from changing    *)
(* what is reserved.                                                       *)
(*                                                                         *)
(* Amounts are sums over what counts towards a limit (Mine, Alone).  What  *)
(* was found to fit still fits because, until the row is in, the sum can   *)
(* only become less (Promises): others' rows are not counted, and nobody   *)
(* else adds one that is.                                                  *)
(*                                                                         *)
(* All of this holds beside usage reconciliation too: the steps of Usage   *)
(* are Admission's or leave Admission's variables alone.                   *)
(***************************************************************************)
EXTENDS Usage, Sums

\* A request that will insert a row when it commits.
Inserting(h) ==
    /\ request[h].op \in {"create", "warm"}
    /\ request[h].at = "admitted"
    /\ request[h].f = NoFileset

\* What was admitted is committed under its user's lock.
LocksHeld ==
    \A h \in Handlers :
      request[h].at = "admitted" =>
        /\ lock[request[h].user] = h
        /\ request[h].op = "create" => request[h].f = NoFileset

\* The room an admission found is there until its row is in.
RoomLeft ==
    \A h \in Handlers :
      Inserting(h) =>
        /\ Cardinality(OwnedBy(request[h].user)) < MaxFilesets
        /\ Named(request[h].user, request[h].storage, request[h].name) = {}

\* Whoever makes a directory has its row to himself, and it is still CREATING.
MakersOwn ==
    \A h \in Handlers :
      At(h, "create", "making") =>
        /\ request[h].f \in Filesets
        /\ row[request[h].f].state = "creating"
        /\ \A g \in Handlers :
             At(g, "create", "making") /\ request[g].f = request[h].f => g = h

\* A request read or admitted for resizing, and a warm for a fileset it found,
\* name a row.
RowsNamed ==
    \A h \in Handlers : request[h].op = "resize" => request[h].f \in Filesets

\* The inductive invariant behind CountWithinLimit and AdmittedNameIsFree.
Inv ==
    /\ TypeOK /\ LocksHeld /\ RoomLeft /\ MakersOwn /\ RowsNamed
    /\ CountWithinLimit

\* Nothing more is reserved than before, whoever's and whatever its name.
Shrinks ==
    /\ \A u \in Users : OwnedBy(u)' \subseteq OwnedBy(u)
    /\ \A u \in Users, s \in Storages, n \in Names : Named(u, s, n)' \subseteq Named(u, s, n)

-----------------------------------------------------------------------------

\* A request that rests is a request.
LEMMA RestingType ==
    /\ Resting \in Request
    /\ Resting.op = "none" /\ Resting.at = "idle" /\ Resting.f = NoFileset
<1>1. /\ (CHOOSE u \in Users : TRUE) \in Users
      /\ (CHOOSE s \in Storages : TRUE) \in Storages
      /\ (CHOOSE n \in Names : TRUE) \in Names
  BY SomeAssumption DEF Names
<1> QED
  BY <1>1 DEF Resting, Request

\* The limits in force are numbers, whoever set them.
LEMMA LimitsAreNat ==
    ASSUME TypeOK, NEW u \in Users, NEW s \in Storages
    PROVE  LimitOn(u, s) \in Nat /\ TotalOf(u) \in Nat
<1>1. limit[u][s] \in Nat \cup {Unset} /\ limit[u][Everywhere] \in Nat \cup {Unset}
  BY DEF TypeOK, Scopes
<1> QED
  BY <1>1, LimitsAssumption DEF LimitOn, TotalOf

\* What a user owns is finite.
LEMMA OwnedIsFinite ==
    \A u : IsFiniteSet(OwnedBy(u)) /\ Cardinality(OwnedBy(u)) \in Nat
<1>1. \A u : OwnedBy(u) \subseteq Filesets
  BY DEF OwnedBy, Live
<1> QED
  BY <1>1, FiniteAssumption, FS_Subset, FS_CardinalityType

\* A part of what a user owns is no more than what a user owns.
LEMMA FewerOwned ==
    ASSUME NEW u, OwnedBy(u)' \subseteq OwnedBy(u)
    PROVE  /\ Cardinality(OwnedBy(u)') \in Nat
           /\ Cardinality(OwnedBy(u)') <= Cardinality(OwnedBy(u))
BY OwnedIsFinite, FS_Subset, FS_CardinalityType

\* A transaction that takes or frees locks of its own takes nobody else's away.
LEMMA OthersHoldOn ==
    ASSUME TypeOK, LocksHeld,
           NEW h \in Handlers, NEW g \in Handlers, g # h,
           lock' = lock \/ Unlock(h) \/ (\E u \in Users : Lock(h, u)),
           request'[g] = request[g], request[g].at = "admitted"
    PROVE  lock'[request'[g].user] = g
<1>1. lock[request[g].user] = g /\ request[g].user \in Users /\ g # Nobody
  BY NobodyAssumption DEF LocksHeld, TypeOK, Request
<1>2. CASE Unlock(h)
  BY <1>1, <1>2 DEF Unlock
<1>3. CASE \E u \in Users : Lock(h, u)
  BY <1>1, <1>3 DEF Lock, TypeOK
<1> QED
  BY <1>1, <1>2, <1>3

\* A handler that goes from r to a request that is neither admitted nor making
\* anything, with nothing more reserved, keeps the invariant.
LEMMA QuietStep ==
    ASSUME Inv, TypeOK', Shrinks,
           NEW h \in Handlers, NEW r \in Request,
           request' = [request EXCEPT ![h] = r],
           lock' = lock \/ Unlock(h) \/ (\E u \in Users : Lock(h, u)),
           r.at = "admitted" =>
             /\ lock'[r.user] = h
             /\ r.op = "create" => r.f = NoFileset
             /\ r.op \in {"create", "warm"} /\ r.f = NoFileset =>
                  /\ Cardinality(OwnedBy(r.user)) < MaxFilesets
                  /\ Named(r.user, r.storage, r.name) = {},
           ~(r.op = "create" /\ r.at = "making"),
           r.op = "resize" => r.f \in Filesets,
           \A g \in Handlers \ {h} :
             At(g, "create", "making") => row'[request[g].f].state = "creating"
    PROVE  Inv'
<1>1. request'[h] = r /\ \A g \in Handlers \ {h} : request'[g] = request[g]
  BY DEF Inv, TypeOK
<1>2. LocksHeld'
  <2> SUFFICES ASSUME NEW g \in Handlers, request'[g].at = "admitted"
               PROVE  /\ lock'[request'[g].user] = g
                      /\ request'[g].op = "create" => request'[g].f = NoFileset
    BY DEF LocksHeld
  <2>1. CASE g = h
    BY <1>1, <2>1
  <2>2. CASE g # h
    BY <1>1, <2>2, OthersHoldOn DEF Inv, LocksHeld
  <2> QED
    BY <2>1, <2>2
<1>3. RoomLeft'
  <2> SUFFICES ASSUME NEW g \in Handlers, Inserting(g)'
               PROVE  (/\ Cardinality(OwnedBy(request[g].user)) < MaxFilesets
                       /\ Named(request[g].user, request[g].storage, request[g].name) = {})'
    BY DEF RoomLeft
  <2>1. PICK q \in Request : q = request'[g]
    BY DEF TypeOK
  <2>2. /\ Cardinality(OwnedBy(q.user)) < MaxFilesets
        /\ Named(q.user, q.storage, q.name) = {}
    BY <1>1, <2>1 DEF Inserting, Inv, RoomLeft
  <2>3. /\ OwnedBy(q.user)' \subseteq OwnedBy(q.user)
        /\ Named(q.user, q.storage, q.name)' \subseteq Named(q.user, q.storage, q.name)
    BY DEF Shrinks, Request
  <2>4. Cardinality(OwnedBy(q.user)') < MaxFilesets /\ Named(q.user, q.storage, q.name)' = {}
    BY <2>2, <2>3, FewerOwned, OwnedIsFinite, LimitsAssumption
  <2> QED
    BY <2>1, <2>4 DEF OwnedBy, OnStorage, Live, Named
<1>4. MakersOwn'
  BY <1>1 DEF Inv, MakersOwn, At
<1>5. RowsNamed'
  BY <1>1 DEF Inv, RowsNamed
<1>6. CountWithinLimit'
  <2> SUFFICES ASSUME NEW u \in Users PROVE Cardinality(OwnedBy(u)') <= MaxFilesets
    BY DEF CountWithinLimit
  <2> QED
    BY FewerOwned, OwnedIsFinite, LimitsAssumption DEF Shrinks, Inv, CountWithinLimit
<1> QED
  BY <1>2, <1>3, <1>4, <1>5, <1>6 DEF Inv

\* A request that inserts its row keeps the invariant: it holds the lock, so the
\* room it found is its own, and nobody else is inserting for the same user.
LEMMA InsertStep ==
    ASSUME Inv, NEW h \in Handlers, NEW f \in Filesets, NEW r \in Request,
           NEW state \in {"creating", "held"}, NEW kind \in {"cached", "output"},
           Inserting(h), Insert(h, f, state, kind), Unlock(h),
           request' = [request EXCEPT ![h] = r], limit' = limit,
           r.at # "admitted", r.op = "resize" => r.f \in Filesets,
           r.op = "create" /\ r.at = "making" => r.f = f /\ state = "creating"
    PROVE  Inv'
<1>0. PICK u \in Users : u = request[h].user
  BY DEF Inv, TypeOK, Request
<1>1. request'[h] = r /\ \A g \in Handlers \ {h} : request'[g] = request[g]
  BY DEF Inv, TypeOK
<1>2. request[h] \in Request
  BY DEF Inv, TypeOK
<1>3. DEFINE new == [state |-> state, kind |-> kind, user |-> u,
                     storage |-> request[h].storage, name |-> request[h].name,
                     allocated |-> request[h].size]
<1>4. /\ new \in Row /\ row' = [row EXCEPT ![f] = new]
      /\ new.user = u /\ row[f].state = "none"
  BY <1>0, <1>2 DEF Insert, Row, Request
<1>5. TypeOK'
  <2>1. row' \in [Filesets -> Row]
    BY <1>4 DEF Inv, TypeOK
  <2>2. lock' \in [Users -> Handlers \cup {Nobody}]
    BY DEF Unlock, Inv, TypeOK
  <2> QED
    BY <2>1, <2>2 DEF Inv, TypeOK
<1>6. \A v \in Users \ {u} : OwnedBy(v)' = OwnedBy(v)
  <2> HIDE DEF new
  <2> QED
    BY <1>4 DEF OwnedBy, Live, Inv, TypeOK
<1>7. OwnedBy(u)' \subseteq OwnedBy(u) \cup {f}
  <2> HIDE DEF new
  <2> QED
    BY <1>4 DEF OwnedBy, Live, Inv, TypeOK
<1>8. LocksHeld'
  <2> SUFFICES ASSUME NEW g \in Handlers, request'[g].at = "admitted"
               PROVE  /\ lock'[request'[g].user] = g
                      /\ request'[g].op = "create" => request'[g].f = NoFileset
    BY DEF LocksHeld
  <2>1. g # h
    BY <1>1
  <2> QED
    BY <1>1, <2>1, OthersHoldOn DEF Inv, LocksHeld
<1>9. RoomLeft'
  <2> SUFFICES ASSUME NEW g \in Handlers, Inserting(g)'
               PROVE  (/\ Cardinality(OwnedBy(request[g].user)) < MaxFilesets
                       /\ Named(request[g].user, request[g].storage, request[g].name) = {})'
    BY DEF RoomLeft
  <2>1. g # h /\ request'[g] = request[g] /\ Inserting(g)
    BY <1>1 DEF Inserting
  <2>2. PICK q \in Request : q = request[g]
    BY DEF Inv, TypeOK
  <2>3. q.user # u
    BY <1>0, <2>1, <2>2 DEF Inserting, Inv, LocksHeld
  <2>4. OwnedBy(q.user)' = OwnedBy(q.user) /\ q.user \in Users
    BY <1>6, <2>2, <2>3 DEF Request
  <2>5. /\ Cardinality(OwnedBy(q.user)) < MaxFilesets
        /\ Named(q.user, q.storage, q.name) = {}
    BY <2>1, <2>2 DEF Inv, RoomLeft
  <2>6. Named(q.user, q.storage, q.name)' \subseteq Named(q.user, q.storage, q.name)
    <3> HIDE DEF new
    <3> QED
      BY <1>4, <2>3, <2>4 DEF Named, OwnedBy, OnStorage, Live, Inv, TypeOK
  <2>7. Cardinality(OwnedBy(q.user)') < MaxFilesets /\ Named(q.user, q.storage, q.name)' = {}
    BY <2>4, <2>5, <2>6
  <2> QED
    BY <2>1, <2>2, <2>7 DEF OwnedBy, OnStorage, Live, Named
<1>10. MakersOwn'
  <2>1. \A g \in Handlers \ {h} :
          At(g, "create", "making") =>
            /\ request[g].f \in Filesets /\ request[g].f # f
            /\ row'[request[g].f].state = "creating"
    <3> HIDE DEF new
    <3> QED
      BY <1>4 DEF Inv, TypeOK, MakersOwn
  <2>2. r.op = "create" /\ r.at = "making" => r.f = f /\ row'[f].state = "creating"
    BY <1>4 DEF Inv, TypeOK
  <2> QED
    BY <1>1, <2>1, <2>2 DEF Inv, MakersOwn, At
<1>11. RowsNamed'
  BY <1>1 DEF Inv, RowsNamed
<1>12. CountWithinLimit'
  <2> SUFFICES ASSUME NEW v \in Users PROVE Cardinality(OwnedBy(v)') <= MaxFilesets
    BY DEF CountWithinLimit
  <2>1. CASE v = u
    <3>1. Cardinality(OwnedBy(u)) < MaxFilesets
      BY <1>0 DEF Inv, RoomLeft
    <3>2. /\ IsFiniteSet(OwnedBy(u) \cup {f})
          /\ \/ Cardinality(OwnedBy(u) \cup {f}) = Cardinality(OwnedBy(u))
             \/ Cardinality(OwnedBy(u) \cup {f}) = Cardinality(OwnedBy(u)) + 1
      BY OwnedIsFinite, FS_AddElement, Zenon
    <3>3. /\ Cardinality(OwnedBy(u)') \in Nat
          /\ Cardinality(OwnedBy(u) \cup {f}) \in Nat
          /\ Cardinality(OwnedBy(u)') <= Cardinality(OwnedBy(u) \cup {f})
      BY <1>7, <3>2, FS_Subset, FS_CardinalityType
    <3>4. Cardinality(OwnedBy(u)) \in Nat
      BY OwnedIsFinite
    <3> QED
      BY <2>1, <3>1, <3>2, <3>3, <3>4, LimitsAssumption
  <2>2. CASE v # u
    BY <1>6, <2>2 DEF Inv, CountWithinLimit
  <2> QED
    BY <2>1, <2>2
<1> QED
  BY <1>5, <1>8, <1>9, <1>10, <1>11, <1>12 DEF Inv

\* Rows that keep their state, their owner and their name reserve nothing more.
LEMMA SameRowsShrink == row' = row => Shrinks
BY DEF Shrinks, OwnedBy, OnStorage, Live, Named

\* Writing another size into a row reserves it for nobody new.
LEMMA ResizedShrinks ==
    ASSUME TypeOK, NEW f \in Filesets, NEW size \in Nat,
           row' = [row EXCEPT ![f].allocated = size]
    PROVE  /\ Shrinks /\ row' \in [Filesets -> Row]
           /\ \A g \in Filesets : row'[g].state = row[g].state
<1>1. row' \in [Filesets -> Row]
  BY DEF TypeOK, Row
<1>2. \A g \in Filesets : /\ row'[g].state = row[g].state
                         /\ row'[g].user = row[g].user
                         /\ row'[g].storage = row[g].storage
                         /\ row'[g].name = row[g].name
  BY DEF TypeOK, Row
<1> QED
  BY <1>1, <1>2 DEF Shrinks, OwnedBy, OnStorage, Live, Named

\* A live row that moves to another state reserves nothing more.
LEMMA MovedShrinks ==
    ASSUME TypeOK, NEW f \in Filesets, NEW state \in {"none", "held", "released"},
           row[f].state \in {"creating", "held"},
           row' = [row EXCEPT ![f].state = state]
    PROVE  Shrinks /\ row' \in [Filesets -> Row]
<1>1. row' \in [Filesets -> Row]
  BY DEF TypeOK, Row
<1>2. \A g \in Filesets : /\ g # f => row'[g].state = row[g].state
                         /\ row'[g].user = row[g].user
                         /\ row'[g].storage = row[g].storage
                         /\ row'[g].name = row[g].name
  BY DEF TypeOK, Row
<1> QED
  BY <1>1, <1>2 DEF Shrinks, OwnedBy, OnStorage, Live, Named

\* A step that ends a request keeps the invariant if it reserves nothing more.
LEMMA EndStep ==
    ASSUME Inv, NEW h \in Handlers, Done(h), Shrinks, row' \in [Filesets -> Row],
           lock' = lock \/ Unlock(h), limit' = limit,
           \A g \in Handlers \ {h} :
             At(g, "create", "making") => row'[request[g].f].state = "creating"
    PROVE  Inv'
<1>1. request' = [request EXCEPT ![h] = Resting]
  BY DEF Done
<1>2. TypeOK'
  <2>1. lock' \in [Users -> Handlers \cup {Nobody}]
    BY DEF Unlock, Inv, TypeOK
  <2>2. request' \in [Handlers -> Request]
    BY <1>1, RestingType DEF Inv, TypeOK
  <2> QED
    BY <2>1, <2>2 DEF Inv, TypeOK
<1> QED
  BY <1>1, <1>2, RestingType, QuietStep

-----------------------------------------------------------------------------

\* The invariant holds at first: nothing is reserved.
LEMMA InitInv == Init => Inv
<1> SUFFICES ASSUME Init PROVE Inv
  OBVIOUS
<1>1. TypeOK
  BY RestingType DEF Init, TypeOK, Row, Request
<1>2. \A h \in Handlers : request[h].op = "none" /\ request[h].at = "idle"
  BY RestingType DEF Init
<1>3. \A u \in Users : OwnedBy(u) = {}
  BY DEF Init, OwnedBy, Live
<1> QED
  BY <1>1, <1>2, <1>3, FS_EmptySet, LimitsAssumption
     DEF Inv, LocksHeld, RoomLeft, Inserting, MakersOwn, At, RowsNamed, CountWithinLimit

\* Creating an output fileset keeps the invariant.
LEMMA CreateKeeps ==
    ASSUME Inv, NEW h \in Handlers,
           \/ \E u \in Users, s \in Storages, n \in OutputNames, size \in Sizes :
                CreateAdmit(h, u, s, n, size)
           \/ \E f \in Filesets : CreateReserve(h, f)
           \/ CreateMade(h) \/ CreateFails(h)
    PROVE  Inv'
<1>1. ASSUME NEW u \in Users, NEW s \in Storages, NEW n \in OutputNames,
             NEW size \in Sizes, CreateAdmit(h, u, s, n, size)
      PROVE  Inv'
  <2> DEFINE r == [Resting EXCEPT !.op = "create", !.at = "admitted", !.user = u,
                                  !.storage = s, !.name = n, !.size = size,
                                  !.own = LimitOn(u, s), !.total = TotalOf(u)]
  <2>1. r \in Request
    <3>1. LimitOn(u, s) \in Nat /\ TotalOf(u) \in Nat
      BY LimitsAreNat DEF Inv
    <3> QED
      BY <3>1, RestingType, SizesAssumption DEF Request, Names
  <2>2. /\ r.op = "create" /\ r.at = "admitted" /\ r.f = NoFileset
        /\ r.user = u /\ r.storage = s /\ r.name = n
    BY RestingType DEF Request
  <2>3. request' = [request EXCEPT ![h] = r] /\ Lock(h, u) /\ row' = row
    BY <1>1 DEF CreateAdmit
  <2> HIDE DEF r
  <2>4. TypeOK'
    BY <1>1, <2>1, <2>3 DEF CreateAdmit, Lock, Inv, TypeOK
  <2>5. lock'[u] = h
    BY <2>3 DEF Lock, Inv, TypeOK
  <2>6. Cardinality(OwnedBy(u)) < MaxFilesets /\ Named(u, s, n) = {}
    BY <1>1 DEF CreateAdmit, Admits
  <2>7. \A g \in Handlers \ {h} :
          At(g, "create", "making") => row'[request[g].f].state = "creating"
    BY <2>3 DEF Inv, MakersOwn
  <2> QED
    BY <2>1, <2>2, <2>3, <2>4, <2>5, <2>6, <2>7, SameRowsShrink, QuietStep
<1>2. ASSUME NEW f \in Filesets, CreateReserve(h, f) PROVE Inv'
  <2> DEFINE r == [request[h] EXCEPT !.at = "making", !.f = f, !.own = 0, !.total = 0]
  <2>1. request[h] \in Request /\ Inserting(h)
    BY <1>2 DEF CreateReserve, At, Inserting, Inv, LocksHeld, TypeOK
  <2>2. r \in Request /\ r.at = "making" /\ r.f = f
    BY <2>1 DEF Request
  <2>3. request' = [request EXCEPT ![h] = r]
    BY <1>2 DEF CreateReserve
  <2> HIDE DEF r
  <2> QED
    BY <1>2, <2>1, <2>2, <2>3, InsertStep DEF CreateReserve
<1>3. ASSUME NEW state \in {"none", "held"}, At(h, "create", "making"), Done(h),
             row' = [row EXCEPT ![request[h].f].state = state],
             UNCHANGED <<lock, limit>>
      PROVE  Inv'
  <2>1. PICK f \in Filesets : f = request[h].f /\ row[f].state = "creating"
    BY <1>3 DEF Inv, MakersOwn
  <2>2. Shrinks /\ row' \in [Filesets -> Row]
    BY <1>3, <2>1, MovedShrinks DEF Inv
  <2>3. \A g \in Handlers \ {h} :
          At(g, "create", "making") => row'[request[g].f].state = "creating"
    BY <1>3, <2>1 DEF Inv, MakersOwn, TypeOK
  <2> QED
    BY <1>3, <2>2, <2>3, EndStep
<1> QED
  BY <1>1, <1>2, <1>3 DEF CreateMade, CreateFails

\* Warming keeps the invariant, whether it finds a fileset or makes one.
LEMMA WarmKeeps ==
    ASSUME Inv, NEW h \in Handlers,
           \/ \E u \in Users, s \in Storages, n \in CachedNames, size \in Sizes :
                WarmAdmit(h, u, s, n, size)
           \/ \E f \in Filesets : WarmReserve(h, f)
    PROVE  Inv'
<1>1. ASSUME NEW u \in Users, NEW s \in Storages, NEW n \in CachedNames,
             NEW size \in Sizes, WarmAdmit(h, u, s, n, size)
      PROVE  Inv'
  <2>1. PICK f \in IF Named(u, s, n) = {} THEN {NoFileset} ELSE Named(u, s, n) :
          /\ Lock(h, u)
          /\ size > (IF f = NoFileset THEN 0 ELSE row[f].allocated) =>
               Admits(u, s, size - (IF f = NoFileset THEN 0 ELSE row[f].allocated))
          /\ request' = [request EXCEPT ![h] =
                           [Resting EXCEPT !.op = "warm", !.at = "admitted", !.user = u,
                                           !.storage = s, !.name = n, !.size = size,
                                           !.f = f,
                                           !.seen = IF f = NoFileset THEN 0
                                                    ELSE row[f].allocated,
                                           !.own = LimitOn(u, s), !.total = TotalOf(u)]]
          /\ row' = row /\ limit' = limit
    BY <1>1 DEF WarmAdmit
  <2> DEFINE already == IF f = NoFileset THEN 0 ELSE row[f].allocated
             r == [Resting EXCEPT !.op = "warm", !.at = "admitted", !.user = u,
                                  !.storage = s, !.name = n, !.size = size,
                                  !.f = f, !.seen = already,
                                  !.own = LimitOn(u, s), !.total = TotalOf(u)]
  <2>2. f \in Filesets \cup {NoFileset} /\ already \in Nat
    BY DEF Named, OwnedBy, Live, Inv, TypeOK, Row
  <2>3. request' = [request EXCEPT ![h] = r]
    BY <2>1
  <2>4. r \in Request
    <3> HIDE DEF already
    <3>1. LimitOn(u, s) \in Nat /\ TotalOf(u) \in Nat
      BY LimitsAreNat DEF Inv
    <3> QED
      BY <2>2, <3>1, RestingType, SizesAssumption DEF Request, Names
  <2>5. /\ r.op = "warm" /\ r.at = "admitted" /\ r.f = f
        /\ r.user = u /\ r.storage = s /\ r.name = n
    BY RestingType DEF Request
  <2>6. f = NoFileset => /\ Named(u, s, n) = {}
                         /\ Cardinality(OwnedBy(u)) < MaxFilesets
    <3>1. f = NoFileset => Named(u, s, n) = {}
      BY <2>1, NoFilesetAssumption DEF Named, OwnedBy, Live
    <3>2. f = NoFileset => Admits(u, s, size - 0)
      BY <2>1, SizesAssumption
    <3> QED
      BY <3>1, <3>2 DEF Admits
  <2> HIDE DEF r
  <2>7. TypeOK'
    BY <2>1, <2>3, <2>4 DEF Lock, Inv, TypeOK
  <2>8. lock'[u] = h
    BY <2>1 DEF Lock, Inv, TypeOK
  <2>9. \A g \in Handlers \ {h} :
          At(g, "create", "making") => row'[request[g].f].state = "creating"
    BY <2>1 DEF Inv, MakersOwn
  <2> QED
    BY <2>1, <2>3, <2>4, <2>5, <2>6, <2>7, <2>8, <2>9, SameRowsShrink, QuietStep
<1>2. ASSUME NEW f \in Filesets, WarmReserve(h, f) PROVE Inv'
  <2>1. CASE request[h].f = NoFileset /\ Insert(h, f, "held", "cached")
    <3>1. Inserting(h)
      BY <1>2, <2>1 DEF WarmReserve, At, Inserting
    <3>2. request' = [request EXCEPT ![h] = Resting]
      BY <1>2 DEF WarmReserve, Done
    <3> QED
      BY <1>2, <2>1, <3>1, <3>2, RestingType, InsertStep DEF WarmReserve
  <2>2. CASE /\ request[h].f = f
             /\ row' = IF request[h].size > request[h].seen
                       THEN [row EXCEPT ![f].allocated = request[h].size] ELSE row
    <3>1. request[h].size \in Nat
      BY DEF Inv, TypeOK, Request
    <3>2. /\ Shrinks /\ row' \in [Filesets -> Row]
          /\ \A g \in Filesets : row'[g].state = row[g].state
      BY <2>2, <3>1, ResizedShrinks, SameRowsShrink DEF Inv, TypeOK
    <3>3. \A g \in Handlers \ {h} :
            At(g, "create", "making") => row'[request[g].f].state = "creating"
      BY <3>2 DEF Inv, MakersOwn
    <3> QED
      BY <1>2, <3>2, <3>3, EndStep DEF WarmReserve
  <2> QED
    BY <1>2, <2>1, <2>2 DEF WarmReserve
<1> QED
  BY <1>1, <1>2

\* Resizing keeps the invariant, however old the row it read.
LEMMA ResizeKeeps ==
    ASSUME Inv, NEW h \in Handlers,
           \/ \E f \in Filesets : ResizeRead(h, f)
           \/ \E size \in Sizes : ResizeAdmit(h, size)
           \/ ResizeCommit(h) \/ ResizeFails(h)
    PROVE  Inv'
<1>0. \A g \in Handlers \ {h} :
        At(g, "create", "making") => row[request[g].f].state = "creating"
  BY DEF Inv, MakersOwn
<1>1. ASSUME NEW f \in Filesets, ResizeRead(h, f) PROVE Inv'
  <2> DEFINE r == [Resting EXCEPT !.op = "resize", !.at = "read", !.f = f,
                                  !.user = row[f].user, !.storage = row[f].storage,
                                  !.seen = row[f].allocated]
  <2>1. row[f] \in Row
    BY DEF Inv, TypeOK
  <2>2. r \in Request
    BY <2>1, RestingType DEF Request, Row
  <2>3. r.op = "resize" /\ r.at = "read" /\ r.f = f
    BY RestingType DEF Request
  <2>4. request' = [request EXCEPT ![h] = r]
    BY <1>1 DEF ResizeRead
  <2> HIDE DEF r
  <2>5. TypeOK'
    BY <1>1, <2>2, <2>4 DEF ResizeRead, Inv, TypeOK
  <2>6. row' = row /\ lock' = lock
    BY <1>1 DEF ResizeRead
  <2>7. \A g \in Handlers \ {h} :
          At(g, "create", "making") => row'[request[g].f].state = "creating"
    BY <1>0, <2>6
  <2> QED
    BY <2>2, <2>3, <2>4, <2>5, <2>6, <2>7, SameRowsShrink, QuietStep
<1>2. ASSUME NEW size \in Sizes, ResizeAdmit(h, size) PROVE Inv'
  <2> DEFINE own == LimitOn(request[h].user, request[h].storage)
             total == TotalOf(request[h].user)
             r == [request[h] EXCEPT !.at = "admitted", !.size = size, !.own = own,
                                     !.total = total]
  <2>1. request[h] \in Request /\ request[h].op = "resize"
    BY <1>2 DEF ResizeAdmit, At, Inv, TypeOK
  <2>2. r \in Request
    <3>1. own \in Nat /\ total \in Nat
      BY <2>1, LimitsAreNat DEF Inv, Request
    <3> HIDE DEF own, total
    <3> QED
      BY <2>1, <3>1, SizesAssumption DEF Request
  <2>3. r.op = "resize" /\ r.f = request[h].f /\ r.user = request[h].user
    BY <2>1 DEF Request
  <2>4. request' = [request EXCEPT ![h] = r] /\ Lock(h, request[h].user)
    BY <1>2 DEF ResizeAdmit
  <2> HIDE DEF r
  <2>5. request[h].user \in Users /\ r.f \in Filesets
    BY <2>1, <2>3 DEF Request, Inv, RowsNamed
  <2>6. row' = row /\ limit' = limit
    BY <1>2 DEF ResizeAdmit
  <2>7. TypeOK'
    BY <2>2, <2>4, <2>6 DEF Lock, Inv, TypeOK
  <2>8. lock'[r.user] = h
    BY <2>3, <2>4, <2>5 DEF Lock, Inv, TypeOK
  <2>9. \A g \in Handlers \ {h} :
          At(g, "create", "making") => row'[request[g].f].state = "creating"
    BY <1>0, <2>6
  <2> QED
    BY <2>2, <2>3, <2>4, <2>5, <2>6, <2>7, <2>8, <2>9, SameRowsShrink, QuietStep
<1>3. ASSUME ResizeCommit(h) PROVE Inv'
  <2>1. request[h].f \in Filesets /\ request[h].size \in Nat
    BY <1>3 DEF ResizeCommit, At, Inv, RowsNamed, TypeOK, Request
  <2>2. \/ row' = row
        \/ row' = [row EXCEPT ![request[h].f].allocated = request[h].size]
    BY <1>3 DEF ResizeCommit
  <2>3. /\ Shrinks /\ row' \in [Filesets -> Row]
        /\ \A g \in Filesets : row'[g].state = row[g].state
    BY <2>1, <2>2, ResizedShrinks, SameRowsShrink DEF Inv, TypeOK
  <2>4. \A g \in Handlers \ {h} :
          At(g, "create", "making") => row'[request[g].f].state = "creating"
    BY <1>0, <2>3 DEF Inv, MakersOwn
  <2> QED
    BY <1>3, <2>3, <2>4, EndStep DEF ResizeCommit
<1>4. ASSUME ResizeFails(h) PROVE Inv'
  <2>1. row' = row /\ row' \in [Filesets -> Row]
    BY <1>4 DEF ResizeFails, Inv, TypeOK
  <2> QED
    BY <1>0, <1>4, <2>1, SameRowsShrink, EndStep DEF ResizeFails
<1> QED
  BY <1>1, <1>2, <1>3, <1>4

\* A release takes no lock, and takes nothing from whoever holds one.
LEMMA ReleaseKeeps ==
    ASSUME Inv, NEW f \in Filesets, Release(f) PROVE Inv'
<1>1. Shrinks /\ row' \in [Filesets -> Row]
  BY MovedShrinks DEF Release, Inv
<1>2. TypeOK' /\ LocksHeld' /\ RowsNamed'
  BY <1>1 DEF Release, Inv, TypeOK, LocksHeld, RowsNamed
<1>3. MakersOwn'
  BY DEF Release, Inv, TypeOK, MakersOwn, At
<1>4. RoomLeft'
  <2> SUFFICES ASSUME NEW g \in Handlers, Inserting(g)'
               PROVE  (/\ Cardinality(OwnedBy(request[g].user)) < MaxFilesets
                       /\ Named(request[g].user, request[g].storage, request[g].name) = {})'
    BY DEF RoomLeft
  <2>1. PICK q \in Request : q = request[g] /\ q = request'[g]
    BY DEF Release, Inv, TypeOK
  <2>2. /\ Cardinality(OwnedBy(q.user)) < MaxFilesets
        /\ Named(q.user, q.storage, q.name) = {}
    BY <2>1 DEF Inserting, Inv, RoomLeft
  <2>3. /\ OwnedBy(q.user)' \subseteq OwnedBy(q.user)
        /\ Named(q.user, q.storage, q.name)' \subseteq Named(q.user, q.storage, q.name)
    BY <1>1 DEF Shrinks, Request
  <2>4. Cardinality(OwnedBy(q.user)') < MaxFilesets /\ Named(q.user, q.storage, q.name)' = {}
    BY <2>2, <2>3, FewerOwned, OwnedIsFinite, LimitsAssumption
  <2> QED
    BY <2>1, <2>4 DEF OwnedBy, OnStorage, Live, Named
<1>5. CountWithinLimit'
  <2> SUFFICES ASSUME NEW u \in Users PROVE Cardinality(OwnedBy(u)') <= MaxFilesets
    BY DEF CountWithinLimit
  <2> QED
    BY <1>1, FewerOwned, OwnedIsFinite, LimitsAssumption DEF Shrinks, Inv, CountWithinLimit
<1> QED
  BY <1>2, <1>3, <1>4, <1>5 DEF Inv

\* A limit an admin changes changes nothing that is reserved or decided.
LEMMA ChangeKeeps ==
    ASSUME Inv, NEW u \in Users, SetLimit(u) \/ ClearLimit(u)
    PROVE  Inv'
<1>1. /\ UNCHANGED <<row, lock, request>>
      /\ \E k \in Scopes, value \in Nat \cup {Unset} :
           limit' = [limit EXCEPT ![u][k] = value]
  BY SettableAssumption DEF SetLimit, ClearLimit, ChangeLimit, Scopes
<1>2. TypeOK'
  BY <1>1 DEF Inv, TypeOK
<1>3. LocksHeld' /\ MakersOwn' /\ RowsNamed'
  BY <1>1 DEF Inv, LocksHeld, MakersOwn, At, RowsNamed
<1>4. RoomLeft' /\ CountWithinLimit'
  BY <1>1 DEF Inv, RoomLeft, Inserting, CountWithinLimit, OwnedBy, OnStorage, Live, Named
<1> QED
  BY <1>2, <1>3, <1>4 DEF Inv

\* A crash ends every request; what is reserved stays reserved.
LEMMA CrashKeeps == ASSUME Inv, Crash PROVE Inv'
<1>1. TypeOK'
  BY RestingType DEF Crash, Inv, TypeOK
<1>2. \A h \in Handlers : request'[h].op = "none" /\ request'[h].at = "idle"
  BY RestingType DEF Crash
<1>3. CountWithinLimit'
  BY DEF Crash, Inv, CountWithinLimit, OwnedBy, Live
<1> QED
  BY <1>1, <1>2, <1>3
     DEF Inv, LocksHeld, RoomLeft, Inserting, MakersOwn, At, RowsNamed

-----------------------------------------------------------------------------

\* The invariant holds throughout, in every instance.
THEOREM Invariant == Spec => []Inv
<1>1. Inv /\ [Next]_vars => Inv'
  <2> SUFFICES ASSUME Inv, [Next]_vars PROVE Inv'
    OBVIOUS
  <2>1. CASE UNCHANGED vars
    <3>1. TypeOK' /\ LocksHeld' /\ MakersOwn' /\ RowsNamed'
      BY <2>1 DEF vars, Inv, TypeOK, LocksHeld, MakersOwn, At, RowsNamed
    <3>2. RoomLeft' = RoomLeft /\ CountWithinLimit' = CountWithinLimit
      BY <2>1 DEF vars, RoomLeft, Inserting, CountWithinLimit, OwnedBy, OnStorage, Live,
                  Named
    <3> QED
      BY <3>1, <3>2 DEF Inv
  <2>2. ASSUME NEW h \in Handlers, Step(h) PROVE Inv'
    BY <2>2, CreateKeeps, WarmKeeps, ResizeKeeps DEF Step
  <2> QED
    BY <2>1, <2>2, ReleaseKeeps, ChangeKeeps, CrashKeeps DEF Next
<1> QED
  BY <1>1, InitInv, PTL DEF Spec

\* Type correctness, for every set of users, storages, filesets and requests.
THEOREM TypeCorrect == Spec => []TypeOK
BY Invariant, PTL DEF Inv

\* No interleaving of requests, releases and crashes gives a user more filesets than
\* the limit: the count is taken and the row inserted under one lock.
THEOREM CountLimit == Spec => []CountWithinLimit
BY Invariant, PTL DEF Inv

\* No request is admitted under a name that the unique index then refuses.
THEOREM NameStaysFree == Spec => []AdmittedNameIsFree
<1>1. Inv => AdmittedNameIsFree
  BY DEF Inv, RoomLeft, Inserting, AdmittedNameIsFree
<1> QED
  BY <1>1, Invariant, PTL

-----------------------------------------------------------------------------

\* A handler that was making nothing takes no maker away.
LEMMA MakersStay ==
    ASSUME TypeOK, NothingStaysReserved, NEW h \in Handlers, ~At(h, "create", "making"),
           \A g \in Handlers \ {h} : request'[g] = request[g],
           \A f \in Filesets :
             row'[f].state = "creating" =>
               row[f].state = "creating" /\ row'[f].kind = row[f].kind
    PROVE  NothingStaysReserved'
BY DEF NothingStaysReserved, At

\* A step of one request leaves the others as they are.
LEMMA StepIsOwn ==
    ASSUME TypeOK, NEW h \in Handlers, Step(h)
    PROVE  \A g \in Handlers \ {h} : request'[g] = request[g]
<1>1. ASSUME Done(h) PROVE \A g \in Handlers \ {h} : request'[g] = request[g]
  BY <1>1 DEF Done, TypeOK
<1>2. ASSUME NEW u \in Users, NEW s \in Storages, NEW n \in Names, NEW size \in Sizes,
             CreateAdmit(h, u, s, n, size) \/ WarmAdmit(h, u, s, n, size)
      PROVE  \A g \in Handlers \ {h} : request'[g] = request[g]
  <2>1. CASE CreateAdmit(h, u, s, n, size)
    BY <2>1 DEF CreateAdmit, TypeOK
  <2>2. CASE WarmAdmit(h, u, s, n, size)
    <3>1. PICK r : request' = [request EXCEPT ![h] = r]
      BY <2>2 DEF WarmAdmit
    <3> QED
      BY <3>1 DEF TypeOK
  <2> QED
    BY <1>2, <2>1, <2>2
<1>3. ASSUME NEW f \in Filesets, CreateReserve(h, f) \/ ResizeRead(h, f)
      PROVE  \A g \in Handlers \ {h} : request'[g] = request[g]
  BY <1>3 DEF CreateReserve, ResizeRead, TypeOK
<1>4. ASSUME NEW size \in Sizes, ResizeAdmit(h, size)
      PROVE  \A g \in Handlers \ {h} : request'[g] = request[g]
  BY <1>4 DEF ResizeAdmit, TypeOK
<1>5. ASSUME \/ \E f \in Filesets : WarmReserve(h, f)
             \/ CreateMade(h) \/ CreateFails(h) \/ ResizeCommit(h) \/ ResizeFails(h)
      PROVE  Done(h)
  BY <1>5 DEF WarmReserve, CreateMade, CreateFails, ResizeCommit, ResizeFails
<1> QED
  BY <1>1, <1>2, <1>3, <1>4, <1>5 DEF Step, Names

\* While the controller stays up, whoever gives up making a fileset deletes its row.
LEMMA MakersFinish ==
    ASSUME "crash" \notin Ops, Inv, NothingStaysReserved, Next
    PROVE  NothingStaysReserved'
<1> USE DEF Inv
<1>1. ASSUME NEW h \in Handlers, Step(h) PROVE NothingStaysReserved'
  <2>1. \A g \in Handlers \ {h} : request'[g] = request[g]
    BY <1>1, StepIsOwn
  <2>2. ASSUME row' = row, ~At(h, "create", "making") PROVE NothingStaysReserved'
    BY <2>1, <2>2, MakersStay
  <2>3. ASSUME NEW f \in Filesets, CreateReserve(h, f) PROVE NothingStaysReserved'
    <3>1. /\ At(h, "create", "making")' /\ request'[h].f = f
          /\ ~At(h, "create", "making")
      BY <2>3 DEF CreateReserve, At, TypeOK, Request
    <3>2. \A g \in Filesets \ {f} : row'[g] = row[g]
      BY <2>3 DEF CreateReserve, Insert, TypeOK
    <3> QED
      BY <2>1, <3>1, <3>2 DEF NothingStaysReserved, At
  <2>4. ASSUME NEW state \in {"none", "held"}, At(h, "create", "making"),
               row' = [row EXCEPT ![request[h].f].state = state]
        PROVE  NothingStaysReserved'
    <3>1. request[h].f \in Filesets
      BY <2>4 DEF MakersOwn
    <3>2. /\ row'[request[h].f].state = state
          /\ \A g \in Filesets : g # request[h].f => row'[g] = row[g]
      BY <2>4, <3>1 DEF TypeOK, Row
    <3> QED
      BY <2>1, <3>1, <3>2 DEF NothingStaysReserved, At
  <2>5. ASSUME NEW f \in Filesets, WarmReserve(h, f) PROVE NothingStaysReserved'
    <3>1. ~At(h, "create", "making")
      BY <2>5 DEF WarmReserve, At
    <3>2. \A g \in Filesets :
            row'[g].state = "creating" =>
              row[g].state = "creating" /\ row'[g].kind = row[g].kind
      BY <2>5 DEF WarmReserve, Insert, TypeOK, Row
    <3> QED
      BY <2>1, <3>1, <3>2, MakersStay
  <2>6. ASSUME ResizeCommit(h) PROVE NothingStaysReserved'
    <3>1. ~At(h, "create", "making")
      BY <2>6 DEF ResizeCommit, At
    <3>2. \A g \in Filesets :
            row'[g].state = "creating" =>
              row[g].state = "creating" /\ row'[g].kind = row[g].kind
      BY <2>6 DEF ResizeCommit, TypeOK, Row
    <3> QED
      BY <2>1, <3>1, <3>2, MakersStay
  <2>7. ASSUME Free(h) PROVE ~At(h, "create", "making")
    BY <2>7, RestingType DEF Free, At
  <2>8. ASSUME NEW u, NEW s, NEW n, NEW size,
               CreateAdmit(h, u, s, n, size) \/ WarmAdmit(h, u, s, n, size)
        PROVE  NothingStaysReserved'
    <3>1. row' = row /\ Free(h)
      BY <2>8 DEF CreateAdmit, WarmAdmit
    <3> QED
      BY <3>1, <2>2, <2>7
  <2>9. ASSUME NEW f \in Filesets, ResizeRead(h, f) PROVE NothingStaysReserved'
    BY <2>2, <2>7, <2>9 DEF ResizeRead
  <2>10. ASSUME NEW size, ResizeAdmit(h, size) PROVE NothingStaysReserved'
    BY <2>2, <2>10 DEF ResizeAdmit, At
  <2>11. ASSUME ResizeFails(h) PROVE NothingStaysReserved'
    BY <2>2, <2>11 DEF ResizeFails, At
  <2>12. ASSUME CreateMade(h) \/ CreateFails(h) PROVE NothingStaysReserved'
    BY <2>4, <2>12 DEF CreateMade, CreateFails
  <2> QED
    BY <1>1, <2>3, <2>5, <2>6, <2>8, <2>9, <2>10, <2>11, <2>12 DEF Step
<1>2. ASSUME NEW f \in Filesets, Release(f) PROVE NothingStaysReserved'
  <2>1. \A g \in Filesets :
          row'[g].state = "creating" =>
            row[g].state = "creating" /\ row'[g].kind = row[g].kind
    BY <1>2 DEF Release, TypeOK, Row
  <2> QED
    BY <1>2, <2>1 DEF Release, NothingStaysReserved, At
<1>3. ASSUME NEW u \in Users, SetLimit(u) \/ ClearLimit(u) PROVE NothingStaysReserved'
  BY <1>3 DEF SetLimit, ClearLimit, ChangeLimit, NothingStaysReserved, At
<1> QED
  BY <1>1, <1>2, <1>3 DEF Next, Crash

\* As long as the controller does not crash, an output fileset that could not be made
\* leaves nothing reserved.
THEOREM NothingLeftReserved ==
    ASSUME "crash" \notin Ops PROVE Spec => []NothingStaysReserved
<1>1. Init => NothingStaysReserved
  BY DEF Init, NothingStaysReserved
<1>2. Inv /\ NothingStaysReserved /\ [Next]_vars => NothingStaysReserved'
  <2>1. UNCHANGED vars /\ NothingStaysReserved => NothingStaysReserved'
    BY DEF vars, NothingStaysReserved, At
  <2> QED
    BY <2>1, MakersFinish
<1> QED
  BY <1>1, <1>2, Invariant, PTL DEF Spec

-----------------------------------------------------------------------------
(* What is reserved, summed up.                                            *)

\* What the rows reserve for these filesets.
Reserved(r, fs) == MapThenSumSet(LAMBDA f : r[f].allocated, fs)

SizeIn(r) == [f \in Filesets |-> r[f].allocated]

\* A table gives every fileset a size.
LEMMA RowsHaveSizes ==
    ASSUME NEW r \in [Filesets -> Row], NEW fs \in SUBSET Filesets
    PROVE  Summable(SizeIn(r), fs)
BY FiniteAssumption, FS_Subset DEF Summable, SizeIn, Row

\* What is reserved is a sum of sizes.
LEMMA ReservedIsSum ==
    ASSUME NEW r \in [Filesets -> Row], NEW fs \in SUBSET Filesets
    PROVE  Reserved(r, fs) = SumOver(SizeIn(r), fs)
<1> DEFINE Recurs(sum) ==
             sum = [s \in SUBSET fs |->
                      IF s = {} THEN 0
                      ELSE r[CHOOSE x \in s : TRUE].allocated
                             + sum[s \ {CHOOSE x \in s : TRUE}]]
           total == CHOOSE sum : Recurs(sum)
<1>1. Summable(SizeIn(r), fs)
  BY RowsHaveSizes
<1>2. \A sum : Recurs(sum) <=> Adds(sum, SizeIn(r), fs)
  <2>1. \A s \in SUBSET fs : s # {} =>
          r[CHOOSE x \in s : TRUE].allocated = SizeIn(r)[CHOOSE x \in s : TRUE]
    BY DEF SizeIn
  <2> QED
    BY <2>1 DEF Adds
<1>3. Recurs(total)
  <2>1. Adds([s \in SUBSET fs |-> SumOver(SizeIn(r), s)], SizeIn(r), fs)
    BY <1>1, RecursionExists
  <2> HIDE DEF Recurs
  <2>2. \E sum : Recurs(sum)
    BY <1>2, <2>1
  <2> QED
    BY <2>2
<1>4. Reserved(r, fs) = total[fs]
  BY <1>3 DEF Reserved, MapThenSumSet, MapThenFoldSet
<1> HIDE DEF total, Recurs
<1> QED
  BY <1>1, <1>2, <1>3, <1>4, RecursionSums

\* Rows that reserve what they did, and no others, reserve no more.
LEMMA ReservedByFewer ==
    ASSUME NEW r \in [Filesets -> Row], NEW q \in [Filesets -> Row],
           NEW fs \in SUBSET Filesets, NEW gs \in SUBSET fs,
           \A f \in gs : q[f].allocated = r[f].allocated
    PROVE  /\ Reserved(q, gs) \in Nat /\ Reserved(r, fs) \in Nat
           /\ Reserved(q, gs) <= Reserved(r, fs)
<1>1. gs \in SUBSET Filesets
  OBVIOUS
<1>2. /\ Reserved(r, fs) = SumOver(SizeIn(r), fs)
      /\ Reserved(q, gs) = SumOver(SizeIn(q), gs)
  BY <1>1, ReservedIsSum
<1>3. SumOver(SizeIn(q), gs) = SumOver(SizeIn(r), gs)
  <2>1. \A f \in gs : SizeIn(q)[f] = SizeIn(r)[f]
    BY DEF SizeIn
  <2> QED
    BY <2>1, SumAgrees
<1>4. Summable(SizeIn(r), fs) /\ Summable(SizeIn(r), gs)
  BY <1>1, RowsHaveSizes
<1> QED
  BY <1>2, <1>3, <1>4, SumOfPart, SumIsNat

\* One fileset reserves what its row says, beside what the others do.
LEMMA ReservedWithout ==
    ASSUME NEW r \in [Filesets -> Row], NEW fs \in SUBSET Filesets, NEW f \in fs
    PROVE  Reserved(r, fs) = r[f].allocated + Reserved(r, fs \ {f})
<1>1. fs \ {f} \in SUBSET Filesets
  OBVIOUS
<1>2. SumOver(SizeIn(r), fs) = SizeIn(r)[f] + SumOver(SizeIn(r), fs \ {f})
  BY RowsHaveSizes, SumWithout
<1> QED
  BY <1>1, <1>2, ReservedIsSum DEF SizeIn

-----------------------------------------------------------------------------
(* What an admission found room for has room until it is committed.        *)

\* What a limit of a user is about: one storage, or all of them.
Part(u, k) == IF k = Everywhere THEN OwnedBy(u) ELSE OwnedBy(u) \cap OnStorage(k)

Mine(u, k) == Allocated(Part(u, k))

\* There is nobody else to fill a storage.
Alone == \A u, v \in Users : u = v

\* What a request was measured against and nobody else can use up.
Room(q, k) ==
    IF k = Everywhere THEN {q.total} ELSE IF Alone THEN {q.own, Usable} ELSE {q.own}

\* What a request to change a row is about is what the row says; what it read of a
\* size it waits to write is still there, but for a resize; and what it was admitted
\* for fits the limits it was measured against.
Promise(q) ==
    /\ q.op \in {"warm", "resize"} /\ q.f \in Filesets =>
         row[q.f].user = q.user /\ row[q.f].storage = q.storage
    /\ q.at = "admitted" =>
         /\ q.f = NoFileset => q.seen = 0
         /\ q.op = "warm" /\ q.f \in Filesets => row[q.f].allocated = q.seen
         /\ q.size > q.seen =>
              \A k \in {q.storage, Everywhere} : \A room \in Room(q, k) :
                Mine(q.user, k) + q.size - q.seen <= room

\* The invariant behind NeverPastLimits.
Promises == \A h \in Handlers, q \in Request : request[h] = q => Promise(q)

\* Nothing is reserved there that was not before.
Less(u, k) ==
    /\ Part(u, k)' \subseteq Part(u, k)
    /\ \A f \in Part(u, k)' : row'[f].allocated = row[f].allocated

\* Rows of the same sizes, and no more of them live.
NoNewRows ==
    /\ Live' \subseteq Live
    /\ \A f \in Filesets : /\ row'[f].user = row[f].user
                           /\ row'[f].storage = row[f].storage
                           /\ row'[f].allocated = row[f].allocated

\* Parts are filesets.
LEMMA PartsAreFilesets == \A u, k : Part(u, k) \in SUBSET Filesets
BY DEF Part, OwnedBy, OnStorage, Live

\* What is reserved in a part is what the rows reserve for it, before and after a step.
LEMMA MineIsReserved ==
    \A u, k : /\ Mine(u, k) = Reserved(row, Part(u, k))
              /\ Mine(u, k)' = Reserved(row', Part(u, k)')
BY DEF Mine, Allocated, Reserved, MapThenSumSet, MapThenFoldSet

\* A part with less in it reserves no more.
LEMMA LessIsLess ==
    ASSUME TypeOK, TypeOK', NEW u, NEW k, Less(u, k)
    PROVE  /\ Mine(u, k) \in Nat /\ Mine(u, k)' \in Nat
           /\ Mine(u, k)' <= Mine(u, k)
<1>1. row \in [Filesets -> Row] /\ row' \in [Filesets -> Row]
  BY DEF TypeOK
<1>2. Part(u, k) \in SUBSET Filesets /\ Part(u, k)' \in SUBSET Part(u, k)
  BY PartsAreFilesets DEF Less
<1> QED
  BY <1>1, <1>2, MineIsReserved, ReservedByFewer DEF Less

\* One row that is written changes what is reserved by the difference, at most.
LEMMA WrittenCounts ==
    ASSUME TypeOK, TypeOK', NEW u, NEW k, NEW f \in Part(u, k)',
           Part(u, k)' \subseteq Part(u, k) \cup {f},
           \A g \in Part(u, k)' \ {f} : row'[g].allocated = row[g].allocated
    PROVE  /\ Mine(u, k) \in Nat /\ Mine(u, k)' \in Nat
           /\ Mine(u, k)' <= Mine(u, k) + row'[f].allocated
                               - (IF f \in Part(u, k) THEN row[f].allocated ELSE 0)
<1>1. row \in [Filesets -> Row] /\ row' \in [Filesets -> Row]
  BY DEF TypeOK
<1>2. PICK old \in SUBSET Filesets : old = Part(u, k)
  BY PartsAreFilesets
<1>3. PICK new \in SUBSET Filesets : new = Part(u, k)'
  <2>1. Part(u, k)' \in SUBSET Filesets
    BY DEF Part, OwnedBy, OnStorage, Live
  <2> QED
    BY <2>1
<1>4. f \in new /\ f \in Filesets /\ new \ {f} \in SUBSET (old \ {f})
  BY <1>2, <1>3
<1>5. Reserved(row', new) = row'[f].allocated + Reserved(row', new \ {f})
  BY <1>1, <1>4, ReservedWithout
<1>6. /\ Reserved(row', new \ {f}) \in Nat /\ Reserved(row, old \ {f}) \in Nat
      /\ Reserved(row', new \ {f}) <= Reserved(row, old \ {f})
  <2>1. \A g \in new \ {f} : row'[g].allocated = row[g].allocated
    BY <1>3
  <2>2. old \ {f} \in SUBSET Filesets
    OBVIOUS
  <2> QED
    BY <1>1, <1>4, <2>1, <2>2, ReservedByFewer
<1>7. Reserved(row, old) = (IF f \in old THEN row[f].allocated ELSE 0)
                             + Reserved(row, old \ {f})
  <2>1. CASE f \in old
    BY <1>1, <2>1, ReservedWithout
  <2>2. CASE f \notin old
    <3>1. old \ {f} = old
      BY <2>2
    <3> QED
      BY <1>6, <2>2, <3>1
  <2> QED
    BY <2>1, <2>2
<1>8. row[f].allocated \in Nat /\ row'[f].allocated \in Nat
  BY <1>1, <1>4 DEF Row
<1>9. Mine(u, k) = Reserved(row, old) /\ Mine(u, k)' = Reserved(row', new)
  BY <1>2, <1>3, MineIsReserved
<1> QED
  BY <1>2, <1>5, <1>6, <1>7, <1>8, <1>9

\* No part of what anyone owns has more in it when there are no new rows.
LEMMA NoNewRowsIsLess == ASSUME NoNewRows, NEW u, NEW k PROVE Less(u, k)
<1>1. /\ OwnedBy(u)' \subseteq OwnedBy(u)
      /\ OnStorage(k)' \subseteq OnStorage(k)
      /\ Live \subseteq Filesets
  BY DEF NoNewRows, OwnedBy, OnStorage, Live
<1>2. Part(u, k)' \subseteq Part(u, k) /\ Part(u, k) \subseteq Filesets
  BY <1>1, PartsAreFilesets DEF Part
<1> QED
  BY <1>2 DEF Less, NoNewRows
-----------------------------------------------------------------------------
(* What a step does to the rows.                                           *)

\* A row is inserted for what was admitted, under an id nobody knows.
Inserts(h) ==
    \E f \in Filesets, r \in Row :
      /\ Inserting(h)
      /\ row[f].state = "none" /\ r.state \in {"creating", "held"}
      /\ \A g \in Handlers : request[g].f # f
      /\ r.user = request[h].user /\ r.storage = request[h].storage
      /\ r.allocated = request[h].size
      /\ row' = [row EXCEPT ![f] = r]

\* What was admitted is written into the row it was admitted for.
Overwrites(h) ==
    /\ request[h].at = "admitted" /\ request[h].op \in {"warm", "resize"}
    /\ request[h].f \in Filesets
    /\ row' = [row EXCEPT ![request[h].f].allocated = request[h].size]

\* An inserted row is its handler's request.
LEMMA InsertInserts ==
    ASSUME Inv, NEW h \in Handlers, NEW f \in Filesets, Inserting(h),
           NEW state \in {"creating", "held"}, NEW kind \in {"cached", "output"},
           Insert(h, f, state, kind)
    PROVE  Inserts(h)
<1>1. request[h] \in Request
  BY DEF Inv, TypeOK
<1> DEFINE r == [state |-> state, kind |-> kind, user |-> request[h].user,
                 storage |-> request[h].storage, name |-> request[h].name,
                 allocated |-> request[h].size]
<1>2. r \in Row
  BY <1>1 DEF Row, Request
<1>3. /\ r.state = state /\ r.user = request[h].user
      /\ r.storage = request[h].storage /\ r.allocated = request[h].size
  OBVIOUS
<1>4. row' = [row EXCEPT ![f] = r] /\ row[f].state = "none"
      /\ \A g \in Handlers : request[g].f # f
  BY DEF Insert
<1> HIDE DEF r
<1> QED
  BY <1>2, <1>3, <1>4 DEF Inserts

\* A live row that changes its state makes no new one.
LEMMA MovedIsNoNew ==
    ASSUME TypeOK, NEW f \in Filesets, row[f].state \in {"creating", "held"},
           NEW state, row' = [row EXCEPT ![f].state = state]
    PROVE  NoNewRows
<1>1. \A g \in Filesets : /\ g # f => row'[g].state = row[g].state
                         /\ row'[g].user = row[g].user
                         /\ row'[g].storage = row[g].storage
                         /\ row'[g].allocated = row[g].allocated
  BY DEF TypeOK, Row
<1> QED
  BY <1>1 DEF NoNewRows, Live

\* Rows that stay what they are.
LEMMA SameRowsAreNoNew == row' = row => NoNewRows
BY DEF NoNewRows, Live

\* A request inserts its row, writes its row, or makes nothing new; and it changes no
\* other request.
LEMMA HandlerRows ==
    ASSUME Inv, NEW h \in Handlers, Step(h)
    PROVE  /\ NoNewRows \/ Inserts(h) \/ Overwrites(h)
           /\ \A g \in Handlers \ {h} : request'[g] = request[g]
<1>1. request \in [Handlers -> Request] /\ row \in [Filesets -> Row]
  BY DEF Inv, TypeOK
<1>2. ASSUME NEW u \in Users, NEW s \in Storages, NEW size \in Sizes,
             \/ \E n \in OutputNames : CreateAdmit(h, u, s, n, size)
             \/ \E n \in CachedNames : WarmAdmit(h, u, s, n, size)
      PROVE  NoNewRows /\ \A g \in Handlers \ {h} : request'[g] = request[g]
  <2>1. ASSUME NEW n, CreateAdmit(h, u, s, n, size)
        PROVE  row' = row /\ \A g \in Handlers \ {h} : request'[g] = request[g]
    BY <1>1, <2>1 DEF CreateAdmit
  <2>2. ASSUME NEW n, WarmAdmit(h, u, s, n, size)
        PROVE  row' = row /\ \A g \in Handlers \ {h} : request'[g] = request[g]
    <3>1. PICK f \in IF Named(u, s, n) = {} THEN {NoFileset} ELSE Named(u, s, n) :
            /\ request' = [request EXCEPT ![h] =
                            [Resting EXCEPT !.op = "warm", !.at = "admitted", !.user = u,
                                            !.storage = s, !.name = n, !.size = size,
                                            !.f = f,
                                            !.seen = IF f = NoFileset THEN 0
                                                     ELSE row[f].allocated,
                                            !.own = LimitOn(u, s), !.total = TotalOf(u)]]
            /\ row' = row
      BY <2>2 DEF WarmAdmit
    <3> QED
      BY <1>1, <3>1
  <2> QED
    BY <1>2, <2>1, <2>2, SameRowsAreNoNew
<1>3. ASSUME NEW f \in Filesets, CreateReserve(h, f)
      PROVE  /\ NoNewRows \/ Inserts(h) \/ Overwrites(h)
             /\ \A g \in Handlers \ {h} : request'[g] = request[g]
  <2>1. Inserting(h)
    BY <1>3 DEF CreateReserve, At, Inserting, Inv, LocksHeld
  <2>2. Inserts(h)
    BY <1>3, <2>1, InsertInserts DEF CreateReserve
  <2> QED
    BY <1>1, <1>3, <2>2 DEF CreateReserve
<1>4. ASSUME NEW f \in Filesets, WarmReserve(h, f)
      PROVE  /\ NoNewRows \/ Inserts(h) \/ Overwrites(h)
             /\ \A g \in Handlers \ {h} : request'[g] = request[g]
  <2>1. \A g \in Handlers \ {h} : request'[g] = request[g]
    BY <1>1, <1>4 DEF WarmReserve, Done
  <2>2. CASE request[h].f = NoFileset /\ Insert(h, f, "held", "cached")
    <3>1. Inserting(h)
      BY <1>4, <2>2 DEF WarmReserve, At, Inserting
    <3> QED
      BY <2>1, <2>2, <3>1, InsertInserts
  <2>3. CASE request[h].f = f /\ row' = [row EXCEPT ![f].allocated = request[h].size]
    BY <1>4, <2>1, <2>3 DEF WarmReserve, At, Overwrites
  <2>4. CASE row' = row
    BY <2>1, <2>4, SameRowsAreNoNew
  <2> QED
    BY <1>4, <2>2, <2>3, <2>4 DEF WarmReserve
<1>5. ASSUME NEW f \in Filesets, ResizeRead(h, f)
      PROVE  NoNewRows /\ \A g \in Handlers \ {h} : request'[g] = request[g]
  BY <1>1, <1>5, SameRowsAreNoNew DEF ResizeRead
<1>6. ASSUME NEW size \in Sizes, ResizeAdmit(h, size)
      PROVE  NoNewRows /\ \A g \in Handlers \ {h} : request'[g] = request[g]
  BY <1>1, <1>6, SameRowsAreNoNew DEF ResizeAdmit
<1>7. CASE CreateMade(h) \/ CreateFails(h)
  <2>1. request[h].f \in Filesets /\ row[request[h].f].state = "creating"
    BY <1>7 DEF CreateMade, CreateFails, Inv, MakersOwn
  <2>2. \E state : row' = [row EXCEPT ![request[h].f].state = state]
    BY <1>7 DEF CreateMade, CreateFails
  <2>3. NoNewRows
    BY <2>1, <2>2, MovedIsNoNew DEF Inv
  <2> QED
    BY <1>1, <1>7, <2>3 DEF CreateMade, CreateFails, Done
<1>8. CASE ResizeCommit(h)
  <2>1. request[h].f \in Filesets /\ At(h, "resize", "admitted")
    BY <1>8 DEF ResizeCommit, At, Inv, RowsNamed
  <2>2. row' = row \/ Overwrites(h)
    BY <1>8, <2>1 DEF ResizeCommit, At, Overwrites
  <2> QED
    BY <1>1, <1>8, <2>2, SameRowsAreNoNew DEF ResizeCommit, Done
<1>9. CASE ResizeFails(h)
  BY <1>1, <1>9, SameRowsAreNoNew DEF ResizeFails, Done
<1> QED
  BY <1>2, <1>3, <1>4, <1>5, <1>6, <1>7, <1>8, <1>9 DEF Step

\* What one user's request writes adds nothing to what another user has.
LEMMA OthersGetNothing ==
    ASSUME Inv, Promises, NEW h \in Handlers, Inserts(h) \/ Overwrites(h),
           NEW u \in Users, u # request[h].user, NEW k
    PROVE  Less(u, k)
<1>1. PICK f \in Filesets :
        /\ \A g \in Filesets \ {f} : row'[g] = row[g]
        /\ row'[f].user # u
  <2>1. CASE Inserts(h)
    BY <2>1 DEF Inserts, Inv, TypeOK
  <2>2. CASE Overwrites(h)
    <3>1. PICK q \in Request : q = request[h]
      BY DEF Inv, TypeOK
    <3>2. row[q.f].user = q.user /\ q.f \in Filesets
      BY <2>2, <3>1 DEF Overwrites, Promises, Promise
    <3>3. \A g \in Filesets \ {q.f} : row'[g] = row[g]
      BY <2>2, <3>1 DEF Overwrites, Inv, TypeOK
    <3>4. row'[q.f].user = row[q.f].user
      BY <2>2, <3>1, <3>2 DEF Overwrites, Inv, TypeOK, Row
    <3> QED
      BY <3>1, <3>2, <3>3, <3>4
  <2> QED
    BY <2>1, <2>2
<1>2. \A g \in OwnedBy(u)' : g \in Filesets /\ g # f /\ g \in OwnedBy(u)
  BY <1>1 DEF OwnedBy, Live
<1>3. \A g \in OwnedBy(u)' : g \in OnStorage(k)' => g \in OnStorage(k)
  BY <1>1, <1>2 DEF OnStorage, Live
<1>4. Part(u, k)' \subseteq Part(u, k) /\ Part(u, k)' \subseteq OwnedBy(u)'
  BY <1>2, <1>3 DEF Part
<1> QED
  BY <1>1, <1>2, <1>4 DEF Less

\* What a request was promised is there whatever the others do.
LEMMA PromiseKept ==
    ASSUME Inv, TypeOK', Promises, NEW g \in Handlers, NEW q \in Request, request[g] = q,
           NoNewRows \/ \E h \in Handlers \ {g} : Inserts(h) \/ Overwrites(h)
    PROVE  Promise(q)'
<1>1. Promise(q)
  BY DEF Promises
<1>2. q.f \in Filesets =>
        row'[q.f].user = row[q.f].user /\ row'[q.f].storage = row[q.f].storage
  <2>1. ASSUME q.f \in Filesets, NEW h \in Handlers, Inserts(h)
        PROVE  row'[q.f] = row[q.f]
    BY <2>1 DEF Inserts, Inv, TypeOK
  <2>2. ASSUME q.f \in Filesets, NEW h \in Handlers, Overwrites(h)
        PROVE  row'[q.f].user = row[q.f].user /\ row'[q.f].storage = row[q.f].storage
    BY <2>2 DEF Overwrites, Inv, TypeOK, Row
  <2> QED
    BY <2>1, <2>2 DEF NoNewRows
<1>3. ASSUME q.at = "admitted", NEW h \in Handlers \ {g}, Inserts(h) \/ Overwrites(h)
      PROVE  q.user # request[h].user
  <2>1. request[h].at = "admitted"
    BY <1>3 DEF Inserts, Inserting, Overwrites
  <2> QED
    BY <1>3, <2>1 DEF Inv, LocksHeld
<1>4. ASSUME q.at = "admitted", NEW k PROVE Less(q.user, k)
  <2>1. q.user \in Users
    BY DEF Request
  <2> QED
    BY <1>3, <1>4, <2>1, NoNewRowsIsLess, OthersGetNothing
<1>5. ASSUME q.at = "admitted", q.op = "warm", q.f \in Filesets
      PROVE  row'[q.f].allocated = row[q.f].allocated
  <2>1. ASSUME NEW h \in Handlers \ {g}, Inserts(h)
        PROVE  row'[q.f] = row[q.f]
    BY <1>5, <2>1 DEF Inserts, Inv, TypeOK
  <2>2. ASSUME NEW h \in Handlers \ {g}, Overwrites(h)
        PROVE  row'[q.f] = row[q.f]
    <3>1. PICK r \in Request : r = request[h]
      BY DEF Inv, TypeOK
    <3>2. row[r.f].user = r.user
      BY <2>2, <3>1 DEF Overwrites, Promises, Promise
    <3>3. row[q.f].user = q.user /\ q.user # r.user
      BY <1>1, <1>3, <1>5, <2>2, <3>1 DEF Promise
    <3> QED
      BY <1>5, <2>2, <3>1, <3>2, <3>3 DEF Overwrites, Inv, TypeOK
  <2> QED
    BY <1>5, <2>1, <2>2 DEF NoNewRows
<1>6. ASSUME q.at = "admitted", q.size > q.seen, NEW k \in {q.storage, Everywhere},
             NEW room \in Room(q, k)
      PROVE  Mine(q.user, k)' + q.size - q.seen <= room
  <2>1. Mine(q.user, k) + q.size - q.seen <= room
    BY <1>1, <1>6 DEF Promise
  <2>2. /\ Mine(q.user, k) \in Nat /\ Mine(q.user, k)' \in Nat
        /\ Mine(q.user, k)' <= Mine(q.user, k)
    BY <1>4, <1>6, LessIsLess DEF Inv
  <2>3. q.size \in Nat /\ q.seen \in Nat /\ room \in Nat
    BY LimitsAssumption DEF Request, Room
  <2> QED
    BY <2>1, <2>2, <2>3
<1> QED
  BY <1>1, <1>2, <1>5, <1>6 DEF Promise, Room

\* A request that is admitted is promised the room it was measured against.
LEMMA AdmissionPromises ==
    ASSUME TypeOK, TypeOK', NEW q \in Request, row' = row,
           q.op \in {"warm", "resize"} /\ q.f \in Filesets =>
             row[q.f].user = q.user /\ row[q.f].storage = q.storage,
           q.f = NoFileset => q.seen = 0,
           q.op = "warm" /\ q.f \in Filesets => row[q.f].allocated = q.seen,
           q.size > q.seen => Admits(q.user, q.storage, q.size - q.seen),
           q.own = LimitOn(q.user, q.storage), q.total = TotalOf(q.user)
    PROVE  Promise(q)'
<1>1. ASSUME q.size > q.seen, NEW k \in {q.storage, Everywhere},
             NEW room \in Room(q, k)
      PROVE  Mine(q.user, k)' + q.size - q.seen <= room
  <2>1. q.storage # Everywhere
    BY EverywhereAssumption DEF Request
  <2>2. q.size - q.seen <= room - Mine(q.user, k)
    <3>1. Alone => OnStorage(q.storage) = OwnedBy(q.user) \cap OnStorage(q.storage)
      BY DEF Alone, OnStorage, OwnedBy, Live, TypeOK, Row, Request
    <3>2. Alone => q.size - q.seen <= Usable - Mine(q.user, q.storage)
      BY <1>1, <2>1, <3>1 DEF Admits, Mine, Part
    <3>3. /\ q.size - q.seen <= q.own - Mine(q.user, q.storage)
          /\ q.size - q.seen <= q.total - Mine(q.user, Everywhere)
      BY <1>1, <2>1 DEF Admits, Mine, Part
    <3> QED
      BY <2>1, <3>2, <3>3 DEF Room
  <2>3. /\ Mine(q.user, k) \in Nat /\ Mine(q.user, k)' \in Nat
        /\ Mine(q.user, k)' <= Mine(q.user, k)
    BY SameRowsAreNoNew, NoNewRowsIsLess, LessIsLess
  <2>4. q.size \in Nat /\ q.seen \in Nat /\ room \in Nat
    BY LimitsAssumption DEF Request, Room
  <2> QED
    BY <2>2, <2>3, <2>4
<1> QED
  BY <1>1 DEF Promise, Room

\* A handler's step keeps what everybody was promised if it keeps what it was.
LEMMA HandlerKeepsPromises ==
    ASSUME Inv, TypeOK', Promises, NEW h \in Handlers,
           NoNewRows \/ Inserts(h) \/ Overwrites(h),
           \A g \in Handlers \ {h} : request'[g] = request[g],
           NEW q \in Request, request'[h] = q, Promise(q)'
    PROVE  Promises'
<1> SUFFICES ASSUME NEW g \in Handlers, NEW r \in Request, request'[g] = r
             PROVE  Promise(r)'
  BY DEF Promises
<1>1. CASE g = h
  BY <1>1
<1>2. CASE g # h
  <2>1. request[g] = r
    BY <1>2
  <2> QED
    BY <1>2, <2>1, PromiseKept
<1> QED
  BY <1>1, <1>2

\* Every step of a request keeps the promises, and makes its own only for what it has
\* found room for.
LEMMA StepKeepsPromises ==
    ASSUME Inv, Inv', Promises, NEW h \in Handlers, Step(h)
    PROVE  Promises'
<1>1. /\ NoNewRows \/ Inserts(h) \/ Overwrites(h)
      /\ \A g \in Handlers \ {h} : request'[g] = request[g]
  BY HandlerRows
<1>2. TypeOK /\ TypeOK' /\ request'[h] \in Request
  BY DEF Inv, TypeOK
<1>3. PICK q \in Request : q = request'[h]
  BY <1>2
<1> SUFFICES Promise(q)'
  BY <1>1, <1>2, <1>3, HandlerKeepsPromises
<1>4. ASSUME NEW u \in Users, NEW s \in Storages, NEW size \in Sizes,
             NEW n \in OutputNames, CreateAdmit(h, u, s, n, size)
      PROVE  Promise(q)'
  <2>1. q = [Resting EXCEPT !.op = "create", !.at = "admitted", !.user = u,
                            !.storage = s, !.name = n, !.size = size,
                            !.own = LimitOn(u, s), !.total = TotalOf(u)]
    BY <1>2, <1>3, <1>4 DEF CreateAdmit, TypeOK
  <2>2. /\ q.op = "create" /\ q.user = u /\ q.storage = s /\ q.size = size
        /\ q.seen = 0 /\ q.own = LimitOn(u, s) /\ q.total = TotalOf(u)
    BY <2>1 DEF Resting
  <2>3. size - 0 = size /\ row' = row /\ Admits(u, s, size)
    BY <1>4, SizesAssumption DEF CreateAdmit
  <2> QED
    BY <1>2, <2>2, <2>3, AdmissionPromises
<1>5. ASSUME NEW u \in Users, NEW s \in Storages, NEW size \in Sizes,
             NEW n \in CachedNames, WarmAdmit(h, u, s, n, size)
      PROVE  Promise(q)'
  <2>1. PICK f \in IF Named(u, s, n) = {} THEN {NoFileset} ELSE Named(u, s, n) :
          /\ size > (IF f = NoFileset THEN 0 ELSE row[f].allocated) =>
               Admits(u, s, size - (IF f = NoFileset THEN 0 ELSE row[f].allocated))
          /\ request' = [request EXCEPT ![h] =
                           [Resting EXCEPT !.op = "warm", !.at = "admitted", !.user = u,
                                           !.storage = s, !.name = n, !.size = size,
                                           !.f = f,
                                           !.seen = IF f = NoFileset THEN 0
                                                    ELSE row[f].allocated,
                                           !.own = LimitOn(u, s), !.total = TotalOf(u)]]
          /\ row' = row
    BY <1>5 DEF WarmAdmit
  <2> DEFINE already == IF f = NoFileset THEN 0 ELSE row[f].allocated
  <2>2. q = [Resting EXCEPT !.op = "warm", !.at = "admitted", !.user = u,
                            !.storage = s, !.name = n, !.size = size, !.f = f,
                            !.seen = already,
                            !.own = LimitOn(u, s), !.total = TotalOf(u)]
    BY <1>2, <1>3, <2>1 DEF TypeOK
  <2>3. /\ q.op = "warm" /\ q.user = u /\ q.storage = s /\ q.size = size /\ q.f = f
        /\ q.seen = already /\ q.own = LimitOn(u, s) /\ q.total = TotalOf(u)
    BY <2>2 DEF Resting
  <2>4. f \in Filesets =>
          row[f].user = u /\ row[f].storage = s /\ already = row[f].allocated
    BY <2>1, NoFilesetAssumption DEF Named, OwnedBy, OnStorage
  <2>5. f = NoFileset => already = 0
    OBVIOUS
  <2>6. size > already => Admits(u, s, size - already)
    BY <2>1
  <2> HIDE DEF already
  <2> QED
    BY <1>2, <2>1, <2>3, <2>4, <2>5, <2>6, AdmissionPromises
<1>6. ASSUME NEW f \in Filesets, CreateReserve(h, f) PROVE Promise(q)'
  <2>1. q.op = "create" /\ q.at = "making"
    BY <1>2, <1>3, <1>6 DEF CreateReserve, At, TypeOK, Request
  <2> QED
    BY <2>1 DEF Promise
<1>7. ASSUME NEW f \in Filesets, ResizeRead(h, f) PROVE Promise(q)'
  <2>1. q = [Resting EXCEPT !.op = "resize", !.at = "read", !.f = f,
                            !.user = row[f].user, !.storage = row[f].storage,
                            !.seen = row[f].allocated]
    BY <1>2, <1>3, <1>7 DEF ResizeRead, TypeOK
  <2>2. /\ q.at = "read" /\ q.f = f /\ row' = row
        /\ q.user = row[f].user /\ q.storage = row[f].storage
    BY <1>7, <2>1 DEF Resting, ResizeRead
  <2> QED
    BY <2>2 DEF Promise
<1>8. ASSUME NEW size \in Sizes, ResizeAdmit(h, size) PROVE Promise(q)'
  <2>1. PICK r \in Request : r = request[h]
    BY <1>2 DEF TypeOK
  <2>2. q = [r EXCEPT !.at = "admitted", !.size = size,
                      !.own = LimitOn(r.user, r.storage), !.total = TotalOf(r.user)]
    BY <1>2, <1>3, <1>8, <2>1 DEF ResizeAdmit, TypeOK
  <2>3. /\ q.op = "resize" /\ q.user = r.user /\ q.storage = r.storage /\ q.f = r.f
        /\ q.size = size /\ q.seen = r.seen
        /\ q.own = LimitOn(r.user, r.storage) /\ q.total = TotalOf(r.user)
    BY <1>8, <2>1, <2>2 DEF ResizeAdmit, At, Request
  <2>4. r.op = "resize" /\ r.f \in Filesets /\ Promise(r)
    BY <1>8, <2>1 DEF ResizeAdmit, At, Inv, RowsNamed, Promises
  <2>5. row' = row /\ (size > r.seen => Admits(r.user, r.storage, size - r.seen))
    BY <1>8, <2>1 DEF ResizeAdmit
  <2>6. row[q.f].user = q.user /\ row[q.f].storage = q.storage /\ q.f # NoFileset
    BY <2>3, <2>4, NoFilesetAssumption DEF Promise
  <2> QED
    BY <1>2, <2>3, <2>5, <2>6, AdmissionPromises
<1>9. ASSUME Done(h) PROVE Promise(q)'
  <2>1. q = Resting
    BY <1>2, <1>3, <1>9 DEF Done, TypeOK
  <2> QED
    BY <2>1, RestingType DEF Promise
<1> QED
  BY <1>4, <1>5, <1>6, <1>7, <1>8, <1>9
     DEF Step, WarmReserve, CreateMade, CreateFails, ResizeCommit, ResizeFails

\* Nothing reserved before a promise is made, and every step keeps what is promised.
LEMMA PromisesKept == Inv /\ Inv' /\ Promises /\ [Next]_vars => Promises'
<1> SUFFICES ASSUME Inv, Inv', Promises, [Next]_vars PROVE Promises'
  OBVIOUS
<1>1. TypeOK'
  BY DEF Inv
<1>2. ASSUME NEW h \in Handlers, Step(h) PROVE Promises'
  BY <1>2, StepKeepsPromises
<1>3. ASSUME request' = request, NoNewRows PROVE Promises'
  <2> SUFFICES ASSUME NEW g \in Handlers, NEW r \in Request, request'[g] = r
               PROVE  Promise(r)'
    BY DEF Promises
  <2> QED
    BY <1>1, <1>3, PromiseKept
<1>4. ASSUME NEW f \in Filesets, Release(f) PROVE Promises'
  <2>1. NoNewRows
    BY <1>4, MovedIsNoNew DEF Release, Inv
  <2> QED
    BY <1>3, <1>4, <2>1 DEF Release
<1>5. ASSUME NEW u \in Users, SetLimit(u) \/ ClearLimit(u) PROVE Promises'
  BY <1>3, <1>5, SameRowsAreNoNew DEF SetLimit, ClearLimit, ChangeLimit
<1>6. CASE Crash
  <2> SUFFICES ASSUME NEW g \in Handlers, NEW r \in Request, request'[g] = r
               PROVE  Promise(r)'
    BY DEF Promises
  <2>1. r = Resting
    BY <1>6 DEF Crash
  <2> QED
    BY <2>1, RestingType DEF Promise
<1>7. CASE UNCHANGED vars
  BY <1>3, <1>7, SameRowsAreNoNew DEF vars
<1> QED
  BY <1>2, <1>4, <1>5, <1>6, <1>7 DEF Next

-----------------------------------------------------------------------------
(* Nothing gets past a limit but what was admitted under it.               *)

\* More reserved for a user than before is what a request of the user was admitted for,
\* or what a resize reserves that was decided by a size which is not there any more.
GrowsAsDecided(u, k) ==
    Mine(u, k)' > Mine(u, k) =>
      StaleResize(u) \/ \E h \in Decided(u) : \A room \in Room(request[h], k) : Mine(u, k)' <= room

\* An inserted row takes no more than it was promised.
LEMMA InsertedAsDecided ==
    ASSUME Inv, Inv', Promises, NEW h \in Handlers, Inserts(h),
           NEW u \in Users, NEW k \in Scopes
    PROVE  GrowsAsDecided(u, k)
<1>1. PICK q \in Request : q = request[h]
  BY DEF Inv, TypeOK
<1>2. PICK f \in Filesets, r \in Row :
        /\ Inserting(h) /\ row[f].state = "none" /\ r.state \in {"creating", "held"}
        /\ r.user = q.user /\ r.storage = q.storage /\ r.allocated = q.size
        /\ row' = [row EXCEPT ![f] = r]
  BY <1>1 DEF Inserts
<1>3. /\ row'[f] = r /\ f \notin Live
      /\ \A g \in Filesets \ {f} : row'[g] = row[g]
  BY <1>2 DEF Inv, TypeOK, Live
<1>4. \A g \in Filesets \ {f} : g \in Part(u, k)' => g \in Part(u, k)
  BY <1>3 DEF Part, OwnedBy, OnStorage, Live
<1>5. Part(u, k)' \subseteq Filesets /\ f \notin Part(u, k)
  BY <1>3 DEF Part, OwnedBy, OnStorage, Live
<1>6. CASE f \notin Part(u, k)'
  <2>1. Less(u, k)
    BY <1>3, <1>4, <1>5, <1>6 DEF Less
  <2> QED
    BY <2>1, LessIsLess DEF GrowsAsDecided, Inv
<1>7. CASE f \in Part(u, k)'
  <2>1. u = q.user /\ k \in {q.storage, Everywhere}
    BY <1>2, <1>3, <1>7 DEF Part, OwnedBy, OnStorage
  <2>2. /\ Mine(u, k) \in Nat /\ Mine(u, k)' \in Nat
        /\ Mine(u, k)' <= Mine(u, k) + q.size
    <3>1. /\ Mine(u, k) \in Nat /\ Mine(u, k)' \in Nat
          /\ Mine(u, k)' <= Mine(u, k) + q.size - 0
      BY <1>2, <1>3, <1>4, <1>5, <1>7, WrittenCounts DEF Inv
    <3> QED
      BY <3>1 DEF Request
  <2>3. q.at = "admitted" /\ q.f = NoFileset /\ Promise(q)
    BY <1>1, <1>2 DEF Inserting, Promises
  <2>4. q.seen = 0 /\ q.size \in Nat /\ Room(q, k) \subseteq Nat
    BY <2>3, LimitsAssumption DEF Promise, Request, Room
  <2>5. q.size > 0 => \A room \in Room(q, k) : Mine(u, k) + q.size <= room
    BY <2>1, <2>2, <2>3, <2>4 DEF Promise
  <2>6. h \in Decided(u)
    BY <1>1, <2>1, <2>3 DEF Decided
  <2> QED
    BY <1>1, <2>2, <2>4, <2>5, <2>6 DEF GrowsAsDecided
<1> QED
  BY <1>6, <1>7

\* A row that is written takes no more than it was promised, or was read before another
\* resize.
LEMMA OverwrittenAsDecided ==
    ASSUME Inv, Inv', Promises, NEW h \in Handlers, Overwrites(h),
           NEW u \in Users, NEW k \in Scopes
    PROVE  GrowsAsDecided(u, k)
<1>1. PICK q \in Request : q = request[h]
  BY DEF Inv, TypeOK
<1>2. PICK f \in Filesets : f = q.f
  BY <1>1 DEF Overwrites
<1>3. /\ q.at = "admitted" /\ q.op \in {"warm", "resize"}
      /\ row' = [row EXCEPT ![f].allocated = q.size] /\ Promise(q)
  BY <1>1, <1>2 DEF Overwrites, Promises
<1>4. /\ row[f].user = q.user /\ row[f].storage = q.storage
      /\ q.op = "warm" => row[f].allocated = q.seen
  BY <1>2, <1>3 DEF Promise
<1>5. /\ row'[f].allocated = q.size
      /\ \A g \in Filesets : /\ g # f => row'[g].allocated = row[g].allocated
                             /\ row'[g].state = row[g].state
                             /\ row'[g].user = row[g].user
                             /\ row'[g].storage = row[g].storage
  BY <1>3 DEF Inv, TypeOK, Row
<1>6. Part(u, k)' = Part(u, k) /\ Part(u, k) \subseteq Filesets
  BY <1>5 DEF Part, OwnedBy, OnStorage, Live
<1>7. CASE f \notin Part(u, k)
  <2>1. Less(u, k)
    BY <1>5, <1>6, <1>7 DEF Less
  <2> QED
    BY <2>1, LessIsLess DEF GrowsAsDecided, Inv
<1>8. CASE f \in Part(u, k)
  <2>1. u = q.user /\ k \in {q.storage, Everywhere}
    BY <1>4, <1>8 DEF Part, OwnedBy, OnStorage
  <2>2. /\ Mine(u, k) \in Nat /\ Mine(u, k)' \in Nat
        /\ Mine(u, k)' <= Mine(u, k) + q.size - row[f].allocated
    BY <1>5, <1>6, <1>8, WrittenCounts DEF Inv
  <2>3. h \in Decided(u)
    BY <1>1, <1>3, <2>1 DEF Decided
  <2>4. row[f].allocated # q.seen => StaleResize(u)
    BY <1>1, <1>2, <1>3, <1>4, <2>1 DEF StaleResize, At
  <2>5. q.size > q.seen =>
          \A room \in Room(q, k) : Mine(u, k) + q.size - q.seen <= room
    BY <1>3, <2>1 DEF Promise
  <2>6. q.size \in Nat /\ q.seen \in Nat /\ Room(q, k) \subseteq Nat
    BY LimitsAssumption DEF Request, Room
  <2>7. row[f].allocated = q.seen /\ Mine(u, k)' > Mine(u, k)
          => \A room \in Room(q, k) : Mine(u, k)' <= room
    BY <2>2, <2>5, <2>6
  <2> QED
    BY <1>1, <2>3, <2>4, <2>7 DEF GrowsAsDecided
<1> QED
  BY <1>7, <1>8

\* No step reserves more for a user than was decided under the user's lock.
LEMMA StepsGrowAsDecided ==
    ASSUME Inv, Inv', Promises, [Next]_vars, NEW u \in Users, NEW k \in Scopes
    PROVE  GrowsAsDecided(u, k)
<1>1. ASSUME NoNewRows PROVE GrowsAsDecided(u, k)
  BY <1>1, NoNewRowsIsLess, LessIsLess DEF GrowsAsDecided, Inv
<1>2. ASSUME NEW h \in Handlers, Step(h) PROVE GrowsAsDecided(u, k)
  BY <1>1, <1>2, HandlerRows, InsertedAsDecided, OverwrittenAsDecided
<1>3. ASSUME NEW f \in Filesets, Release(f) PROVE NoNewRows
  BY <1>3, MovedIsNoNew DEF Release, Inv
<1>4. ASSUME NEW v \in Users, SetLimit(v) \/ ClearLimit(v) PROVE NoNewRows
  BY <1>4, SameRowsAreNoNew DEF SetLimit, ClearLimit, ChangeLimit
<1>5. Crash \/ UNCHANGED vars => NoNewRows
  BY SameRowsAreNoNew DEF Crash, vars
<1> QED
  BY <1>1, <1>2, <1>3, <1>4, <1>5 DEF Next

\* What the limits speak of, before and after a step.
LEMMA LimitedIsMine ==
    \A u : /\ Allocated(OwnedBy(u)) = Mine(u, Everywhere)
           /\ \A s \in Storages : Allocated(OwnedBy(u) \cap OnStorage(s)) = Mine(u, s)
BY EverywhereAssumption DEF Mine, Part

\* Whatever limits admins set meanwhile, and whoever crashes: a user gets past a limit
\* only by what a request was admitted for under the limit it found, with the user's
\* lock held, or by a resize decided by a size that is not reserved any more.
THEOREM NothingPastLimits == Spec => NeverPastLimits
<1>1. Init => Promises
  BY RestingType DEF Init, Promises, Promise
<1>2. Inv /\ Inv' /\ Promises /\ [Next]_vars => Promises'
  BY PromisesKept
<1>3. Inv /\ Inv' /\ Promises /\ [Next]_vars =>
        [\A u \in Users :
           /\ \A s \in Storages :
                LET mine == Allocated(OwnedBy(u) \cap OnStorage(s)) IN
                mine' > mine /\ mine' > LimitOn(u, s)
                  => StaleResize(u) \/ \E h \in Decided(u) : mine' <= request[h].own
           /\ LET mine == Allocated(OwnedBy(u)) IN
              mine' > mine /\ mine' > TotalOf(u)
                => StaleResize(u) \/ \E h \in Decided(u) : mine' <= request[h].total]_vars
  <2> SUFFICES ASSUME Inv, Inv', Promises, [Next]_vars, NEW u \in Users
               PROVE
           /\ \A s \in Storages :
                LET mine == Allocated(OwnedBy(u) \cap OnStorage(s)) IN
                mine' > mine /\ mine' > LimitOn(u, s)
                  => StaleResize(u) \/ \E h \in Decided(u) : mine' <= request[h].own
           /\ LET mine == Allocated(OwnedBy(u)) IN
              mine' > mine /\ mine' > TotalOf(u)
                => StaleResize(u) \/ \E h \in Decided(u) : mine' <= request[h].total
    OBVIOUS
  <2>1. \A k \in Scopes : GrowsAsDecided(u, k)
    BY StepsGrowAsDecided
  <2>2. /\ Allocated(OwnedBy(u)) = Mine(u, Everywhere)
        /\ \A s \in Storages : Allocated(OwnedBy(u) \cap OnStorage(s)) = Mine(u, s)
    BY LimitedIsMine
  <2>3. /\ Allocated(OwnedBy(u))' = Mine(u, Everywhere)'
        /\ \A s \in Storages : Allocated(OwnedBy(u) \cap OnStorage(s))' = Mine(u, s)'
    BY EverywhereAssumption DEF Mine, Part
  <2>4. ASSUME NEW s \in Storages,
               Allocated(OwnedBy(u) \cap OnStorage(s))' > Allocated(OwnedBy(u) \cap OnStorage(s))
        PROVE  \/ StaleResize(u)
               \/ \E h \in Decided(u) :
                    Allocated(OwnedBy(u) \cap OnStorage(s))' <= request[h].own
    <3>1. \A h \in Handlers : request[h].own \in Room(request[h], s)
      BY EverywhereAssumption DEF Room
    <3> QED
      BY <2>1, <2>2, <2>3, <2>4, <3>1 DEF GrowsAsDecided, Scopes, Decided
  <2>5. ASSUME Allocated(OwnedBy(u))' > Allocated(OwnedBy(u))
        PROVE  \/ StaleResize(u)
               \/ \E h \in Decided(u) : Allocated(OwnedBy(u))' <= request[h].total
    <3>1. \A h \in Handlers : request[h].total \in Room(request[h], Everywhere)
      BY DEF Room
    <3> QED
      BY <2>1, <2>2, <2>3, <2>5, <3>1 DEF GrowsAsDecided, Scopes, Decided
  <2> QED
    BY <2>4, <2>5
<1> QED
  BY <1>1, <1>2, <1>3, Invariant, PTL DEF Spec, NeverPastLimits

\* Nothing is reserved at first.
LEMMA NothingAtFirst == ASSUME Init, NEW u, NEW k PROVE Mine(u, k) = 0
<1>1. Part(u, k) = {}
  BY DEF Init, Part, OwnedBy, Live
<1>2. row \in [Filesets -> Row]
  BY InitInv DEF Inv, TypeOK
<1>3. Reserved(row, {}) = 0
  BY <1>2, ReservedIsSum, SumOfNone
<1> QED
  BY <1>1, <1>3, MineIsReserved

\* Without resizes nothing is decided by a size that is not there any more.
LEMMA NoResizes ==
    ASSUME "resize" \notin Ops
    PROVE  Spec => [](\A h \in Handlers : request[h].op # "resize")
<1> DEFINE None == \A h \in Handlers : request[h].op # "resize"
<1>1. Init => None
  BY RestingType DEF Init
<1>2. Inv /\ None /\ [Next]_vars => None'
  <2> SUFFICES ASSUME Inv, None, [Next]_vars PROVE None'
    OBVIOUS
  <2>1. ASSUME NEW h \in Handlers, Step(h) PROVE None'
    <3>1. \A g \in Handlers \ {h} : request'[g] = request[g]
      BY <2>1, HandlerRows
    <3>2. request'[h].op # "resize"
      <4>1. request \in [Handlers -> Request] /\ request[h].op # "resize"
        BY DEF Inv, TypeOK
      <4>2. ASSUME Done(h) PROVE request'[h].op # "resize"
        BY <4>1, <4>2, RestingType DEF Done
      <4>3. ASSUME NEW u, NEW s, NEW n, NEW size, CreateAdmit(h, u, s, n, size)
            PROVE  request'[h].op # "resize"
        BY <4>1, <4>3 DEF CreateAdmit, Resting
      <4>4. ASSUME NEW u, NEW s, NEW n, NEW size, WarmAdmit(h, u, s, n, size)
            PROVE  request'[h].op # "resize"
        BY <4>1, <4>4 DEF WarmAdmit, Resting
      <4>5. ASSUME NEW f, CreateReserve(h, f) PROVE request'[h].op # "resize"
        BY <4>1, <4>5 DEF CreateReserve, Request
      <4> QED
        BY <2>1, <4>1, <4>2, <4>3, <4>4, <4>5
           DEF Step, WarmReserve, CreateMade, CreateFails, ResizeRead, ResizeAdmit, At,
               ResizeCommit, ResizeFails
    <3> QED
      BY <3>1, <3>2
  <2>2. Crash => None'
    BY RestingType DEF Crash
  <2>3. request' = request => None'
    OBVIOUS
  <2> QED
    BY <2>1, <2>2, <2>3 DEF Next, Release, SetLimit, ClearLimit, ChangeLimit, vars
<1> QED
  BY <1>1, <1>2, Invariant, PTL DEF Spec

\* What is reserved is a number.
LEMMA MineIsNat == ASSUME TypeOK, NEW u, NEW k PROVE Mine(u, k) \in Nat
<1>1. row \in [Filesets -> Row] /\ Part(u, k) \in SUBSET Filesets
  BY PartsAreFilesets DEF TypeOK
<1>2. Reserved(row, Part(u, k)) \in Nat
  BY <1>1, ReservedByFewer
<1> QED
  BY <1>2, MineIsReserved

\* What stays within a bound that every admission is measured against.
LEMMA StaysWithin ==
    ASSUME Inv, Inv', Promises, [Next]_vars, \A h \in Handlers : request[h].op # "resize",
           NEW u \in Users, NEW k \in Scopes, NEW bound \in Nat, Mine(u, k) <= bound,
           \A h \in Handlers : request[h].at = "admitted" => bound \in Room(request[h], k)
    PROVE  Mine(u, k)' <= bound
<1>1. /\ Mine(u, k) \in Nat /\ Mine(u, k)' \in Nat
  <2>1. TypeOK /\ TypeOK'
    BY DEF Inv
  <2>2. row' \in [Filesets -> Row] /\ Part(u, k)' \in SUBSET Filesets
    BY <2>1 DEF TypeOK, Part, OwnedBy, OnStorage, Live
  <2>3. Reserved(row', Part(u, k)') \in Nat
    BY <2>2, ReservedByFewer
  <2> QED
    BY <2>1, <2>3, MineIsNat, MineIsReserved
<1>2. ~StaleResize(u)
  BY DEF StaleResize, At
<1>3. \A h \in Decided(u) : h \in Handlers /\ request[h].at = "admitted"
  BY DEF Decided
<1>4. GrowsAsDecided(u, k)
  BY StepsGrowAsDecided
<1>5. Mine(u, k)' > Mine(u, k) => Mine(u, k)' <= bound
  BY <1>2, <1>3, <1>4 DEF GrowsAsDecided
<1> QED
  BY <1>1, <1>5

\* A user who fills a cache alone, and resizes nothing, never reserves more of a storage
\* than it may be filled to: what over-commits one is that the lock is the user's while
\* the capacity is everybody's, and that a resize reads its row before the lock.
THEOREM CapacityAlone ==
    ASSUME Alone, "resize" \notin Ops PROVE Spec => []StorageWithinCapacity
<1> DEFINE None == \A h \in Handlers : request[h].op # "resize"
           Within == \A u \in Users, s \in Storages : Mine(u, s) <= Usable
<1>1. Init => Promises /\ Within
  BY RestingType, NothingAtFirst, LimitsAssumption DEF Init, Promises, Promise
<1>2. Inv /\ Inv' /\ Promises /\ None /\ Within /\ [Next]_vars => Promises' /\ Within'
  <2>1. \A s \in Storages, h \in Handlers : Usable \in Room(request[h], s)
    BY EverywhereAssumption DEF Room
  <2> QED
    BY <2>1, PromisesKept, StaysWithin, LimitsAssumption DEF Scopes
<1>3. Inv /\ Within => StorageWithinCapacity
  <2> SUFFICES ASSUME Inv, Within, NEW s \in Storages
               PROVE  Allocated(OnStorage(s)) <= Usable
    BY DEF StorageWithinCapacity
  <2>1. PICK u \in Users : TRUE
    BY SomeAssumption
  <2>2. OnStorage(s) = Part(u, s)
    BY EverywhereAssumption DEF Alone, Part, OnStorage, OwnedBy, Live, Inv, TypeOK, Row
  <2> QED
    BY <2>2 DEF Mine
<1>4. Spec => []None
  BY NoResizes
<1> QED
  BY <1>1, <1>2, <1>3, <1>4, Invariant, PTL DEF Spec

\* The limits in force are the configured ones, and so are those somebody is admitted
\* under.
Defaults ==
    /\ \A u \in Users, k \in Scopes : limit[u][k] = Unset
    /\ \A h \in Handlers : request[h].at = "admitted" => request[h].own = UserLimit

\* As long as no admin sets a limit it is the configured one that requests meet.
LEMMA DefaultsStay ==
    ASSUME "limit" \notin Ops PROVE Inv /\ Defaults /\ [Next]_vars => Defaults'
<1> SUFFICES ASSUME Inv, Defaults, [Next]_vars PROVE Defaults'
  OBVIOUS
<1>1. limit' = limit
  <2>1. ASSUME NEW u, NEW s, NEW n, NEW size, NEW h,
               CreateAdmit(h, u, s, n, size) \/ WarmAdmit(h, u, s, n, size)
        PROVE  limit' = limit
    BY <2>1 DEF CreateAdmit, WarmAdmit
  <2>2. \A f, h :
          CreateReserve(h, f) \/ WarmReserve(h, f) \/ ResizeRead(h, f) => limit' = limit
    BY DEF CreateReserve, WarmReserve, ResizeRead
  <2>3. \A size, h : ResizeAdmit(h, size) => limit' = limit
    BY DEF ResizeAdmit
  <2>4. \A h : CreateMade(h) \/ CreateFails(h) \/ ResizeCommit(h) \/ ResizeFails(h)
               => limit' = limit
    BY DEF CreateMade, CreateFails, ResizeCommit, ResizeFails
  <2>5. \A h : Step(h) => limit' = limit
    BY <2>1, <2>2, <2>3, <2>4 DEF Step
  <2> QED
    BY <2>5 DEF Next, vars, Release, SetLimit, ClearLimit, ChangeLimit, Crash
<1>2. request \in [Handlers -> Request]
  BY DEF Inv, TypeOK
<1>3. \A u \in Users, s \in Storages : LimitOn(u, s) = UserLimit
  BY DEF Defaults, LimitOn, Scopes
<1>4. ASSUME NEW h \in Handlers, Step(h), request'[h].at = "admitted"
      PROVE  request'[h].own = UserLimit
  <2>1. ASSUME Done(h) PROVE request'[h].at # "admitted"
    BY <1>2, <2>1, RestingType DEF Done
  <2>2. ASSUME NEW u \in Users, NEW s \in Storages, NEW n, NEW size,
               CreateAdmit(h, u, s, n, size)
        PROVE  request'[h].own = UserLimit
    BY <1>2, <1>3, <2>2 DEF CreateAdmit, Resting
  <2>3. ASSUME NEW u \in Users, NEW s \in Storages, NEW n, NEW size,
               WarmAdmit(h, u, s, n, size)
        PROVE  request'[h].own = UserLimit
    BY <1>2, <1>3, <2>3 DEF WarmAdmit, Resting
  <2>4. ASSUME NEW f, CreateReserve(h, f) \/ ResizeRead(h, f)
        PROVE  request'[h].at # "admitted"
    <3>1. CreateReserve(h, f) => request'[h].at = "making"
      BY <1>2 DEF CreateReserve, Request
    <3>2. ResizeRead(h, f) => request'[h].at = "read"
      BY <1>2 DEF ResizeRead, Resting
    <3> QED
      BY <2>4, <3>1, <3>2
  <2>5. ASSUME NEW size, ResizeAdmit(h, size) PROVE request'[h].own = UserLimit
    BY <1>2, <1>3, <2>5 DEF ResizeAdmit, Request
  <2> QED
    BY <1>4, <2>1, <2>2, <2>3, <2>4, <2>5
       DEF Step, WarmReserve, CreateMade, CreateFails, ResizeCommit, ResizeFails
<1>5. ASSUME NEW h \in Handlers, Step(h) PROVE Defaults'
  <2>1. \A g \in Handlers \ {h} : request'[g] = request[g]
    BY <1>5, HandlerRows
  <2> QED
    BY <1>1, <1>4, <1>5, <2>1 DEF Defaults
<1>6. CASE Crash
  BY <1>1, <1>6, RestingType DEF Crash, Defaults
<1>7. CASE request' = request
  BY <1>1, <1>7 DEF Defaults
<1> QED
  BY <1>5, <1>6, <1>7 DEF Next, Release, SetLimit, ClearLimit, ChangeLimit, vars

\* Without resizes and with the limits that are configured, no user has more of a
\* storage than the limit, however many requests are made at once.
THEOREM LimitAlwaysHolds ==
    ASSUME "resize" \notin Ops, "limit" \notin Ops PROVE Spec => []UserWithinLimit
<1> DEFINE None == \A h \in Handlers : request[h].op # "resize"
           Within == \A u \in Users, s \in Storages : Mine(u, s) <= UserLimit
<1>1. Init => Promises /\ Within /\ Defaults
  BY RestingType, NothingAtFirst, LimitsAssumption
     DEF Init, Promises, Promise, Defaults
<1>2. Inv /\ Inv' /\ Promises /\ None /\ Within /\ Defaults /\ [Next]_vars
        => Promises' /\ Within' /\ Defaults'
  <2>1. \A s \in Storages, h \in Handlers :
          Defaults /\ request[h].at = "admitted" => UserLimit \in Room(request[h], s)
    BY EverywhereAssumption DEF Room, Defaults
  <2> QED
    BY <2>1, PromisesKept, StaysWithin, DefaultsStay, LimitsAssumption DEF Scopes
<1>3. Within => UserWithinLimit
  BY LimitedIsMine DEF UserWithinLimit
<1>4. Spec => []None
  BY NoResizes
<1> QED
  BY <1>1, <1>2, <1>3, <1>4, Invariant, PTL DEF Spec

-----------------------------------------------------------------------------
(* Beside usage reconciliation.                                            *)

\* A request barred by a flag makes no step, any other makes one of Admission's.
LEMMA RequestSteps ==
    ASSUME NEW h \in Handlers,
           \/ Admitted(h) \/ Created(h) \/ Resized(h)
           \/ \E f \in Filesets : Warmed(h, f)
    PROVE  Next
<1>1. ASSUME Admitted(h) PROVE Next
  <2>1. PICK u \in Users, s \in Storages, size \in Sizes :
          \/ \E n \in OutputNames : CreateAdmit(h, u, s, n, size)
          \/ \E n \in CachedNames : WarmAdmit(h, u, s, n, size)
    BY <1>1 DEF Admitted
  <2> QED
    BY <2>1 DEF Next, Step
<1>2. ASSUME Created(h) PROVE Next
  BY <1>2 DEF Created, Next, Step
<1>3. ASSUME Resized(h) PROVE Next
  BY <1>3 DEF Resized, Next, Step
<1>4. ASSUME NEW f \in Filesets, Warmed(h, f) PROVE Next
  BY <1>4 DEF Warmed, Next, Step
<1> QED
  BY <1>1, <1>2, <1>3, <1>4

\* Passes, jobs and the ends of warms change no reservation.
LEMMA StepIsAdmission == UsageNext => [Next]_vars
<1> SUFFICES ASSUME UsageNext PROVE [Next]_vars
  OBVIOUS
<1>1. CASE \E h \in Handlers :
             \/ Admitted(h) \/ Created(h) \/ Resized(h)
             \/ \E f \in Filesets : Warmed(h, f)
  BY <1>1, RequestSteps
<1>2. CASE \E f \in Filesets : Released(f)
  BY <1>2 DEF Released, Next
<1>3. CASE \E f \in Filesets :
             \/ Prepared(f) \/ EndsUnprepared(f) \/ Filled(f)
             \/ \E amount \in Amounts : Write(f, amount)
  BY <1>3 DEF Prepared, EndsUnprepared, Filled, Write
<1>4. CASE \E s \in Storages : PassStep(s)
  BY <1>4 DEF PassStep, PassRead, Measure, PassRefused, PassWrite
<1> QED
  BY <1>1, <1>2, <1>3, <1>4 DEF UsageNext

\* Requests under the flag, passes and jobs carry out Admission: what is reserved
\* changes by its steps alone.
THEOREM Implements == UsageSpec => ImplementsAdmission
<1>1. UsageInit => Init
  BY DEF UsageInit
<1>2. [UsageNext]_allVars => [Next]_vars
  BY StepIsAdmission DEF allVars
<1> QED
  BY <1>1, <1>2, PTL DEF UsageSpec, ImplementsAdmission, Spec

\* No pass, flag, job or warm takes a user past the number of filesets, or gives the
\* name somebody was admitted under to another row.
THEOREM LimitsStay == UsageSpec => [](CountWithinLimit /\ AdmittedNameIsFree)
BY Implements, CountLimit, NameStaysFree, PTL DEF ImplementsAdmission

\* Nor does any of them leave a reservation behind that nobody is making.
THEOREM NothingLeftByUsage ==
    ASSUME "crash" \notin Ops PROVE UsageSpec => []NothingStaysReserved
BY Implements, NothingLeftReserved, PTL DEF ImplementsAdmission

\* And what any of them finds or frees takes nobody past a limit.
THEOREM NothingPastLimitsByUsage == UsageSpec => NeverPastLimits
BY Implements, NothingPastLimits, PTL DEF ImplementsAdmission

\* Whatever is measured, corrected and flagged belongs to a fileset there is.
THEOREM UsageTypes == UsageSpec => []UsageTypeOK
<1>1. UsageInit /\ TypeOK => UsageTypeOK
  BY DEF UsageInit, UsageTypeOK, NoPass
<1>2. TypeOK /\ TypeOK' /\ UsageTypeOK /\ [UsageNext]_allVars => UsageTypeOK'
  <2> SUFFICES ASSUME TypeOK, TypeOK', UsageTypeOK, [UsageNext]_allVars
               PROVE  UsageTypeOK'
    OBVIOUS
  <2> DEFINE PassOK(p) ==
               /\ p = [seen |-> p.seen, found |-> p.found]
               /\ DOMAIN p.found \subseteq DOMAIN p.seen /\ DOMAIN p.seen \subseteq Filesets
               /\ \A f \in DOMAIN p.seen : p.seen[f] \in Copy
               /\ \A f \in DOMAIN p.found : p.found[f] \in Nat
  <2>1. /\ \A s \in Storages : PassOK(pass[s])
        /\ DOMAIN pass = Storages
        /\ pass = [s \in Storages |-> pass[s]]
    BY DEF UsageTypeOK
  <2>2. ASSUME place' \in [Filesets -> {"none", "making", "filling", "made", "missing"}],
               disk' \in [Users \X Storages \X Names -> Nat],
               used' \in [Filesets -> Nat],
               over' \subseteq Filesets,
               \/ pass' = pass
               \/ \E s \in Storages : \E p : PassOK(p) /\ pass' = [pass EXCEPT ![s] = p]
        PROVE  UsageTypeOK'
    <3>1. /\ DOMAIN pass' = Storages
          /\ pass' = [s \in Storages |-> pass'[s]]
      BY <2>1, <2>2
    <3>2. \A s \in Storages : PassOK(pass'[s])
      BY <2>1, <2>2
    <3>3. pass' = [s \in Storages |-> [seen |-> pass'[s].seen, found |-> pass'[s].found]]
      BY <3>1, <3>2
    <3> QED
      BY <2>2, <3>2, <3>3 DEF UsageTypeOK
  <2>3. \A f \in Filesets : Directory(f) \in Users \X Storages \X Names
    BY DEF TypeOK, Row, Directory
  <2>4. PassOK(NoPass)
    BY DEF NoPass
  <2>5. CASE UNCHANGED <<disk, recordVars, pass>>
    <3>1. place' \in [Filesets -> {"none", "making", "filling", "made", "missing"}]
      BY <2>5 DEF UsageTypeOK, UsageNext, allVars, usageVars, recordVars, Admitted, Created,
                  Resized, Warmed, Prepared, EndsUnprepared, Filled, Released, Write,
                  PassStep, PassRead, Measure, PassRefused, PassWrite
    <3> QED
      BY <2>2, <2>5, <3>1 DEF UsageTypeOK, recordVars
  <2>6. ASSUME NEW f \in Filesets, Filled(f) \/ Released(f) \/ \E n \in Amounts : Write(f, n)
        PROVE  UsageTypeOK'
    <3>1. /\ place' \in [Filesets -> {"none", "making", "filling", "made", "missing"}]
          /\ over' = over /\ pass' = pass
      BY <2>6 DEF UsageTypeOK, Filled, Released, Write, recordVars
    <3>2. disk' \in [Users \X Storages \X Names -> Nat]
      BY <2>3, <2>6, AmountsAssumption DEF UsageTypeOK, Filled, Released, Write
    <3>3. used' \in [Filesets -> Nat]
      BY <2>6, AmountsAssumption DEF UsageTypeOK, Filled, Released, Write, recordVars
    <3> QED
      BY <2>2, <3>1, <3>2, <3>3 DEF UsageTypeOK
  <2>7. ASSUME NEW s \in Storages, PassStep(s) PROVE UsageTypeOK'
    <3> SUFFICES /\ used' \in [Filesets -> Nat]
                 /\ over' \subseteq Filesets
                 /\ \E p : PassOK(p) /\ pass' = [pass EXCEPT ![s] = p]
      <4>1. place' = place /\ disk' = disk
        BY <2>7 DEF PassStep, PassRead, Measure, PassRefused, PassWrite
      <4> QED
        BY <2>2, <4>1 DEF UsageTypeOK
    <3>1. CASE PassRead(s)
      <4> DEFINE seen == [f \in Measurable(s) |->
                            [allocated |-> row[f].allocated, used |-> used[f],
                             placed |-> place[f] # "missing"]]
                 p == [seen |-> seen, found |-> <<>>]
      <4>1. pass' = [pass EXCEPT ![s] = p]
        <5>1. pass' = [pass EXCEPT ![s] = [pass[s] EXCEPT !.seen = seen]]
          BY <2>1, <3>1 DEF PassRead
        <5>2. [NoPass EXCEPT !.seen = seen] = p
          BY DEF NoPass
        <5> QED
          BY <3>1, <5>1, <5>2 DEF PassRead
      <4>2. Measurable(s) \subseteq Filesets
        BY DEF Measurable, OnStorage, Live
      <4>3. \A f \in Measurable(s) : seen[f] \in Copy
        BY <4>2 DEF Copy, TypeOK, Row, UsageTypeOK
      <4>4. PassOK(p)
        BY <4>2, <4>3
      <4> QED
        BY <3>1, <4>1, <4>4 DEF PassRead, recordVars, UsageTypeOK
    <3>2. ASSUME NEW f \in Filesets, Measure(s, f)
          PROVE  /\ used' \in [Filesets -> Nat]
                 /\ over' \subseteq Filesets
                 /\ \E p : PassOK(p) /\ pass' = [pass EXCEPT ![s] = p]
      <4>1. PICK n \in {disk[Directory(f)]} \cup (IF "unreadable" \in Env THEN {0} ELSE {}) :
              pass' = [pass EXCEPT ![s].found =
                         [g \in DOMAIN @ \cup {f} |-> IF g = f THEN n ELSE @[g]]]
        BY <3>2 DEF Measure
      <4>2. n \in Nat
        BY <2>3 DEF UsageTypeOK
      <4> DEFINE found == [g \in DOMAIN pass[s].found \cup {f} |->
                             IF g = f THEN n ELSE pass[s].found[g]]
                 p == [seen |-> pass[s].seen, found |-> found]
      <4>3. pass' = [pass EXCEPT ![s] = p]
        <5>1. pass' = [pass EXCEPT ![s] = [pass[s] EXCEPT !.found = found]]
          BY <2>1, <4>1
        <5>2. \A q : q = [seen |-> q.seen, found |-> q.found] =>
                      [q EXCEPT !.found = found] = [seen |-> q.seen, found |-> found]
          OBVIOUS
        <5>3. [pass[s] EXCEPT !.found = found] = p
          BY <2>1, <5>2
        <5> QED
          BY <5>1, <5>3
      <4>4. f \in DOMAIN pass[s].seen
        BY <3>2 DEF Measure, Unmeasured
      <4>5. PassOK(p)
        BY <2>1, <4>2, <4>4
      <4> QED
        BY <3>2, <4>3, <4>5 DEF Measure, recordVars, UsageTypeOK
    <3>3. CASE PassRefused(s)
      BY <2>4, <3>3 DEF PassRefused, recordVars, UsageTypeOK
    <3>4. CASE PassWrite(s)
      <4>1. \A f \in DOMAIN pass[s].seen : pass[s].found[f] \in Nat
        BY <2>1, <3>4 DEF PassWrite, Unmeasured
      <4>2. used' \in [Filesets -> Nat]
        BY <3>4, <4>1 DEF PassWrite, Corrected, UsageTypeOK
      <4>3. over' \subseteq Filesets
        BY <2>1, <3>4 DEF PassWrite, Flagged, UsageTypeOK
      <4> QED
        BY <2>4, <3>4, <4>2, <4>3 DEF PassWrite
    <3> QED
      BY <2>7, <3>1, <3>2, <3>3, <3>4 DEF PassStep
  <2>8. [UsageNext]_allVars =>
          \/ UNCHANGED <<disk, recordVars, pass>>
          \/ \E f \in Filesets : Filled(f) \/ Released(f) \/ \E n \in Amounts : Write(f, n)
          \/ \E s \in Storages : PassStep(s)
    BY DEF UsageNext, allVars, usageVars, Admitted, Created, Resized, Warmed, Prepared,
           EndsUnprepared
  <2> QED
    BY <2>5, <2>6, <2>7, <2>8
<1>3. UsageSpec => []TypeOK
  BY Implements, TypeCorrect, PTL DEF ImplementsAdmission
<1> QED
  BY <1>1, <1>2, <1>3, PTL DEF UsageSpec
=============================================================================
