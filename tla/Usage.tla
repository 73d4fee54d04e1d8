-------------------------------- MODULE Usage ---------------------------------
(***************************************************************************)
(* Usage reconciliation, beside the admission it bars.                     *)
(*                                                                         *)
(* POSIX storage cannot keep a job within what its fileset reserved.  Once *)
(* in a while the controller reads the filesets of a storage, has a daemon *)
(* measure them one after the other, and writes what it was told; it flags *)
(* a fileset that held more than the reservation it had read, and a flag   *)
(* bars its owner from reserving more.  Requests, jobs and releases go on  *)
(* all the while: a pass writes by copies.                                 *)
(*                                                                         *)
(* Reserving is what Admission says it is, but for a crash.  A pass that   *)
(* gets no answer, or whose controller stops, leaves nothing behind: it is *)
(* as if there had been none.  Every size may be asked for in a resize,    *)
(* since an admin may force one below what is used.                        *)
(***************************************************************************)
EXTENDS Admission

CONSTANTS
    Amounts,        \* what a directory may hold
    Env             \* what the surroundings may do: see AllEnv

AllEnv ==
    {"unprepared",    \* a directory cannot be made for a warm that is committed
     "unreadable"}    \* du fails, for whatever reason

ASSUME AmountsAssumption == 0 \in Amounts /\ Amounts \subseteq Nat
ASSUME EnvAssumption == Env \subseteq AllEnv

VARIABLES
    place,      \* Filesets -> what became of the fileset's directory
    disk,       \* directories -> what is in them
    used,       \* Filesets -> used_bytes on record
    over,       \* the filesets flagged over_allocation
    pass        \* Storages -> the pass under way: rows as read, and the answers

recordVars == <<used, over>>
usageVars == <<place, disk, recordVars, pass>>
allVars == <<vars, usageVars>>

\* Nothing is being measured.
NoPass == [seen |-> <<>>, found |-> <<>>]

\* What a pass has read of a row; a fileset without a path is placed nowhere.
Copy == [allocated: Nat, used: Nat, placed: BOOLEAN]

UsageTypeOK ==
    /\ TypeOK
    /\ place \in [Filesets -> {"none", "making", "filling", "made", "missing"}]
    /\ disk \in [Users \X Storages \X Names -> Nat]
    /\ used \in [Filesets -> Nat]
    /\ over \subseteq Filesets
    /\ pass = [s \in Storages |-> [seen |-> pass[s].seen, found |-> pass[s].found]]
    /\ \A s \in Storages :
         LET p == pass[s] IN
         /\ DOMAIN p.found \subseteq DOMAIN p.seen /\ DOMAIN p.seen \subseteq Filesets
         /\ \A f \in DOMAIN p.seen : p.seen[f] \in Copy
         /\ \A f \in DOMAIN p.found : p.found[f] \in Nat

UsageInit ==
    /\ Init
    /\ place = [f \in Filesets |-> "none"]
    /\ disk = [d \in Users \X Storages \X Names |-> 0]
    /\ used = [f \in Filesets |-> 0]
    /\ over = {}
    /\ pass = [s \in Storages |-> NoPass]

\* A fileset's directory goes by its owner and its name, not by its row.
Directory(f) == <<row[f].user, row[f].storage, row[f].name>>

-----------------------------------------------------------------------------
(* Requests, under the second rule of admission.                           *)

Barred(u) == OwnedBy(u) \cap over # {}

Admitted(h) ==
    /\ \E u \in Users, s \in Storages, size \in Sizes :
         \/ \E n \in OutputNames : CreateAdmit(h, u, s, n, size) /\ ~Barred(u)
         \/ \E n \in CachedNames :
              /\ WarmAdmit(h, u, s, n, size)
              /\ size > request'[h].seen => ~Barred(u)
    /\ UNCHANGED usageVars

Resized(h) ==
    /\ \/ \E f \in Filesets : ResizeRead(h, f)
       \/ \E size \in Sizes :
            /\ ResizeAdmit(h, size)
            /\ size > request[h].seen => ~Barred(request[h].user)
       \/ ResizeCommit(h) \/ ResizeFails(h)
    /\ UNCHANGED usageVars

Created(h) ==
    \/ \E f \in Filesets : CreateReserve(h, f) /\ UNCHANGED usageVars
    \/ CreateFails(h) /\ UNCHANGED usageVars
    \/ /\ CreateMade(h)
       /\ place' = [place EXCEPT ![request[h].f] = "made"]
       /\ UNCHANGED <<disk, recordVars, pass>>

\* The row of a new fileset is CREATING until its directory has been made.
Warmed(h, f) ==
    /\ WarmReserve(h, f)
    /\ place' = [place EXCEPT ![f] = IF row[f].state = "none" THEN "making" ELSE @]
    /\ UNCHANGED <<disk, recordVars, pass>>

\* The directory is there, made now or before, and its path on record.
Prepared(f) ==
    /\ row[f].state = "held" /\ row[f].kind = "cached"
    /\ place[f] \in {"making", "made", "missing"}
    /\ place' = [place EXCEPT ![f] = "filling"]
    /\ UNCHANGED <<vars, disk, recordVars, pass>>

\* The transfer of a warm that was never prepared is carried out all the same, and
\* its end moves the row on: READY or FAILED, with no path on record.
EndsUnprepared(f) ==
    /\ "unprepared" \in Env
    /\ place[f] = "making"
    /\ place' = [place EXCEPT ![f] = "missing"]
    /\ UNCHANGED <<vars, disk, recordVars, pass>>

\* A warm that ends well records what it moved, which may be less than what is there.
Filled(f) ==
    /\ place[f] = "filling"
    /\ place' = [place EXCEPT ![f] = "made"]
    /\ \E n \in Amounts \cup {used[f]} :
         /\ n <= disk[Directory(f)] \/ n = used[f]
         /\ used' = [used EXCEPT ![f] = n]
    /\ UNCHANGED <<vars, disk, over, pass>>

\* The directory is deleted first; without a path the driver refuses.
Released(f) ==
    /\ place[f] = "made"
    /\ Release(f)
    /\ place' = [place EXCEPT ![f] = "none"]
    /\ disk' = [disk EXCEPT ![Directory(f)] = 0]
    /\ UNCHANGED <<recordVars, pass>>

\* A job, or a transfer, writes and deletes as it likes.
Write(f, amount) ==
    /\ place[f] \in {"filling", "made"}
    /\ disk' = [disk EXCEPT ![Directory(f)] = amount]
    /\ UNCHANGED <<vars, place, recordVars, pass>>

-----------------------------------------------------------------------------
(* A pass over one storage.                                                *)

\* Whatever is neither RELEASED nor CREATING.
Measurable(s) == {f \in OnStorage(s) : row[f].state = "held" /\ place[f] # "making"}

PassRead(s) ==
    /\ pass[s] = NoPass
    /\ Measurable(s) # {}
    /\ pass' = [pass EXCEPT ![s].seen =
                  [f \in Measurable(s) |->
                     [allocated |-> row[f].allocated, used |-> used[f],
                      placed |-> place[f] # "missing"]]]
    /\ UNCHANGED <<vars, place, disk, recordVars>>

Unmeasured(s) == DOMAIN pass[s].seen \ DOMAIN pass[s].found

\* A directory that is not there holds nothing, and neither does one du fails on.
Measure(s, f) ==
    /\ f \in Unmeasured(s)
    /\ pass[s].seen[f].placed
    /\ \E n \in {disk[Directory(f)]} \cup (IF "unreadable" \in Env THEN {0} ELSE {}) :
         pass' = [pass EXCEPT ![s].found =
                    [g \in DOMAIN @ \cup {f} |-> IF g = f THEN n ELSE @[g]]]
    /\ UNCHANGED <<vars, place, disk, recordVars>>

\* A path that is not the fileset's is refused, and the request with it: nothing
\* that was measured is told.
PassRefused(s) ==
    /\ \E f \in Unmeasured(s) : ~pass[s].seen[f].placed
    /\ pass' = [pass EXCEPT ![s] = NoPass]
    /\ UNCHANGED <<vars, place, disk, recordVars>>

\* Mutant: a record only grows.
CorrectedUp(p, f) ==
    IF p.found[f] > p.seen[f].used THEN p.found[f] ELSE used[f]

\* A column is written only if it differs from what was read.
Corrected(p, f) ==
    IF p.found[f] # p.seen[f].used THEN p.found[f] ELSE used[f]

\* Mutant: only a record that was corrected is looked at.
FlaggedCorrected(p) ==
    {f \in DOMAIN p.seen :
       p.found[f] # p.seen[f].used /\ p.found[f] > p.seen[f].allocated}

Flagged(p) == {f \in DOMAIN p.seen : p.found[f] > p.seen[f].allocated}

PassWrite(s) ==
    LET p == pass[s] IN
    /\ p # NoPass
    /\ Unmeasured(s) = {}
    /\ used' = [f \in Filesets |->
                  IF f \in DOMAIN p.seen THEN Corrected(p, f) ELSE used[f]]
    /\ over' = (over \ DOMAIN p.seen) \cup Flagged(p)
    /\ pass' = [pass EXCEPT ![s] = NoPass]
    /\ UNCHANGED <<vars, place, disk>>

PassStep(s) ==
    \/ PassRead(s)
    \/ \E f \in Filesets : Measure(s, f)
    \/ PassRefused(s)
    \/ PassWrite(s)

UsageNext ==
    \/ \E h \in Handlers :
         \/ Admitted(h) \/ Created(h) \/ Resized(h)
         \/ \E f \in Filesets : Warmed(h, f)
    \/ \E f \in Filesets :
         \/ Prepared(f) \/ EndsUnprepared(f) \/ Filled(f) \/ Released(f)
         \/ \E amount \in Amounts : Write(f, amount)
    \/ \E s \in Storages : PassStep(s)

UsageSpec == UsageInit /\ [][UsageNext]_allVars

\* Passes follow one another, and are answered some day (api/app.py _usage_loop).
UsageFairSpec == UsageSpec /\ \A s \in Storages : WF_allVars(PassStep(s))

-----------------------------------------------------------------------------
(* Properties.                                                             *)

\* No fileset of the storage lacks its path: with one, nothing is measured.
AllPlaced(s) == \A f \in OnStorage(s) : place[f] # "missing"

Kept(f, s) == f \in Measurable(s) /\ AllPlaced(s)

Overrun(f) == disk[Directory(f)] > row[f].allocated

\* What a fileset goes on holding gets on record, whatever jobs, warms, resizes and
\* releases do to it and to others meanwhile (services/usage.py reconcile_storage).
RecordsFollow ==
    \A f \in Filesets, s \in Storages, n \in Amounts :
      <>[](Kept(f, s) /\ disk[Directory(f)] = n) => []<>(used[f] = n)

\* A fileset that stays past a reservation nobody changes any more is flagged and
\* stays so, and one that stays within it is cleared for good, however its jobs write
\* and whatever passes were misled before (services/usage.py reconcile_storage).
FlagsFollow ==
    \A f \in Filesets, s \in Storages, size \in Sizes :
      LET Settled == Kept(f, s) /\ row[f].allocated = size IN
      /\ <>[](Settled /\ Overrun(f)) => <>[](f \in over)
      /\ <>[](Settled /\ ~Overrun(f)) => <>[](f \notin over)

\* Measuring keeps to its columns: what is reserved, and by whom, changes by the
\* steps of Admission alone, so that what is proved of those holds here.
ImplementsAdmission == Spec

\* Every fileset of a storage is measured again and again, whatever has become of
\* the others on it.  (The code breaks it when one of them has no path.)
EveryFilesetIsMeasured ==
    \A f \in Filesets, s \in Storages, n \in Amounts :
      <>[](f \in Measurable(s) /\ place[f] # "missing" /\ disk[Directory(f)] = n)
        => []<>(used[f] = n)

\* A fileset is flagged only while it holds more than it has reserved.  (The code
\* flags by the reservation read before it measured: one that grew meanwhile is
\* flagged for what its new reservation allows.)
FlaggedIsOverrun ==
    [][\A f \in over' \ over : used'[f] > row'[f].allocated]_allVars
=============================================================================
