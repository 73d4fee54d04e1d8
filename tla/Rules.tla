------------------------------- MODULE Rules --------------------------------
(***************************************************************************)
(* The rules of stashd's domain layer: which states a transfer and a       *)
(* fileset may move between, which daemon events are stale, and which      *)
(* failures are retried.  Everything that changes a row goes through these *)
(* tables; asking for a move they lack raises, and nothing is committed.   *)
(***************************************************************************)
EXTENDS Integers

TransferKinds == {"warm", "flush", "release"}

TransferStates ==
    {"SUBMITTED", "ASSIGNED", "RUNNING", "SUCCEEDED", "FAILED", "CANCELLED"}

Terminal == {"SUCCEEDED", "FAILED", "CANCELLED"}

InFlight == {"ASSIGNED", "RUNNING"}

\* Where a transfer in each state may go (domain/transfers.py _TRANSITIONS).
TransferMoves ==
    [SUBMITTED |-> {"ASSIGNED", "FAILED", "CANCELLED"},
     ASSIGNED  |-> {"RUNNING", "SUBMITTED", "FAILED", "CANCELLED"},
     RUNNING   |-> {"SUCCEEDED", "FAILED", "CANCELLED"},
     FAILED    |-> {"SUBMITTED"},
     SUCCEEDED |-> {},
     CANCELLED |-> {}]

\* How far a transfer has come: an event may never take it back.
Rank ==
    [SUBMITTED |-> 0, ASSIGNED |-> 1, RUNNING |-> 2,
     SUCCEEDED |-> 3, FAILED |-> 3, CANCELLED |-> 3]

IsBackwards(current, target) == Rank[target] <= Rank[current]

CanCancel(state) == state \notin Terminal

FilesetStates ==
    {"CREATING", "READY", "POPULATING", "FLUSHING", "RELEASING", "RELEASED",
     "FAILED"}

\* Mutant: a fileset being filled may be flushed and released.
FilesetMovesBusy ==
    [CREATING   |-> {"READY", "FAILED"},
     READY      |-> {"POPULATING", "FLUSHING", "RELEASING", "FAILED"},
     POPULATING |-> {"READY", "FAILED", "FLUSHING", "RELEASING"},
     FLUSHING   |-> {"READY", "FAILED"},
     RELEASING  |-> {"RELEASED", "FAILED"},
     FAILED     |-> {"POPULATING", "FLUSHING", "RELEASING"},
     RELEASED   |-> {}]

\* Where a fileset in each state may go (domain/filesets.py _TRANSITIONS).
FilesetMoves ==
    [CREATING   |-> {"READY", "FAILED"},
     READY      |-> {"POPULATING", "FLUSHING", "RELEASING", "FAILED"},
     POPULATING |-> {"READY", "FAILED"},
     FLUSHING   |-> {"READY", "FAILED"},
     RELEASING  |-> {"RELEASED", "FAILED"},
     FAILED     |-> {"POPULATING", "FLUSHING", "RELEASING"},
     RELEASED   |-> {}]

\* Mutant: a released fileset is taken for one that is held.
HoldsAllocationAlways(state) == state \in FilesetStates

HoldsAllocation(state) == state # "RELEASED"

FailureClasses ==
    {"permission_denied", "source_missing", "target_missing", "no_space",
     "quota_exceeded", "network", "timeout", "cancelled",
     "daemon_unreachable", "daemon_shutdown", "tool_error", "internal"}

NeverRetried ==
    {"permission_denied", "quota_exceeded", "source_missing", "cancelled"}

\* Mutant: one attempt too many.
ShouldRetryOnceMore(failure, attempt, count, retryOn) ==
    failure \notin NeverRetried /\ failure \in retryOn /\ attempt <= count + 1

\* attempt counts from 1, so a transfer is tried at most count + 1 times.
ShouldRetry(failure, attempt, count, retryOn) ==
    /\ failure \notin NeverRetried
    /\ failure \in retryOn
    /\ attempt <= count

\* The state an event asks for (services/events.py _TARGET_STATE).
TargetState ==
    [started |-> "RUNNING", progress |-> "RUNNING",
     finished |-> "SUCCEEDED", failed |-> "FAILED"]
=============================================================================
