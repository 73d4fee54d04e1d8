---------------------------- MODULE Distribution -----------------------------
(***************************************************************************)
(* How the cluster config travels: an operator writes a file, the          *)
(* controller loads it at its start or on SIGHUP, and every storage daemon *)
(* fetches it when it starts and again and again, keeps a copy on its own  *)
(* disk, and tells the controller which revision it is on.                 *)
(*                                                                         *)
(* A document is a revision and a text; two documents have the same hash   *)
(* when they are equal.  Of what a text says only two things matter here:  *)
(* whether it validates, and how many transfers it lets a storage run.     *)
(* The copy on disk is truncated and then written, so a daemon that stops  *)
(* in between leaves a torn file.  Whether a daemon calls itself degraded  *)
(* is only reported, never read, and is left out.                          *)
(***************************************************************************)
EXTENDS Integers

CONSTANTS
    Daemons,        \* storage daemons
    Texts,          \* what the file may say besides its revision
    Sound,          \* the texts that validate
    PerStorage,     \* Texts -> limits.concurrency.per_storage
    PoolSize,       \* worker_pool_size of every daemon
    MaxRevision,    \* highest revision an operator writes (a bound)
    NoDocument,     \* stands for a document that is not there
    Torn,           \* stands for a cache file that does not parse
    Env,            \* what the surroundings may do: see AllEnv
    MaxStops        \* bound: how often a process stops

AllEnv ==
    {"unreachable",         \* a call to the controller fails though it runs
     "daemon_stop",
     "controller_restart",
     "start_anyhow",        \* ... on a file that a reload would refuse
     "disk_full"}           \* the cache cannot be written

Revisions == 1 .. MaxRevision

Documents == [rev: Revisions, text: Texts]

ASSUME SoundAssumption == Sound \subseteq Texts
ASSUME PerStorageAssumption == PerStorage \in [Texts -> Nat] /\ PoolSize \in Nat
ASSUME MaxRevisionAssumption == MaxRevision \in Nat \ {0}
ASSUME NoDocumentAssumption ==
    NoDocument \notin Documents /\ Torn \notin Documents /\ NoDocument # Torn
ASSUME EnvAssumption == Env \subseteq AllEnv
ASSUME MaxStopsAssumption == MaxStops \in Nat

VARIABLES
    file,           \* the file the operator edits
    serving,        \* is the controller up
    running,        \* the document the controller checks against and serves
    wired,          \* the document its clients to daemons were built from
    at,             \* Daemons -> where the daemon is in its start or its refresh loop
    held,           \* Daemons -> the document it works by
    got,            \* Daemons -> the document it is writing to its cache
    cache,          \* Daemons -> the file on its disk
    recorded,       \* Daemons -> config_revision of its row, 0 without a row
    stops           \* processes stopped so far

controllerVars == <<file, serving, running, wired>>
daemonVars == <<at, held, got, cache>>
vars == <<controllerVars, daemonVars, recorded, stops>>

Stages == {"down", "starting", "idle", "refreshing", "announcing", "stuck"}

TypeOK ==
    /\ file \in Documents
    /\ serving \in BOOLEAN
    /\ running \in Documents
    /\ wired \in Documents
    /\ at \in [Daemons -> Stages]
    /\ held \in [Daemons -> Documents \cup {NoDocument}]
    /\ got \in [Daemons -> Documents \cup {NoDocument}]
    /\ cache \in [Daemons -> Documents \cup {NoDocument, Torn}]
    /\ recorded \in [Daemons -> Nat]
    /\ stops \in Nat
    /\ \A d \in Daemons :
         /\ at[d] \in {"idle", "refreshing", "announcing", "stuck"} => held[d] \in Documents
         /\ at[d] \in {"starting", "refreshing"} => got[d] \in Documents

\* What the controller asks of its file, and a daemon of what it is served or has kept.
Validates(doc) == doc \in Documents /\ doc.text \in Sound

Init ==
    /\ file \in {doc \in Documents : Validates(doc)}
    /\ serving = TRUE
    /\ running = file
    /\ wired = file
    /\ at = [d \in Daemons |-> "down"]
    /\ held = [d \in Daemons |-> NoDocument]
    /\ got = [d \in Daemons |-> NoDocument]
    /\ cache = [d \in Daemons |-> NoDocument]
    /\ recorded = [d \in Daemons |-> 0]
    /\ stops = 0

-----------------------------------------------------------------------------
(* The operator and the controller.                                        *)

Author(doc) ==
    /\ file' = doc
    /\ UNCHANGED <<serving, running, wired, daemonVars, recorded, stops>>

\* Mutant: any change of the file is taken.
ReloadableChanged(doc) == Validates(doc) /\ doc # running

\* A file that does not validate, or whose revision is not above the running one,
\* is refused whole.
Reloadable(doc) == Validates(doc) /\ doc.rev > running.rev

\* SIGHUP.  The clients built at the start keep the document they were given.
Reload ==
    /\ serving
    /\ Reloadable(file)
    /\ running' = file
    /\ UNCHANGED <<file, serving, wired, daemonVars, recorded, stops>>

ControllerStop ==
    /\ "controller_restart" \in Env
    /\ serving
    /\ stops < MaxStops
    /\ serving' = FALSE
    /\ stops' = stops + 1
    /\ UNCHANGED <<file, running, wired, daemonVars, recorded>>

\* A start takes any file that validates, whatever ran before it.
ControllerStart ==
    /\ ~serving
    /\ Validates(file)
    /\ "start_anyhow" \in Env \/ file = running \/ Reloadable(file)
    /\ serving' = TRUE
    /\ running' = file
    /\ wired' = file
    /\ UNCHANGED <<file, daemonVars, recorded, stops>>

-----------------------------------------------------------------------------
(* A storage daemon.                                                       *)

Failing == ~serving \/ "unreachable" \in Env

\* The pool must hold what the cluster may dispatch: looked at when a daemon starts.
Fits(doc) == PerStorage[doc.text] <= PoolSize

\* The answer is in memory, and the cache is truncated to write it.
Receive(d, stage) ==
    /\ serving
    /\ Validates(running)
    /\ at' = [at EXCEPT ![d] = stage]
    /\ got' = [got EXCEPT ![d] = running]
    /\ cache' = [cache EXCEPT ![d] = Torn]
    /\ UNCHANGED <<controllerVars, held, recorded, stops>>

StartFetched(d) == at[d] = "down" /\ Receive(d, "starting")

Started(d) ==
    /\ at[d] = "starting"
    /\ cache' = [cache EXCEPT ![d] = got[d]]
    /\ at' = [at EXCEPT ![d] = IF Fits(got[d]) THEN "announcing" ELSE "down"]
    /\ held' = [held EXCEPT ![d] = IF Fits(got[d]) THEN got[d] ELSE NoDocument]
    /\ got' = [got EXCEPT ![d] = NoDocument]
    /\ UNCHANGED <<controllerVars, recorded, stops>>

\* Without a copy that validates, the daemon refuses to start.
StartCached(d) ==
    /\ at[d] = "down"
    /\ Failing
    /\ Validates(cache[d])
    /\ Fits(cache[d])
    /\ at' = [at EXCEPT ![d] = "announcing"]
    /\ held' = [held EXCEPT ![d] = cache[d]]
    /\ UNCHANGED <<controllerVars, got, cache, recorded, stops>>

RefreshFetched(d) == at[d] = "idle" /\ running # held[d] /\ Receive(d, "refreshing")

\* The same document, or none that will do: there is nothing to take.
RefreshKept(d) ==
    /\ at[d] = "idle"
    /\ Failing \/ running = held[d] \/ ~Validates(running)
    /\ at' = [at EXCEPT ![d] = "announcing"]
    /\ UNCHANGED <<controllerVars, held, got, cache, recorded, stops>>

\* Mutant: the new document goes to the disk alone.
RefreshedOnDisk(d) ==
    /\ at[d] = "refreshing"
    /\ cache' = [cache EXCEPT ![d] = got[d]]
    /\ got' = [got EXCEPT ![d] = NoDocument]
    /\ at' = [at EXCEPT ![d] = "announcing"]
    /\ UNCHANGED <<controllerVars, held, recorded, stops>>

Refreshed(d) ==
    /\ at[d] = "refreshing"
    /\ cache' = [cache EXCEPT ![d] = got[d]]
    /\ held' = [held EXCEPT ![d] = got[d]]
    /\ got' = [got EXCEPT ![d] = NoDocument]
    /\ at' = [at EXCEPT ![d] = "announcing"]
    /\ UNCHANGED <<controllerVars, recorded, stops>>

\* Nothing catches the error: a start ends, and a refresh loop is over for good.
WriteFails(d) ==
    /\ "disk_full" \in Env
    /\ at[d] \in {"starting", "refreshing"}
    /\ at' = [at EXCEPT ![d] = IF at[d] = "starting" THEN "down" ELSE "stuck"]
    /\ got' = [got EXCEPT ![d] = NoDocument]
    /\ UNCHANGED <<controllerVars, held, cache, recorded, stops>>

\* Mutant: the row gets the revision the controller is on.
AnnouncedCurrent(d) ==
    /\ at[d] = "announcing"
    /\ serving
    /\ recorded' = [recorded EXCEPT ![d] = running.rev]
    /\ at' = [at EXCEPT ![d] = "idle"]
    /\ UNCHANGED <<controllerVars, held, got, cache, stops>>

Announced(d) ==
    /\ at[d] = "announcing"
    /\ serving
    /\ recorded' = [recorded EXCEPT ![d] = held[d].rev]
    /\ at' = [at EXCEPT ![d] = "idle"]
    /\ UNCHANGED <<controllerVars, held, got, cache, stops>>

\* Lost, or refused because the daemon or a storage of its is not in the config.
AnnounceFails(d) ==
    /\ at[d] = "announcing"
    /\ Failing
    /\ at' = [at EXCEPT ![d] = "idle"]
    /\ UNCHANGED <<controllerVars, held, got, cache, recorded, stops>>

DaemonStop(d) ==
    /\ "daemon_stop" \in Env
    /\ at[d] # "down"
    /\ stops < MaxStops
    /\ stops' = stops + 1
    /\ at' = [at EXCEPT ![d] = "down"]
    /\ held' = [held EXCEPT ![d] = NoDocument]
    /\ got' = [got EXCEPT ![d] = NoDocument]
    /\ UNCHANGED <<controllerVars, cache, recorded>>

-----------------------------------------------------------------------------
ControllerStep ==
    \/ \E doc \in Documents : Author(doc)
    \/ Reload
    \/ ControllerStop \/ ControllerStart

DaemonStep(d) ==
    \/ StartFetched(d) \/ StartCached(d) \/ Started(d)
    \/ RefreshFetched(d) \/ RefreshKept(d) \/ Refreshed(d)
    \/ WriteFails(d)
    \/ Announced(d) \/ AnnounceFails(d)
    \/ DaemonStop(d)

Next == ControllerStep \/ \E d \in Daemons : DaemonStep(d)

Spec == Init /\ [][Next]_vars

(***************************************************************************)
(* A daemon that runs goes round its loop, and one that keeps asking is    *)
(* answered now and then.  Nobody need write a file or start a daemon.     *)
(***************************************************************************)
Fairness ==
    \A d \in Daemons :
      /\ WF_vars(Started(d) \/ Refreshed(d))
      /\ WF_vars(Announced(d) \/ AnnounceFails(d))
      /\ SF_vars(RefreshFetched(d))

FairSpec == Spec /\ Fairness

-----------------------------------------------------------------------------
(* Properties.                                                             *)

Works(d) == at[d] \in {"idle", "refreshing", "announcing", "stuck"}

\* A config that does not validate is never worked by and never kept, wherever it
\* came from: not from the file, not from the controller, not from the disk.
OnlySound ==
    \A d \in Daemons :
      /\ Works(d) => held[d].text \in Sound
      /\ cache[d] \notin {NoDocument, Torn} => cache[d].text \in Sound

\* A revision tells documents apart: who works by the controller's revision works by
\* the controller's document.
RevisionIdentifies ==
    \A d \in Daemons : Works(d) /\ held[d].rev = running.rev => held[d] = running

\* The controller never believes a daemon to be on a later revision than it is, not
\* even one that has started again from its own disk.
RecordedIsHeld == \A d \in Daemons : Works(d) => recorded[d] <= held[d].rev

\* A daemon that runs never goes back to an earlier revision.
NeverBackwards ==
    [][\A d \in Daemons : Works(d) /\ Works(d)' => held'[d].rev >= held[d].rev]_held

\* A revision the controller runs reaches every daemon that works, or a later one does,
\* while the controller is up: unless a cache could not be written, which ends the loop.
DaemonsCatchUp ==
    \A d \in Daemons, r \in Revisions :
      (Works(d) /\ running.rev >= r)
        ~> (~Works(d) \/ held[d].rev >= r \/ ~serving \/ at[d] = "stuck")

\* A daemon asks again after whatever went wrong.
LoopsGoOn == \A d \in Daemons : at[d] # "stuck"

\* A daemon that has worked before can start without the controller.
StartsFromCache ==
    \A d \in Daemons : at[d] = "down" /\ recorded[d] # 0 => cache[d] \in Documents

\* The scheduler plans by the document its clients reach the daemons with.
ClientsFollow == serving => wired = running

\* A daemon can run what the config it works by may dispatch to it.
PoolSuffices == \A d \in Daemons : Works(d) => Fits(held[d])
=============================================================================
