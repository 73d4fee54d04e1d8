------------------------- MODULE DistributionProofs --------------------------
(***************************************************************************)
(* Safety of Distribution for every set of daemons and every config text.  *)
(*                                                                         *)
(* That only sound documents are worked by needs no assumption.  That      *)
(* revisions identify documents, that daemons never go back and that their *)
(* rows never run ahead hold while the controller is started on files only *)
(* that it would also reload: a start itself takes any that validates.     *)
(* The inductive invariant follows each document from the controller over  *)
(* the wire and the disk to the daemon: wherever one is, the controller is *)
(* at least as far, and whoever is as far as the controller has its        *)
(* document.                                                               *)
(***************************************************************************)
EXTENDS Distribution, TLAPS

USE SoundAssumption, PerStorageAssumption, MaxRevisionAssumption,
    NoDocumentAssumption, MaxStopsAssumption

-----------------------------------------------------------------------------
(* Every document in use validates.                                        *)

\* The documents of the controller and of every daemon validate.
SoundInv ==
    /\ TypeOK
    /\ running.text \in Sound
    /\ \A d \in Daemons :
         /\ Works(d) => held[d].text \in Sound
         /\ at[d] \in {"starting", "refreshing"} => got[d].text \in Sound
         /\ cache[d] \in Documents => cache[d].text \in Sound

\* Before anything runs there is only the file, which the controller has validated.
LEMMA SoundInit == Init => SoundInv
BY DEF Init, SoundInv, TypeOK, Stages, Works, Validates, Documents, Revisions

\* A step of the operator or the controller keeps every document sound.
LEMMA SoundController ==
    ASSUME SoundInv, ControllerStep
    PROVE  SoundInv'
<1> USE DEF SoundInv, TypeOK, Works, Validates
<1>1. ASSUME NEW doc \in Documents, Author(doc) PROVE SoundInv'
  BY <1>1 DEF Author, daemonVars
<1>2. CASE Reload
  BY <1>2 DEF Reload, Reloadable, daemonVars
<1>3. CASE ControllerStop
  <2>1. stops' \in Nat
    BY <1>3 DEF ControllerStop
  <2>2. serving' = FALSE /\ UNCHANGED <<file, running, wired, daemonVars, recorded>>
    BY <1>3 DEF ControllerStop
  <2> QED
    BY <2>1, <2>2 DEF daemonVars
<1>4. CASE ControllerStart
  BY <1>4 DEF ControllerStart, daemonVars
<1> QED
  BY <1>1, <1>2, <1>3, <1>4 DEF ControllerStep

\* A step of a daemon keeps every document sound.
LEMMA SoundDaemon ==
    ASSUME SoundInv, NEW d \in Daemons, DaemonStep(d)
    PROVE  SoundInv'
<1> USE DEF SoundInv, TypeOK, Works, Validates, Stages
<1>1. ASSUME NEW stage \in {"starting", "refreshing"}, Receive(d, stage),
             stage = "refreshing" => at[d] = "idle"
      PROVE  SoundInv'
  BY <1>1 DEF Receive, controllerVars
<1>2. CASE StartFetched(d)
  BY <1>1, <1>2 DEF StartFetched
<1>3. CASE RefreshFetched(d)
  BY <1>1, <1>3 DEF RefreshFetched
<1>4. CASE Started(d)
  BY <1>4 DEF Started, controllerVars
<1>5. CASE StartCached(d)
  BY <1>5 DEF StartCached, controllerVars
<1>6. CASE RefreshKept(d)
  BY <1>6 DEF RefreshKept, controllerVars
<1>7. CASE Refreshed(d)
  BY <1>7 DEF Refreshed, controllerVars
<1>8. CASE WriteFails(d)
  BY <1>8 DEF WriteFails, controllerVars
<1>9. CASE Announced(d) \/ AnnounceFails(d)
  BY <1>9 DEF Announced, AnnounceFails, controllerVars, Documents, Revisions
<1>10. CASE DaemonStop(d)
  BY <1>10 DEF DaemonStop, controllerVars
<1> QED
  BY <1>2, <1>3, <1>4, <1>5, <1>6, <1>7, <1>8, <1>9, <1>10 DEF DaemonStep

\* Every document in use validates, whatever is edited, lost, stopped or started again.
THEOREM SoundAlways == Spec => []SoundInv
<1>1. Init => SoundInv
  BY SoundInit
<1>2. SoundInv /\ [Next]_vars => SoundInv'
  <2>1. CASE Next
    BY <2>1, SoundController, SoundDaemon DEF Next
  <2>2. CASE UNCHANGED vars
    BY <2>2 DEF vars, controllerVars, daemonVars, SoundInv, TypeOK, Works
  <2> QED
    BY <2>1, <2>2
<1> QED
  BY <1>1, <1>2, PTL DEF Spec

\* The state is well typed: what a daemon works by is a document, and never the torn
\* file a stopped daemon has left behind.
THEOREM TypeCorrect == Spec => []TypeOK
<1>1. SoundInv => TypeOK
  BY DEF SoundInv
<1> QED
  BY <1>1, SoundAlways, PTL

\* A config that does not validate is never worked by and never kept.
THEOREM OnlySoundUsed == Spec => []OnlySound
<1>1. SoundInv => OnlySound
  BY DEF SoundInv, OnlySound, TypeOK
<1> QED
  BY <1>1, SoundAlways, PTL

-----------------------------------------------------------------------------
(* Nothing is ahead of the controller.                                     *)

\* The controller is as far as this document, and has it if it is no further.
Behind(doc) == doc.rev <= running.rev /\ (doc.rev = running.rev => doc = running)

\* Each document a daemon has, and each row about it, is behind what it came from.
FlowInv ==
    /\ TypeOK
    /\ \A d \in Daemons :
         /\ recorded[d] <= running.rev
         /\ Works(d) => Behind(held[d]) /\ recorded[d] <= held[d].rev
         /\ at[d] \in {"starting", "refreshing"} =>
              Behind(got[d]) /\ recorded[d] <= got[d].rev
         /\ at[d] = "refreshing" => held[d].rev <= got[d].rev
         /\ cache[d] \in Documents => Behind(cache[d]) /\ recorded[d] <= cache[d].rev
         /\ Works(d) /\ cache[d] \in Documents => held[d].rev <= cache[d].rev

\* Every revision is a number.
LEMMA RevisionNumber == \A doc \in Documents : doc.rev \in Nat
BY DEF Documents, Revisions

\* Before anything runs there is only the controller.
LEMMA FlowInit == Init => FlowInv
BY RevisionNumber
   DEF Init, FlowInv, TypeOK, Stages, Works, Behind, Validates

\* A reload and such a start go forward, so everything stays behind it.
LEMMA FlowController ==
    ASSUME FlowInv, ControllerStep, "start_anyhow" \notin Env
    PROVE  FlowInv'
<1> USE RevisionNumber DEF FlowInv, TypeOK, Works, Behind
<1>1. ASSUME NEW doc \in Documents, Author(doc) PROVE FlowInv'
  BY <1>1 DEF Author, daemonVars
<1>2. CASE Reload
  BY <1>2 DEF Reload, Reloadable, daemonVars
<1>3. CASE ControllerStop
  <2>1. stops' \in Nat
    BY <1>3 DEF ControllerStop
  <2>2. serving' = FALSE /\ UNCHANGED <<file, running, wired, daemonVars, recorded>>
    BY <1>3 DEF ControllerStop
  <2> QED
    BY <2>1, <2>2 DEF daemonVars
<1>4. CASE ControllerStart
  <2>1. running' = running \/ running'.rev > running.rev
    BY <1>4 DEF ControllerStart, Reloadable
  <2>2. /\ running' = file /\ wired' = file /\ serving' = TRUE
        /\ UNCHANGED <<file, at, held, got, cache, recorded, stops>>
    BY <1>4 DEF ControllerStart, daemonVars
  <2> QED
    BY <2>1, <2>2
<1> QED
  BY <1>1, <1>2, <1>3, <1>4 DEF ControllerStep

\* A daemon takes nothing that is ahead of the controller, and nothing older than
\* what it has.
LEMMA FlowDaemon ==
    ASSUME FlowInv, NEW d \in Daemons, DaemonStep(d)
    PROVE  FlowInv'
<1> USE RevisionNumber DEF FlowInv, TypeOK, Works, Behind, Stages
<1>1. ASSUME NEW stage \in {"starting", "refreshing"}, Receive(d, stage),
             stage = "refreshing" => at[d] = "idle"
      PROVE  FlowInv'
  BY <1>1 DEF Receive, controllerVars
<1>2. CASE StartFetched(d)
  BY <1>1, <1>2 DEF StartFetched
<1>3. CASE RefreshFetched(d)
  BY <1>1, <1>3 DEF RefreshFetched
<1>4. CASE Started(d)
  BY <1>4 DEF Started, controllerVars
<1>5. CASE StartCached(d)
  BY <1>5 DEF StartCached, controllerVars, Validates
<1>6. CASE RefreshKept(d)
  BY <1>6 DEF RefreshKept, controllerVars
<1>7. CASE Refreshed(d)
  BY <1>7 DEF Refreshed, controllerVars
<1>8. CASE WriteFails(d)
  BY <1>8 DEF WriteFails, controllerVars
<1>9. CASE Announced(d)
  <2>1. held[d] \in Documents /\ held[d].rev \in Nat
    BY <1>9 DEF Announced
  <2>2. recorded' = [recorded EXCEPT ![d] = held[d].rev]
    BY <1>9 DEF Announced
  <2>3. TypeOK'
    BY <1>9, <2>1, <2>2 DEF Announced, controllerVars
  <2>4. ASSUME NEW e \in Daemons, e # d PROVE recorded'[e] = recorded[e] /\ at'[e] = at[e]
    BY <1>9, <2>2, <2>4 DEF Announced
  <2>5. recorded'[d] = held[d].rev /\ at'[d] = "idle" /\ at[d] = "announcing"
    BY <1>9, <2>2 DEF Announced
  <2>6. UNCHANGED <<serving, running, held, got, cache>>
    BY <1>9 DEF Announced, controllerVars
  <2> QED
    BY <2>1, <2>3, <2>4, <2>5, <2>6
<1>10. CASE AnnounceFails(d)
  BY <1>10 DEF AnnounceFails, controllerVars
<1>11. CASE DaemonStop(d)
  BY <1>11 DEF DaemonStop, controllerVars
<1> QED
  BY <1>2, <1>3, <1>4, <1>5, <1>6, <1>7, <1>8, <1>9, <1>10, <1>11 DEF DaemonStep

\* Unless the controller is started on a file it would not reload, nothing is ever
\* ahead of it.
THEOREM FlowAlways ==
    ASSUME "start_anyhow" \notin Env
    PROVE  Spec => []FlowInv
<1>1. Init => FlowInv
  BY FlowInit
<1>2. FlowInv /\ [Next]_vars => FlowInv'
  <2>1. CASE Next
    BY <2>1, FlowController, FlowDaemon DEF Next
  <2>2. CASE UNCHANGED vars
    BY <2>2 DEF vars, controllerVars, daemonVars, FlowInv, TypeOK, Works, Behind
  <2> QED
    BY <2>1, <2>2
<1> QED
  BY <1>1, <1>2, PTL DEF Spec

\* Who works by the controller's revision works by the controller's document.
THEOREM RevisionsIdentify ==
    ASSUME "start_anyhow" \notin Env
    PROVE  Spec => []RevisionIdentifies
<1>1. FlowInv => RevisionIdentifies
  BY DEF FlowInv, RevisionIdentifies, Behind
<1> QED
  BY <1>1, FlowAlways, PTL

\* A daemon's row never names a later revision than the daemon works by.
THEOREM RowsAreHeld ==
    ASSUME "start_anyhow" \notin Env
    PROVE  Spec => []RecordedIsHeld
<1>1. FlowInv => RecordedIsHeld
  BY DEF FlowInv, RecordedIsHeld
<1> QED
  BY <1>1, FlowAlways, PTL

\* A daemon that runs never goes back to an earlier revision.
THEOREM NeverGoesBack ==
    ASSUME "start_anyhow" \notin Env
    PROVE  Spec => NeverBackwards
<1> DEFINE Step == \A d \in Daemons : Works(d) /\ Works(d)' => held'[d].rev >= held[d].rev
<1>1. FlowInv /\ Next => Step
  <2> SUFFICES ASSUME FlowInv, Next, NEW e \in Daemons, Works(e), Works(e)'
               PROVE  held'[e].rev >= held[e].rev
    OBVIOUS
  <2>0. held[e] \in Documents /\ held[e].rev \in Nat
    BY RevisionNumber DEF FlowInv, TypeOK, Works
  <2>1. CASE ControllerStep
    BY <2>0, <2>1
       DEF ControllerStep, Author, Reload, ControllerStop, ControllerStart, daemonVars
  <2>2. ASSUME NEW d \in Daemons, DaemonStep(d) PROVE held'[e].rev >= held[e].rev
    <3>1. CASE StartFetched(d) \/ RefreshFetched(d) \/ RefreshKept(d) \/ WriteFails(d)
               \/ Announced(d) \/ AnnounceFails(d)
      BY <2>0, <3>1
         DEF StartFetched, RefreshFetched, Receive, RefreshKept, WriteFails, Announced,
             AnnounceFails
    <3>2. CASE StartCached(d) \/ Started(d)
      BY <2>0, <3>2 DEF StartCached, Started, FlowInv, TypeOK, Works
    <3>3. CASE Refreshed(d)
      BY <2>0, <3>3, RevisionNumber DEF Refreshed, FlowInv, TypeOK, Works
    <3>4. CASE DaemonStop(d)
      BY <2>0, <3>4 DEF DaemonStop, FlowInv, TypeOK, Works
    <3> QED
      BY <2>2, <3>1, <3>2, <3>3, <3>4 DEF DaemonStep
  <2> QED
    BY <2>1, <2>2 DEF Next
<1>2. FlowInv /\ [Next]_vars => [Step]_held
  BY <1>1 DEF vars, daemonVars
<1> QED
  BY <1>2, FlowAlways, PTL DEF Spec, NeverBackwards
=============================================================================
