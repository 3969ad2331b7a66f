--------------------------- MODULE PatchLoadProofs ---------------------------
(***************************************************************************)
(* The safety of a patch switch, for any patches and knob values, any      *)
(* number of loads and any capacity of the engine's queues: the registry's *)
(* status is the truth about the engine (StatusTruthful), and a switch     *)
(* that has settled leaves engine, registry and store agreeing             *)
(* (SettledAgreement).                                                     *)
(*                                                                         *)
(* The engine under a switch behaves as the engine alone, so what          *)
(* BackendSwapProofs shows of it holds here: every step of PatchLoad is a  *)
(* step of the engine or leaves it alone.                                  *)
(***************************************************************************)
EXTENDS PatchLoad, BackendSwapProofs

USE BackendAssumption DEF BackendAssumption

-----------------------------------------------------------------------------
(* Steps of the writer and of the poll loop that leave the engine alone.   *)

WriterStep ==
  \/ \E p \in Patches : SelectBegin(p)
  \/ \E v \in Values : KnobApply(v)
  \/ SelectSave \/ SelectSaveFails \/ SelectRejected
  \/ SelectStageGain \/ SelectMark \/ SelectReadCurrent \/ SelectStageKnobs
  \/ SelectRecord \/ KnobStore

PollerStep ==
  \/ PollMarkActive \/ PollClearStaged \/ PollMarkFailed
  \/ PollReadCurrent \/ PollRecord

(* Neither thread touches the engine but to request a load and to take an  *)
(* event.                                                                  *)
LEMMA GoLeavesEngine == WriterStep \/ PollerStep => UNCHANGED engineVars
  BY DEF WriterStep, PollerStep, SelectBegin, KnobApply, SelectSave, SelectSaveFails,
     SelectRejected, SelectStageGain, SelectMark, SelectReadCurrent, SelectStageKnobs,
     SelectRecord, KnobStore, PollMarkActive, PollClearStaged, PollMarkFailed,
     PollReadCurrent, PollRecord

(* The engine's own steps leave the registry, the writer, the poll loop,   *)
(* the store and the list of requested patches alone.                      *)
EngineAlone == Loaders \/ SwapDrain \/ SwapWithParams

LEMMA EngineAloneSteps ==
  EngineAlone => EngineNext /\ generation' = generation /\ UNCHANGED <<requested, goVars>>
<1>1. CASE Loaders
  <2>1. PICK g \in LoadGens : Loader(g)
    BY <1>1 DEF Loaders
  <2> QED
    BY <1>1, <2>1 DEF Loaders, EngineNext, Loader, LoaderFail, LoaderBuild, LoaderStep,
       LoaderRefused, LoaderPush, LoaderReadLatest, LoaderCoalesce, LoaderYield,
       LoaderPutBack, LoaderQueueEmptied, LoaderFinalPush
<1>2. CASE SwapDrain
  BY <1>2 DEF SwapDrain, EngineNext, Callback, SwapBegin, SwapPick, SwapDiscard, SwapNothing
<1>3. CASE SwapWithParams
  BY <1>3 DEF SwapWithParams, EngineNext, Callback, SwapInstall
<1> QED
  BY <1>1, <1>2, <1>3 DEF EngineAlone

(* The parameters of a patch go live with its backend, and not before.     *)
LEMMA ParamsFollow ==
  EngineAlone => UNCHANGED paramVars \/ (live' = Landed /\ staged' = NothingStaged)
<1>1. Loaders \/ SwapDrain => UNCHANGED paramVars
  BY DEF Loaders, SwapDrain
<1>2. SwapWithParams => live' = Landed /\ staged' = NothingStaged
  BY DEF SwapWithParams
<1> QED
  BY <1>1, <1>2 DEF EngineAlone

(* A step of the switch: of one thread, of the engine, or none.            *)
LEMMA StepCases ==
  [Next]_vars <=> WriterStep \/ SelectRequest \/ PollerStep \/ PollTake \/ EngineAlone
                  \/ UNCHANGED vars
  BY DEF Next, SelectStep, PollStep, WriterStep, PollerStep, EngineAlone

(* Under a switch the engine takes its own steps or none.                  *)
LEMMA EngineSteps == [Next]_vars => [EngineNext]_engineVars
  BY StepCases, GoLeavesEngine, EngineAloneSteps
     DEF SelectRequest, PollTake, EngineNext, vars

(***************************************************************************)
(* A switch drives the engine and never past its rules: with the writer,   *)
(* the poll loop and the staged parameters around it the engine still      *)
(* implements the promise of LoadOutcome.                                  *)
(***************************************************************************)
THEOREM SwitchDrivesEngine == Spec => EngineSpec /\ ImplementsPromise
<1>1. Init => EngineInit
  BY DEF Init
<1>2. Spec => EngineSpec
  BY <1>1, EngineSteps, PTL DEF Spec, EngineSpec
<1> QED
  BY <1>2, EngineKeepsPromise

-----------------------------------------------------------------------------
(* What the registry, the writer and the poll loop know of a load.         *)

(* The locals of the writer at the steps that use them.                    *)
WriterTyped ==
  /\ writerPC \in {"save", "request", "gain", "mark"} => target \in Patches
  /\ writerPC = "save" => owner \in ClapPatches
  /\ writerPC \in {"stage", "record", "knob"} => owner \in Patches
  /\ writerPC = "knob" => edit \in Values

(* The engine's own invariants, with the truth of the events on its queue. *)
EngineKnown == IInv /\ EventsHold

(* The registry waits for the latest load, except while the writer is on   *)
(* its way from the request to the mark; and it knows what that load builds.*)
LoadKnown ==
  /\ writerPC \in {"gain", "mark"} => generation > 0 /\ requested[generation] = target
  /\ writerPC \notin {"gain", "mark"} => status.gen = generation
  /\ status.gen <= generation
  /\ status.state # "idle" => requested[status.gen] = status.patch

(* The loads that never sound any more.                                    *)
Gone == {g \in LoadGens : Outcome(g) = "gone"}

Hopeful == status.state \in {"loading", "active"}

(* Until a load fails, its patch is the current one; a status that is no   *)
(* longer waiting says what became of the load.                            *)
StatusKnown ==
  /\ Hopeful => current = status.patch /\ status.patch \in Patches
  /\ status.state = "active" => active = status.patch /\ status.gen <= installed
  /\ status.state = "failed" => status.gen \in Gone

(* The poll loop has an event in hand that is still true.                  *)
EventKnown ==
  /\ pollPC = "active" => polled <= installed
  /\ pollPC \in {"failed", "mark failed"} => polled \in Gone

(* Whoever still has a patch to record has the right one, and an active    *)
(* patch is recorded, or the poll loop that found it active is about to.   *)
RecordsCome ==
  /\ writerPC \in {"stage", "record"} /\ Hopeful => owner = status.patch
  /\ pollPC = "record" /\ status.state = "active" => seen = status.patch
  /\ status.state = "active" => pollPC \in {"current", "record"} \/ stored = status.patch

SwitchInv ==
  TypeOK /\ WriterTyped /\ EngineKnown /\ LoadKnown /\ StatusKnown /\ EventKnown /\ RecordsCome

(* What the engine does, alone or under a thread: it keeps its invariants, *)
(* sounds nothing older, and revives nothing.                              *)
LEMMA EngineKept ==
  ASSUME EngineKnown, [Next]_vars
  PROVE  /\ EngineKnown'
         /\ installed <= installed'
         /\ Gone \subseteq Gone'
<1>1. [EngineNext]_engineVars
  BY EngineSteps
<1> QED
  BY <1>1, InvStep, EventsStep, SettledStays DEF EngineKnown, Gone

LEMMA TypeInitially == Init => TypeOK /\ WriterTyped
<1> SUFFICES ASSUME Init PROVE TypeOK /\ WriterTyped
  OBVIOUS
<1>1. EngineTypeOK
  BY TypeInit DEF Init
<1>2. 0 \in Gens
  BY DEF Gens
<1> QED
  BY <1>1, <1>2 DEF Init, TypeOK, WriterTyped, MaybePatch, MaybeValue, NothingStaged,
     WriterPCs, PollPCs, States

(* A writer moves its own locals, the registry, the staged parameters and  *)
(* the store, and none of them out of its set.                             *)
LEMMA WriterTypes ==
  ASSUME TypeOK, WriterTyped, WriterStep
  PROVE  TypeOK' /\ WriterTyped'
<1>E. EngineTypeOK'
  BY GoLeavesEngine DEF TypeOK, EngineTypeOK, engineVars
<1>P. /\ ClapPatches \subseteq Patches /\ NoPatch \notin Patches
      /\ Patches \subseteq MaybePatch /\ NoPatch \in MaybePatch
      /\ Values \subseteq MaybeValue /\ NoValue \in MaybeValue
      /\ \A p \in MaybePatch : p # NoPatch => p \in Patches
      /\ SaveOwner \in MaybePatch /\ Sounding \in MaybePatch
  BY PatchAssumption DEF PatchAssumption, MaybePatch, MaybeValue, SaveOwner, Sounding,
     TypeOK, EngineTypeOK
<1> USE <1>E, <1>P DEF TypeOK, WriterTyped, WriterPCs, paramVars, registryVars, pollVars,
    storeVars, writerVars
<1>1. ASSUME NEW p \in Patches, SelectBegin(p) PROVE TypeOK' /\ WriterTyped'
  BY <1>1 DEF SelectBegin
<1>2. ASSUME NEW v \in Values, KnobApply(v) PROVE TypeOK' /\ WriterTyped'
  BY <1>2 DEF KnobApply
<1>3. CASE SelectSave
  BY <1>3 DEF SelectSave
<1>4. CASE SelectSaveFails
  BY <1>4 DEF SelectSaveFails
<1>5. CASE SelectRejected
  BY <1>5 DEF SelectRejected
<1>6. CASE SelectStageGain
  BY <1>6 DEF SelectStageGain
<1>7. CASE SelectMark
  <2>1. generation \in Gens /\ "loading" \in States
    BY DEF EngineTypeOK, States
  <2> QED
    BY <1>7, <2>1 DEF SelectMark
<1>8. CASE SelectReadCurrent
  BY <1>8 DEF SelectReadCurrent
<1>9. CASE SelectStageKnobs
  BY <1>9 DEF SelectStageKnobs
<1>10. CASE SelectRecord
  BY <1>10 DEF SelectRecord
<1>11. CASE KnobStore
  BY <1>11 DEF KnobStore
<1> QED
  BY <1>1, <1>2, <1>3, <1>4, <1>5, <1>6, <1>7, <1>8, <1>9, <1>10, <1>11 DEF WriterStep

(* The request of a load is the writer's; an event taken and what the poll *)
(* loop makes of it are its own.                                           *)
LEMMA OtherTypes ==
  ASSUME TypeOK, WriterTyped, EngineTypeOK', [Next]_vars, ~WriterStep
  PROVE  TypeOK' /\ WriterTyped'
<1>P. /\ NoPatch \in MaybePatch /\ NoValue \in MaybeValue
      /\ Patches \subseteq MaybePatch
      /\ \A v \in MaybeValue : v # NoValue => v \in Values
  BY DEF MaybePatch, MaybeValue
<1>S. "active" \in States /\ "failed" \in States
  BY DEF States
<1> USE <1>P, <1>S DEF TypeOK, WriterTyped, WriterPCs, PollPCs, paramVars, registryVars,
    pollVars, storeVars, writerVars, goVars, NothingStaged
<1>1. CASE SelectRequest
  <2>1. generation + 1 \in Gens
    BY <1>1 DEF SelectRequest, RequestLoad, EngineTypeOK, Gens
  <2> QED
    BY <1>1, <2>1 DEF SelectRequest
<1>2. CASE PollTake
  <2>1. Head(events) \in Events
    BY <1>2, PopShifts DEF PollTake, TakeEvent, EngineTypeOK
  <2> QED
    BY <1>2, <2>1 DEF PollTake, Events, EventKinds
<1>3. CASE PollerStep
  <2>1. CASE PollMarkActive
    BY <2>1 DEF PollMarkActive
  <2>2. CASE PollClearStaged
    BY <2>2 DEF PollClearStaged
  <2>3. CASE PollMarkFailed
    BY <2>3 DEF PollMarkFailed
  <2>4. CASE PollReadCurrent
    BY <2>4 DEF PollReadCurrent
  <2>5. CASE PollRecord
    BY <2>5 DEF PollRecord
  <2> QED
    BY <1>3, <2>1, <2>2, <2>3, <2>4, <2>5 DEF PollerStep
<1>4. CASE EngineAlone
  <2>1. UNCHANGED <<requested, goVars>>
    BY <1>4, EngineAloneSteps
  <2>2. UNCHANGED paramVars \/ (live' = Landed /\ staged' = NothingStaged)
    BY <1>4, ParamsFollow
  <2>3. Landed \in [gain : MaybePatch, knob : Values]
    BY DEF Landed
  <2>4. staged' \in [gain : MaybePatch, knob : MaybeValue] /\ live' \in [gain : MaybePatch, knob : Values]
    <3>1. CASE UNCHANGED paramVars
      BY <3>1
    <3>2. CASE live' = Landed /\ staged' = NothingStaged
      BY <2>3, <3>2
    <3> QED
      BY <2>2, <3>1, <3>2
  <2> QED
    BY <2>1, <2>4
<1>5. CASE UNCHANGED vars
  BY <1>5 DEF vars
<1> QED
  BY <1>1, <1>2, <1>3, <1>4, <1>5, StepCases

LEMMA TypesKept ==
  ASSUME TypeOK, WriterTyped, EngineKnown, [Next]_vars
  PROVE  TypeOK' /\ WriterTyped'
<1>1. EngineTypeOK'
  BY EngineKept DEF EngineKnown, IInv
<1> QED
  BY <1>1, WriterTypes, OtherTypes

-----------------------------------------------------------------------------
(* The invariant of a switch.                                              *)

Knowledge == LoadKnown /\ StatusKnown /\ EventKnown /\ RecordsCome

LEMMA KnowledgeInitially == Init => Knowledge
<1> SUFFICES ASSUME Init PROVE Knowledge
  OBVIOUS
<1>1. PICK boot \in MaybePatch :
        /\ requested = [g \in Gens |-> IF g = 0 THEN boot ELSE NoPatch]
        /\ current = boot /\ active = boot /\ stored = boot
        /\ status = [patch |-> boot, gen |-> 0,
                     state |-> IF boot = NoPatch THEN "idle" ELSE "active"]
  BY DEF Init
<1>2. /\ writerPC = "idle" /\ pollPC = "idle"
      /\ generation = 0 /\ installed = 0 /\ 0 \in Gens
  BY DEF Init, EngineInit, Gens
<1>3. status.state # "idle" => boot \in Patches
  BY <1>1 DEF MaybePatch
<1> QED
  BY <1>1, <1>2, <1>3 DEF Knowledge, LoadKnown, StatusKnown, EventKnown, RecordsCome, Hopeful

(* While the engine rests the loads that are gone stay the same.           *)
LEMMA WriterKnows ==
  ASSUME SwitchInv, EngineKnown', Gone \subseteq Gone', WriterStep
  PROVE  Knowledge'
<1>E. generation' = generation /\ installed' = installed
  BY GoLeavesEngine DEF engineVars
<1>S. status.gen \in Nat /\ generation \in Nat /\ generation <= generation
  BY DEF SwitchInv, TypeOK, EngineTypeOK, Gens
<1> USE <1>E, <1>S DEF SwitchInv, Knowledge, LoadKnown, StatusKnown, EventKnown,
    RecordsCome, Hopeful, WriterTyped, paramVars, registryVars, pollVars, storeVars
<1>1. ASSUME NEW p \in Patches, SelectBegin(p) PROVE Knowledge'
  BY <1>1 DEF SelectBegin
<1>2. ASSUME NEW v \in Values, KnobApply(v) PROVE Knowledge'
  BY <1>2 DEF KnobApply
<1>3. CASE SelectSave
  BY <1>3 DEF SelectSave
<1>4. CASE SelectSaveFails
  BY <1>4 DEF SelectSaveFails
<1>5. CASE SelectRejected
  BY <1>5 DEF SelectRejected
<1>6. CASE SelectStageGain
  BY <1>6 DEF SelectStageGain
<1>7. CASE SelectMark
  <2>1. /\ status' = [patch |-> target, gen |-> generation, state |-> "loading"]
        /\ current' = target /\ target \in Patches
        /\ requested' = requested /\ requested[generation] = target
        /\ writerPC' = "current"
        /\ UNCHANGED <<active, pollPC, polled, seen, stored>>
    BY <1>7 DEF SelectMark
  <2>2. status'.gen = generation /\ status'.state = "loading" /\ status'.patch = target
    BY <2>1
  <2>4. LoadKnown'
    <3>1. requested'[status'.gen] = status'.patch
      BY <2>1, <2>2
    <3> QED
      BY <2>1, <2>2, <3>1
  <2>5. StatusKnown'
    BY <2>1, <2>2
  <2>3. EventKnown' /\ RecordsCome'
    BY <2>1, <2>2
  <2> QED
    BY <2>3, <2>4, <2>5
<1>8. CASE SelectReadCurrent
  BY <1>8 DEF SelectReadCurrent
<1>9. CASE SelectStageKnobs
  BY <1>9 DEF SelectStageKnobs
<1>10. CASE SelectRecord
  BY <1>10 DEF SelectRecord
<1>11. CASE KnobStore
  BY <1>11 DEF KnobStore
<1> QED
  BY <1>1, <1>2, <1>3, <1>4, <1>5, <1>6, <1>7, <1>8, <1>9, <1>10, <1>11 DEF WriterStep

(* A request takes a generation nobody has asked for, and only the writer  *)
(* knows of it yet.                                                        *)
LEMMA RequestKnows ==
  ASSUME SwitchInv, EngineKnown', Gone \subseteq Gone', SelectRequest
  PROVE  Knowledge'
<1>1. /\ generation \in Nat /\ generation + 1 \in Gens /\ status.gen \in Gens
      /\ generation' = generation + 1
      /\ installed' = installed
  BY DEF SwitchInv, TypeOK, EngineTypeOK, Gens, SelectRequest, RequestLoad
<1>2. requested'[generation + 1] = target
  BY <1>1 DEF SelectRequest, SwitchInv, TypeOK
<1>3. status.gen < generation + 1
  BY <1>1 DEF SwitchInv, LoadKnown, Gens
<1>4. requested'[status.gen] = requested[status.gen]
  BY <1>1, <1>3 DEF SelectRequest, SwitchInv, TypeOK, Gens
<1>5. /\ writerPC' = "gain"
      /\ UNCHANGED <<current, active, status, target, owner, pollPC, polled, seen, stored>>
  BY DEF SelectRequest, registryVars, pollVars, storeVars
<1>6. LoadKnown'
  BY <1>1, <1>2, <1>3, <1>4, <1>5 DEF SwitchInv, LoadKnown, Gens
<1>7. StatusKnown' /\ EventKnown' /\ RecordsCome'
  BY <1>1, <1>5 DEF SwitchInv, StatusKnown, EventKnown, RecordsCome, Hopeful
<1> QED
  BY <1>6, <1>7 DEF Knowledge

(* An event is true when the poll loop takes it.                           *)
LEMMA TakeKnows ==
  ASSUME SwitchInv, EngineKnown', Gone \subseteq Gone', PollTake
  PROVE  Knowledge'
<1>1. EventHolds(Head(events)) /\ Head(events) \in Events
  <2>1. events # <<>> /\ events \in Seq(Events)
    BY DEF PollTake, TakeEvent, SwitchInv, TypeOK, EngineTypeOK
  <2>2. Len(events) \in Nat \ {0} /\ Head(events) = events[1] /\ Head(events) \in Events
    BY <2>1, PopShifts
  <2>3. Head(events) \in OnQueue(events)
    BY <2>2 DEF OnQueue
  <2> QED
    BY <2>2, <2>3 DEF SwitchInv, EngineKnown, EventsHold
<1>2. /\ UNCHANGED <<generation, installed, requested, current, active, status>>
      /\ UNCHANGED <<writerPC, target, owner, edit, seen, stored>>
      /\ polled' = Head(events).gen
      /\ pollPC' = IF Head(events).kind = "stale" THEN "idle" ELSE Head(events).kind
  BY DEF PollTake, TakeEvent, registryVars, writerVars, storeVars
<1>3. Head(events).kind \in {"active", "failed", "stale"}
  BY <1>1 DEF Events, EventKinds
<1>4. EventKnown'
  BY <1>1, <1>2, <1>3 DEF EventKnown, EventHolds, Gone
<1>5. pollPC = "idle"
  BY DEF PollTake
<1>6. LoadKnown' /\ StatusKnown' /\ RecordsCome'
  BY <1>2, <1>3, <1>5 DEF SwitchInv, LoadKnown, StatusKnown, RecordsCome, Hopeful
<1> QED
  BY <1>4, <1>6 DEF Knowledge

(* What the poll loop concludes from the event it holds.                   *)
LEMMA PollerKnows ==
  ASSUME SwitchInv, EngineKnown', Gone \subseteq Gone', PollerStep
  PROVE  Knowledge'
<1>E. UNCHANGED <<generation, installed>>
  BY GoLeavesEngine DEF engineVars
<1>S. status \in [patch : MaybePatch, gen : Gens, state : States]
  BY DEF SwitchInv, TypeOK
<1> USE <1>E, <1>S DEF SwitchInv, Knowledge, LoadKnown, StatusKnown, EventKnown,
    RecordsCome, Hopeful, WriterTyped, paramVars, registryVars, writerVars, storeVars, Awaited
<1>1. CASE PollMarkActive
  BY <1>1 DEF PollMarkActive
<1>2. CASE PollClearStaged
  BY <1>2 DEF PollClearStaged
<1>3. CASE PollMarkFailed
  BY <1>3 DEF PollMarkFailed
<1>4. CASE PollReadCurrent
  BY <1>4, PatchAssumption DEF PollReadCurrent, PatchAssumption
<1>5. CASE PollRecord
  BY <1>5 DEF PollRecord
<1> QED
  BY <1>1, <1>2, <1>3, <1>4, <1>5 DEF PollerStep

(* The engine moves on, and what was known of it stays true.               *)
LEMMA EngineKnows ==
  ASSUME SwitchInv, EngineKnown', Gone \subseteq Gone', installed <= installed',
         EngineAlone \/ UNCHANGED vars
  PROVE  Knowledge'
<1>1. /\ UNCHANGED <<generation, requested, current, active, status, writerPC, target>>
      /\ UNCHANGED <<owner, edit, pollPC, polled, seen, stored>>
  BY EngineAloneSteps DEF vars, engineVars, goVars, registryVars, writerVars, pollVars,
     storeVars
<1>2. /\ status.gen \in Nat /\ polled \in Nat /\ installed \in Nat /\ installed' \in Nat
  BY DEF SwitchInv, TypeOK, EngineTypeOK, EngineKnown, IInv, Gens
<1>3. LoadKnown' /\ RecordsCome'
  BY <1>1 DEF SwitchInv, LoadKnown, RecordsCome, Hopeful
<1>4. StatusKnown'
  <2>1. status.gen \in Gone => status.gen \in Gone'
    OBVIOUS
  <2>2. status.gen <= installed => status.gen <= installed'
    BY <1>2
  <2> QED
    BY <1>1, <2>1, <2>2 DEF SwitchInv, StatusKnown, Hopeful
<1>5. EventKnown'
  <2>1. polled \in Gone => polled \in Gone'
    OBVIOUS
  <2>2. polled <= installed => polled <= installed'
    BY <1>2
  <2> QED
    BY <1>1, <2>1, <2>2 DEF SwitchInv, EventKnown
<1> QED
  BY <1>3, <1>4, <1>5 DEF Knowledge

LEMMA SwitchInvStep == SwitchInv /\ [Next]_vars => SwitchInv'
<1> SUFFICES ASSUME SwitchInv, [Next]_vars PROVE SwitchInv'
  OBVIOUS
<1>1. EngineKnown' /\ installed <= installed' /\ Gone \subseteq Gone'
  BY EngineKept DEF SwitchInv
<1>2. TypeOK' /\ WriterTyped'
  BY TypesKept DEF SwitchInv
<1>3. Knowledge'
  BY <1>1, StepCases, WriterKnows, RequestKnows, TakeKnows, PollerKnows, EngineKnows
<1> QED
  BY <1>1, <1>2, <1>3 DEF SwitchInv, Knowledge

LEMMA SwitchInvariance == Spec => []SwitchInv
<1>1. Init => SwitchInv
  <2>1. Init => EngineKnown
    BY InvInit DEF Init, EngineInit, EngineKnown, EventsHold, OnQueue
  <2> QED
    BY <2>1, TypeInitially, KnowledgeInitially DEF SwitchInv, Knowledge
<1> QED
  BY <1>1, SwitchInvStep, PTL DEF Spec

(***************************************************************************)
(* Every variable of the switch keeps to its set: the knob value that a    *)
(* writer stores, and the patch it stores it for, among them.              *)
(***************************************************************************)
THEOREM SwitchTypeCorrect == Spec => []TypeOK
<1>1. SwitchInv => TypeOK
  BY DEF SwitchInv
<1> QED
  BY <1>1, SwitchInvariance, PTL

(***************************************************************************)
(* MarkActive and MarkFailed credit no load with another's event, however  *)
(* requests, loaders, drains and polls interleave: a patch called active   *)
(* has been installed, one called failed never sounds.                     *)
(***************************************************************************)
THEOREM StatusIsTrue == Spec => []StatusTruthful
<1>1. SwitchInv => StatusTruthful
  <2> SUFFICES ASSUME SwitchInv PROVE StatusTruthful
    OBVIOUS
  <2>1. status.state = "failed" => ~InFlight(status.gen) /\ installed # status.gen
    BY GoneIsNowhere DEF SwitchInv, StatusKnown, Gone, TypeOK
  <2> QED
    BY <2>1 DEF SwitchInv, LoadKnown, StatusKnown, StatusTruthful, Hopeful
<1> QED
  BY <1>1, SwitchInvariance, PTL

(***************************************************************************)
(* A switch that has settled as active left engine, registry and store     *)
(* with the same patch, whatever raced it; it takes no more for that than  *)
(* that the writer and the poll loop are at rest.                          *)
(***************************************************************************)
AgreementAtRest ==
  writerPC = "idle" /\ pollPC = "idle" /\ status.state = "active" =>
    /\ current = status.patch
    /\ active = status.patch
    /\ Sounding = status.patch
    /\ installed = generation
    /\ stored = status.patch

THEOREM SwitchesAgree == Spec => []AgreementAtRest /\ []SettledAgreement
<1>1. SwitchInv => AgreementAtRest
  <2> SUFFICES ASSUME SwitchInv, writerPC = "idle", pollPC = "idle", status.state = "active"
               PROVE  AgreementAtRest
    BY DEF AgreementAtRest
  <2>1. installed \in Nat /\ generation \in Nat /\ swapGen \in Nat /\ installed <= generation
    BY DEF SwitchInv, EngineKnown, IInv, EngineTypeOK, Current, Gens
  <2>2. installed = generation /\ status.gen = generation
    BY <2>1 DEF SwitchInv, LoadKnown, StatusKnown
  <2> QED
    BY <2>2 DEF SwitchInv, LoadKnown, StatusKnown, RecordsCome, Hopeful, AgreementAtRest,
       Sounding
<1>2. AgreementAtRest => SettledAgreement
  BY DEF AgreementAtRest, SettledAgreement, Settled
<1> QED
  BY <1>1, <1>2, SwitchInvariance, PTL

=============================================================================
