------------------------------ MODULE PatchLoad ------------------------------
(***************************************************************************)
(* A patch switch, end to end: Controls.SelectPatch under its writer lock  *)
(* (internal/controls/controls.go), the registry's selectIndex, MarkActive *)
(* and MarkFailed (internal/patches/patches.go), the engine's loaders and  *)
(* hot swap (BackendSwap), the post-synth parameters staged for the swap   *)
(* (audio-core/src/lib.rs), and the daemon's poll loop that folds backend  *)
(* events back into the registry and the state store                       *)
(* (cmd/polyclav/main.go).                                                 *)
(*                                                                         *)
(* Three threads interleave: the holder of applyMu ("writer"), the poll    *)
(* goroutine ("poller") and the engine's own threads.  Each step below is  *)
(* one critical section or one engine call.                                *)
(***************************************************************************)
EXTENDS BackendSwap

CONSTANTS
  Patches,      \* the configured patches
  ClapPatches,  \* those of type "clap", whose plugin state is saved
  NoPatch,      \* no patch selected, no params staged, no blob saved
  Values,       \* values of a patch's knob
  NoValue       \* no knob value staged

ASSUME PatchAssumption ==
  /\ ClapPatches \subseteq Patches
  /\ NoPatch \notin Patches
  /\ Values # {} /\ NoValue \notin Values

VARIABLES
  requested,    \* the patch the load of each generation builds
  staged,       \* DspParams.staged_patch_params
  live,         \* the live patch-scoped DSP parameters
  current,      \* Registry.current
  active,       \* Registry.active
  status,       \* Registry.status
  writerPC,     \* the holder of applyMu, and its locals:
  target,       \*   the patch being selected
  owner,        \*   the patch it saves for, records or edits
  edit,         \*   the knob value being set
  pollPC,       \* the poll goroutine, and its locals:
  polled,       \*   the generation of the event it handles
  seen,         \*   the current patch it read
  stored,       \* Store.CurrentPatch
  knob,         \* the knob value Store holds for each patch
  blob          \* whose plugin produced the state blob saved for each patch

registryVars == <<current, active, status>>
writerVars == <<writerPC, target, owner, edit>>
pollVars == <<pollPC, polled, seen>>
storeVars == <<stored, knob, blob>>
paramVars == <<staged, live>>
goVars == <<registryVars, writerVars, pollVars, storeVars>>
vars == <<engineVars, requested, paramVars, goVars>>

MaybePatch == Patches \cup {NoPatch}
MaybeValue == Values \cup {NoValue}

WriterPCs == {"idle", "save", "request", "gain", "mark", "current", "stage",
              "record", "knob"}
PollPCs == {"idle", "active", "failed", "mark failed", "current", "record"}
States == {"idle", "loading", "active", "failed"}

TypeOK ==
  /\ EngineTypeOK
  /\ requested \in [Gens -> MaybePatch]
  /\ staged \in [gain : MaybePatch, knob : MaybeValue]
  /\ live \in [gain : MaybePatch, knob : Values]
  /\ current \in MaybePatch
  /\ active \in MaybePatch
  /\ status \in [patch : MaybePatch, gen : Gens, state : States]
  /\ writerPC \in WriterPCs
  /\ target \in MaybePatch
  /\ owner \in MaybePatch
  /\ edit \in MaybeValue
  /\ pollPC \in PollPCs
  /\ polled \in Gens
  /\ seen \in MaybePatch
  /\ stored \in MaybePatch
  /\ knob \in [Patches -> Values]
  /\ blob \in [Patches -> MaybePatch]

NothingStaged == [gain |-> NoPatch, knob |-> NoValue]

\* The daemon after its boot sequence: a patch restored and confirmed, or none
\* selectable and the engine on its default soundfont.
Init ==
  /\ EngineInit
  /\ \E boot \in MaybePatch, v \in Values :
       /\ requested = [g \in Gens |-> IF g = 0 THEN boot ELSE NoPatch]
       /\ live = [gain |-> boot, knob |-> v]
       /\ current = boot
       /\ active = boot
       /\ status = [patch |-> boot, gen |-> 0,
                    state |-> IF boot = NoPatch THEN "idle" ELSE "active"]
       /\ stored = boot
       /\ knob = [p \in Patches |-> v]
  /\ staged = NothingStaged
  /\ writerPC = "idle"
  /\ target = NoPatch
  /\ owner = NoPatch
  /\ edit = NoValue
  /\ pollPC = "idle"
  /\ polled = 0
  /\ seen = NoPatch
  /\ blob = [p \in Patches |-> NoPatch]

-----------------------------------------------------------------------------
(* SelectPatch: the writer, holding applyMu throughout.                    *)

\* Whose plugin is sounding, as the engine knows it.
Sounding == requested[installed]

\* activePatchForStateSave: the confirmed patch, or failing that the current one.
SaveOwner == IF active # NoPatch THEN active ELSE current

SelectBegin(p) ==
  /\ writerPC = "idle"
  /\ generation < MaxGen
  /\ target' = p
  /\ owner' = SaveOwner
  /\ writerPC' = IF SaveOwner \in ClapPatches THEN "save" ELSE "request"
  /\ UNCHANGED <<engineVars, requested, paramVars, registryVars, edit, pollVars,
                 storeVars>>

\* saveActiveClapState: the engine asks the sounding plugin for its state, and
\* the answer is filed under the patch picked in SelectBegin.
SelectSave ==
  /\ writerPC = "save"
  /\ Sounding \in ClapPatches
  /\ blob' = [blob EXCEPT ![owner] = Sounding]
  /\ writerPC' = "request"
  /\ UNCHANGED <<engineVars, requested, paramVars, registryVars, target, owner,
                 edit, pollVars, stored, knob>>

\* No CLAP plugin is sounding, or it did not answer within 500 ms.
SelectSaveFails ==
  /\ writerPC = "save"
  /\ writerPC' = "request"
  /\ UNCHANGED <<engineVars, requested, paramVars, registryVars, target, owner,
                 edit, pollVars, storeVars>>

\* A missing file or an engine refusal: SelectPatch returns the error.
SelectRejected ==
  /\ writerPC = "request"
  /\ writerPC' = "idle"
  /\ UNCHANGED <<engineVars, requested, paramVars, registryVars, target, owner,
                 edit, pollVars, storeVars>>

SelectRequest ==
  /\ writerPC = "request"
  /\ RequestLoad
  /\ requested' = [requested EXCEPT ![generation + 1] = target]
  /\ writerPC' = "gain"
  /\ UNCHANGED <<paramVars, registryVars, target, owner, edit, pollVars, storeVars>>

\* StagePatchGain, merged over whatever is staged.
SelectStageGain ==
  /\ writerPC = "gain"
  /\ staged' = [staged EXCEPT !.gain = target]
  /\ writerPC' = "mark"
  /\ UNCHANGED <<engineVars, requested, live, registryVars, target, owner, edit,
                 pollVars, storeVars>>

\* Mutant: the generation is read before the load is requested.
SelectMark_EarlyRead ==
  /\ writerPC = "mark"
  /\ current' = target
  /\ status' = [patch |-> target, gen |-> generation - 1, state |-> "loading"]
  /\ writerPC' = "current"
  /\ UNCHANGED <<engineVars, requested, paramVars, active, target, owner, edit,
                 pollVars, storeVars>>

\* selectIndex's last critical section.
SelectMark ==
  /\ writerPC = "mark"
  /\ current' = target
  /\ status' = [patch |-> target, gen |-> generation, state |-> "loading"]
  /\ writerPC' = "current"
  /\ UNCHANGED <<engineVars, requested, paramVars, active, target, owner, edit,
                 pollVars, storeVars>>

\* afterSelect re-reads the current patch, which a failed load may have moved.
SelectReadCurrent ==
  /\ writerPC = "current"
  /\ owner' = current
  /\ writerPC' = IF current = NoPatch THEN "idle" ELSE "stage"
  /\ UNCHANGED <<engineVars, requested, paramVars, registryVars, target, edit,
                 pollVars, storeVars>>

SelectStageKnobs ==
  /\ writerPC = "stage"
  /\ staged' = [staged EXCEPT !.knob = knob[owner]]
  /\ writerPC' = "record"
  /\ UNCHANGED <<engineVars, requested, live, registryVars, target, owner, edit,
                 pollVars, storeVars>>

SelectRecord ==
  /\ writerPC = "record"
  /\ stored' = owner
  /\ writerPC' = "idle"
  /\ UNCHANGED <<engineVars, requested, paramVars, registryVars, target, owner,
                 edit, pollVars, knob, blob>>

-----------------------------------------------------------------------------
(* setKnob and adjustKnob, under the same lock.                            *)

\* The value goes live at once.  Nothing between the read of Current and the
\* engine call changes what either does, so they are one step.
KnobApply(v) ==
  /\ writerPC = "idle"
  /\ current # NoPatch
  /\ owner' = current
  /\ edit' = v
  /\ live' = [live EXCEPT !.knob = v]
  /\ writerPC' = "knob"
  /\ UNCHANGED <<engineVars, requested, staged, registryVars, target, pollVars,
                 storeVars>>

KnobStore ==
  /\ writerPC = "knob"
  /\ knob' = [knob EXCEPT ![owner] = edit]
  /\ writerPC' = "idle"
  /\ UNCHANGED <<engineVars, requested, paramVars, registryVars, target, owner,
                 edit, pollVars, stored, blob>>

-----------------------------------------------------------------------------
(* The daemon's 20 ms poll loop.                                           *)

\* A stale event is only published.
PollTake ==
  /\ pollPC = "idle"
  /\ TakeEvent
  /\ polled' = Head(events).gen
  /\ pollPC' = IF Head(events).kind = "stale" THEN "idle" ELSE Head(events).kind
  /\ UNCHANGED <<requested, paramVars, registryVars, writerVars, seen, storeVars>>

\* Mutant: the generation is not compared.
Awaited_AnyGeneration == status.state = "loading"

\* The event is about the load the registry is waiting for.
Awaited == status.gen = polled /\ status.state = "loading"

PollMarkActive ==
  /\ pollPC = "active"
  /\ IF Awaited
       THEN /\ active' = status.patch
            /\ current' = status.patch
            /\ status' = [status EXCEPT !.state = "active"]
            /\ pollPC' = "current"
       ELSE /\ pollPC' = "idle"
            /\ UNCHANGED registryVars
  /\ UNCHANGED <<engineVars, requested, paramVars, writerVars, polled, seen,
                 storeVars>>

\* ClearStagedPatchParams comes first, whichever load failed.
PollClearStaged ==
  /\ pollPC = "failed"
  /\ staged' = NothingStaged
  /\ pollPC' = "mark failed"
  /\ UNCHANGED <<engineVars, requested, live, registryVars, writerVars, polled,
                 seen, storeVars>>

PollMarkFailed ==
  /\ pollPC = "mark failed"
  /\ IF Awaited
       THEN /\ current' = active
            /\ status' = [status EXCEPT !.state = "failed"]
            /\ pollPC' = "current"
       ELSE /\ pollPC' = "idle"
            /\ UNCHANGED <<current, status>>
  /\ UNCHANGED <<engineVars, requested, paramVars, active, writerVars, polled,
                 seen, storeVars>>

PollReadCurrent ==
  /\ pollPC = "current"
  /\ seen' = current
  /\ pollPC' = IF current = NoPatch THEN "idle" ELSE "record"
  /\ UNCHANGED <<engineVars, requested, paramVars, registryVars, writerVars,
                 polled, storeVars>>

PollRecord ==
  /\ pollPC = "record"
  /\ stored' = seen
  /\ pollPC' = "idle"
  /\ UNCHANGED <<engineVars, requested, paramVars, registryVars, writerVars,
                 polled, seen, knob, blob>>

-----------------------------------------------------------------------------
(* The engine's steps, which leave the Go side alone.                      *)

Loaders ==
  /\ \E g \in LoadGens : Loader(g)
  /\ UNCHANGED <<requested, paramVars, goVars>>

SwapDrain ==
  /\ SwapBegin \/ SwapPick \/ SwapDiscard \/ SwapNothing
  /\ UNCHANGED <<requested, paramVars, goVars>>

\* apply_staged_patch_params: the staged fields go live with the new backend.
Landed == [gain |-> IF staged.gain = NoPatch THEN live.gain ELSE staged.gain,
           knob |-> IF staged.knob = NoValue THEN live.knob ELSE staged.knob]

SwapWithParams ==
  /\ SwapInstall
  /\ live' = Landed
  /\ staged' = NothingStaged
  /\ UNCHANGED <<requested, goVars>>

SelectStep ==
  \/ SelectSave \/ SelectSaveFails \/ SelectRejected \/ SelectRequest
  \/ SelectStageGain \/ SelectMark \/ SelectReadCurrent \/ SelectStageKnobs
  \/ SelectRecord \/ KnobStore

PollStep ==
  \/ PollTake \/ PollMarkActive \/ PollClearStaged \/ PollMarkFailed
  \/ PollReadCurrent \/ PollRecord

Next ==
  \/ \E p \in Patches : SelectBegin(p)
  \/ \E v \in Values : KnobApply(v)
  \/ SelectStep
  \/ PollStep
  \/ Loaders
  \/ SwapDrain
  \/ SwapWithParams

Spec == Init /\ [][Next]_vars

-----------------------------------------------------------------------------
(* Properties.                                                             *)

NothingInFlight == \A g \in LoadGens : ~InFlight(g)

\* Every thread has finished with every load.
Settled ==
  /\ writerPC = "idle" /\ pollPC = "idle"
  /\ events = <<>>
  /\ NothingInFlight

(***************************************************************************)
(* Once a switch has settled as active, the engine plays the patch the     *)
(* registry calls current and active, no later load is waiting, and the    *)
(* state store will restore that patch: the promise of SelectPatch's doc   *)
(* comment, whatever raced on the way.                                     *)
(***************************************************************************)
SettledAgreement ==
  Settled /\ status.state = "active" =>
    /\ current = status.patch
    /\ active = status.patch
    /\ Sounding = status.patch
    /\ installed = generation
    /\ stored = status.patch

(***************************************************************************)
(* The registry calls a load active only when the engine has installed it, *)
(* and failed only when the engine never did: an event of one load is      *)
(* never credited to another.                                              *)
(***************************************************************************)
StatusTruthful ==
  /\ status.state = "active" => /\ status.gen <= installed
                                /\ active = status.patch
                                /\ requested[status.gen] = status.patch
  /\ status.state = "failed" => /\ installed # status.gen
                                /\ status.gen > 0 => ~InFlight(status.gen)

(***************************************************************************)
(* The state blob saved for a patch came from that patch's own plugin.     *)
(* (SaveActiveClapState: "persists the audio-confirmed active CLAP         *)
(* backend".)                                                              *)
(***************************************************************************)
BlobFromOwnPlugin == \A p \in Patches : blob[p] \in {p, NoPatch}

(***************************************************************************)
(* A knob turned on the current patch is what the engine plays and what    *)
(* the store remembers, once the switch has settled.  (applyMu's comment:  *)
(* without the lock, concurrent writers "leave the engine, state.toml, and *)
(* SSE subscribers disagreeing about the last write".)                     *)
(***************************************************************************)
KnobsAgree ==
  Settled /\ status.state = "active" => live.knob = knob[current]

=============================================================================
