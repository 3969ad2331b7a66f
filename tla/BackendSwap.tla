----------------------------- MODULE BackendSwap -----------------------------
(***************************************************************************)
(* The engine's side of a patch load (audio-core/src/lib.rs).  A load      *)
(* request bumps SOUNDFONT_GENERATION and spawns a loader thread that      *)
(* builds the backend, prewarms it and pushes it on the lock-free reload   *)
(* queue; the audio callback drains the queue, installs the backend whose  *)
(* generation is the latest one and reports what became of each load on    *)
(* the backend event queue.                                                *)
(*                                                                         *)
(* A backend is known by the generation of the load that built it, so the  *)
(* module's queues and cursors hold generations.  Generation 0 is the load *)
(* of the boot sequence, already installed.  Every step is one atomic      *)
(* access to state another thread sees: a push or a pop of a lock-free     *)
(* queue, a load of the generation counter.                                *)
(***************************************************************************)
EXTENDS Naturals, Sequences

CONSTANTS
  MaxGen,      \* bound of the model: load requests considered
  ReloadCap,   \* capacity of SYNTH_RELOAD_QUEUE (4 in the code)
  EventCap     \* capacity of BACKEND_EVENT_QUEUE (128 in the code)

ASSUME BackendAssumption ==
  /\ MaxGen \in Nat \ {0}
  /\ ReloadCap \in Nat \ {0}
  /\ EventCap \in Nat \ {0}

VARIABLES
  generation,  \* SOUNDFONT_GENERATION
  loader,      \* where the loader thread of each generation is
  latestSeen,  \* current_generation as a coalescing loader read it
  popped,      \* the newer backend a coalescing loader is putting back
  queue,       \* SYNTH_RELOAD_QUEUE, oldest first
  swapPC,      \* the audio callback: idle, or draining the queue
  swapGen,     \* current_gen as swap_pending_backend read it
  selected,    \* the backend the drain has picked so far
  installed,   \* user_data.synth
  events       \* BACKEND_EVENT_QUEUE

engineVars == <<generation, loader, latestSeen, popped, queue, swapPC, swapGen,
                selected, installed, events>>

Gens == 0 .. MaxGen
LoadGens == 1 .. MaxGen

\* No backend: the boot load is never queued, popped or selected again.
None == 0

LoaderPCs == {"unborn", "loading", "push", "full", "coalesce", "putback",
              "final", "done"}

EventKinds == {"active", "failed", "stale"}
Events == [gen : Gens, kind : EventKinds]

EngineTypeOK ==
  /\ generation \in Gens
  /\ loader \in [LoadGens -> LoaderPCs]
  /\ latestSeen \in [LoadGens -> Gens]
  /\ popped \in [LoadGens -> Gens]
  /\ queue \in Seq(LoadGens) /\ Len(queue) <= ReloadCap
  /\ swapPC \in {"idle", "drain"}
  /\ swapGen \in Gens
  /\ selected \in Gens
  /\ installed \in Gens
  /\ events \in Seq(Events) /\ Len(events) <= EventCap

EngineInit ==
  /\ generation = 0
  /\ loader = [g \in LoadGens |-> "unborn"]
  /\ latestSeen = [g \in LoadGens |-> 0]
  /\ popped = [g \in LoadGens |-> None]
  /\ queue = <<>>
  /\ swapPC = "idle"
  /\ swapGen = 0
  /\ selected = None
  /\ installed = 0
  /\ events = <<>>

-----------------------------------------------------------------------------
\* A full event queue drops its oldest event.
WithEvent(q, g, k) ==
  Append(IF Len(q) < EventCap THEN q ELSE Tail(q), [gen |-> g, kind |-> k])

\* push_backend_event.  On a full queue it pops and pushes again, and another
\* thread's event may take the room in between: this event is then the one lost.
Report(g, k) ==
  \/ events' = WithEvent(events, g, k)
  \/ Len(events) = EventCap /\ events' = events

HasRoom(q) == Len(q) < ReloadCap

-----------------------------------------------------------------------------
(* The load request and its loader thread.                                 *)

\* polyclav_audio_reload_soundfont, set_lv2_plugin, set_clap_plugin_with_state
\* and set_native_patch: take the next generation and spawn the loader.
RequestLoad ==
  /\ generation < MaxGen
  /\ generation' = generation + 1
  /\ loader' = [loader EXCEPT ![generation + 1] = "loading"]
  /\ UNCHANGED <<latestSeen, popped, queue, swapPC, swapGen, selected,
                 installed, events>>

\* Mutant: the loader reports the failure and carries on.
LoaderFail_NoReturn(g) ==
  /\ loader[g] = "loading"
  /\ loader' = [loader EXCEPT ![g] = "push"]
  /\ Report(g, "failed")
  /\ UNCHANGED <<generation, latestSeen, popped, queue, swapPC, swapGen,
                 selected, installed>>

\* The loader could not build the backend.
LoaderFail(g) ==
  /\ loader[g] = "loading"
  /\ loader' = [loader EXCEPT ![g] = "done"]
  /\ Report(g, "failed")
  /\ UNCHANGED <<generation, latestSeen, popped, queue, swapPC, swapGen,
                 selected, installed>>

\* The backend is built and prewarmed.
LoaderBuild(g) ==
  /\ loader[g] = "loading"
  /\ loader' = [loader EXCEPT ![g] = "push"]
  /\ UNCHANGED <<generation, latestSeen, popped, queue, swapPC, swapGen,
                 selected, installed, events>>

\* enqueue_preloaded_backend_if_current: the engine has been stopped since the
\* request, or backends have overflowed the disposal queue.  The backend is
\* disposed of and no event says so.  (Neither the engine's lifecycle nor the
\* disposal queue is modelled: this may happen to any load.)
LoaderRefused(g) ==
  /\ loader[g] = "push"
  /\ loader' = [loader EXCEPT ![g] = "done"]
  /\ UNCHANGED <<generation, latestSeen, popped, queue, swapPC, swapGen,
                 selected, installed, events>>

\* Mutant: a push that succeeds does not return.
LoaderPush_NoReturn(g) ==
  /\ loader[g] = "push"
  /\ queue' = IF HasRoom(queue) THEN Append(queue, g) ELSE queue
  /\ loader' = [loader EXCEPT ![g] = "full"]
  /\ UNCHANGED <<generation, latestSeen, popped, swapPC, swapGen, selected,
                 installed, events>>

\* The first push of enqueue_preloaded_backend.
LoaderPush(g) ==
  /\ loader[g] = "push"
  /\ IF HasRoom(queue)
       THEN /\ queue' = Append(queue, g)
            /\ loader' = [loader EXCEPT ![g] = "done"]
       ELSE /\ loader' = [loader EXCEPT ![g] = "full"]
            /\ UNCHANGED queue
  /\ UNCHANGED <<generation, latestSeen, popped, swapPC, swapGen, selected,
                 installed, events>>

\* The queue was full: read the latest generation before coalescing.
LoaderReadLatest(g) ==
  /\ loader[g] = "full"
  /\ latestSeen' = [latestSeen EXCEPT ![g] = generation]
  /\ loader' = [loader EXCEPT ![g] = "coalesce"]
  /\ UNCHANGED <<generation, popped, queue, swapPC, swapGen, selected,
                 installed, events>>

\* A queued backend older than the latest, or than this loader's own, is
\* disposed of.
Obsolete(h, g) == h < latestSeen[g] \/ h <= g

LoaderCoalesce(g) ==
  /\ loader[g] = "coalesce"
  /\ queue # <<>>
  /\ Obsolete(Head(queue), g)
  /\ queue' = Tail(queue)
  /\ UNCHANGED <<generation, loader, latestSeen, popped, swapPC, swapGen,
                 selected, installed, events>>

\* A newer worker won the race: take its backend out to put it back.
LoaderYield(g) ==
  /\ loader[g] = "coalesce"
  /\ queue # <<>>
  /\ ~Obsolete(Head(queue), g)
  /\ popped' = [popped EXCEPT ![g] = Head(queue)]
  /\ queue' = Tail(queue)
  /\ loader' = [loader EXCEPT ![g] = "putback"]
  /\ UNCHANGED <<generation, latestSeen, swapPC, swapGen, selected, installed,
                 events>>

\* The result of the push that puts it back is ignored: if another loader has
\* taken the room meanwhile, the newer backend is dropped here.
LoaderPutBack(g) ==
  /\ loader[g] = "putback"
  /\ queue' = IF HasRoom(queue) THEN Append(queue, popped[g]) ELSE queue
  /\ popped' = [popped EXCEPT ![g] = None]
  /\ loader' = [loader EXCEPT ![g] = "done"]
  /\ UNCHANGED <<generation, latestSeen, swapPC, swapGen, selected, installed,
                 events>>

LoaderQueueEmptied(g) ==
  /\ loader[g] = "coalesce"
  /\ queue = <<>>
  /\ loader' = [loader EXCEPT ![g] = "final"]
  /\ UNCHANGED <<generation, latestSeen, popped, queue, swapPC, swapGen,
                 selected, installed, events>>

\* The second push gives up, and drops the backend, if the queue filled again.
LoaderFinalPush(g) ==
  /\ loader[g] = "final"
  /\ queue' = IF HasRoom(queue) THEN Append(queue, g) ELSE queue
  /\ loader' = [loader EXCEPT ![g] = "done"]
  /\ UNCHANGED <<generation, latestSeen, popped, swapPC, swapGen, selected,
                 installed, events>>

LoaderStep(g) ==
  \/ LoaderRefused(g) \/ LoaderPush(g) \/ LoaderReadLatest(g)
  \/ LoaderCoalesce(g) \/ LoaderYield(g) \/ LoaderPutBack(g)
  \/ LoaderQueueEmptied(g) \/ LoaderFinalPush(g)

-----------------------------------------------------------------------------
(* The audio callback: swap_pending_backend.                               *)

\* Mutant: the callback looks at the queue once per load request.
SwapBegin_OncePerRequest ==
  /\ swapPC = "idle"
  /\ generation # swapGen
  /\ swapPC' = "drain"
  /\ swapGen' = generation
  /\ selected' = None
  /\ UNCHANGED <<generation, loader, latestSeen, popped, queue, installed,
                 events>>

SwapBegin ==
  /\ swapPC = "idle"
  /\ swapPC' = "drain"
  /\ swapGen' = generation
  /\ selected' = None
  /\ UNCHANGED <<generation, loader, latestSeen, popped, queue, installed,
                 events>>

\* Mutant: the callback installs whatever it pops last.
SwapPick_AnyGeneration ==
  /\ swapPC = "drain"
  /\ queue # <<>>
  /\ selected' = Head(queue)
  /\ queue' = Tail(queue)
  /\ UNCHANGED <<generation, loader, latestSeen, popped, swapPC, swapGen,
                 installed, events>>

\* A popped backend of the generation read at the start is picked.
SwapPick ==
  /\ swapPC = "drain"
  /\ queue # <<>>
  /\ Head(queue) = swapGen
  /\ selected' = Head(queue)
  /\ queue' = Tail(queue)
  /\ UNCHANGED <<generation, loader, latestSeen, popped, swapPC, swapGen,
                 installed, events>>

\* Any other generation is reported stale and disposed of.
SwapDiscard ==
  /\ swapPC = "drain"
  /\ queue # <<>>
  /\ Head(queue) # swapGen
  /\ Report(Head(queue), "stale")
  /\ queue' = Tail(queue)
  /\ UNCHANGED <<generation, loader, latestSeen, popped, swapPC, swapGen,
                 selected, installed>>

\* The queue is drained and nothing was picked.
SwapNothing ==
  /\ swapPC = "drain"
  /\ queue = <<>>
  /\ selected = None
  /\ swapPC' = "idle"
  /\ UNCHANGED <<generation, loader, latestSeen, popped, queue, swapGen,
                 selected, installed, events>>

\* The picked backend replaces the sounding one and is reported active.
SwapInstall ==
  /\ swapPC = "drain"
  /\ queue = <<>>
  /\ selected # None
  /\ installed' = selected
  /\ Report(selected, "active")
  /\ selected' = None
  /\ swapPC' = "idle"
  /\ UNCHANGED <<generation, loader, latestSeen, popped, queue, swapGen>>

-----------------------------------------------------------------------------
\* polyclav_audio_poll_backend_event: the consumer takes the oldest event.
TakeEvent ==
  /\ events # <<>>
  /\ events' = Tail(events)
  /\ UNCHANGED <<generation, loader, latestSeen, popped, queue, swapPC, swapGen,
                 selected, installed>>

-----------------------------------------------------------------------------
Queued(g) == \E i \in 1 .. Len(queue) : queue[i] = g
PoppedBy(g) == {h \in LoadGens : popped[h] = g}
InLoader(g) == loader[g] \notin {"unborn", "done"} /\ loader[g] # "putback"

\* A load is in flight until its backend is installed, disposed of or failed.
InFlight(g) ==
  \/ InLoader(g)
  \/ Queued(g)
  \/ PoppedBy(g) # {}
  \/ selected = g

-----------------------------------------------------------------------------
(* The engine alone: loads requested at any time, events polled or not.    *)

Loader(g) == LoaderFail(g) \/ LoaderBuild(g) \/ LoaderStep(g)

Callback == SwapBegin \/ SwapPick \/ SwapDiscard \/ SwapNothing \/ SwapInstall

EngineNext ==
  \/ RequestLoad
  \/ \E g \in LoadGens : Loader(g)
  \/ Callback
  \/ TakeEvent

EngineSpec == EngineInit /\ [][EngineNext]_engineVars

\* Loader threads run to their end and the audio callback keeps being called;
\* nobody has to request a load or to poll events.
EngineFairness ==
  /\ \A g \in LoadGens : WF_engineVars(Loader(g))
  /\ WF_engineVars(Callback)

EngineFairSpec == EngineSpec /\ EngineFairness

-----------------------------------------------------------------------------
(* Properties.                                                             *)

(***************************************************************************)
(* A backend has one owner.  The backend of a load is with its loader, or  *)
(* once in the queue, or in the hands of one loader putting it back, or    *)
(* picked by the callback, or installed; never in two of these, so no two  *)
(* threads ever install, put back or dispose of the same backend.          *)
(***************************************************************************)
OneOwner ==
  /\ \A i, j \in 1 .. Len(queue) : queue[i] = queue[j] => i = j
  /\ \A h, k \in LoadGens : popped[h] # None /\ popped[h] = popped[k] => h = k
  /\ \A g \in LoadGens :
       /\ InLoader(g) => ~Queued(g) /\ PoppedBy(g) = {} /\ g \notin {selected, installed}
       /\ Queued(g) => PoppedBy(g) = {} /\ g \notin {selected, installed}
       /\ PoppedBy(g) # {} => g \notin {selected, installed}
       /\ selected = g => installed # g

(***************************************************************************)
(* An event is the truth about its load: a failed or stale load is nowhere *)
(* in the engine, an active one is the sounding backend or was replaced by *)
(* a later one.                                                            *)
(***************************************************************************)
EventsTruthful ==
  \A i \in 1 .. Len(events) :
    LET e == events[i] IN
    IF e.kind = "active" THEN e.gen <= installed
                         ELSE ~InFlight(e.gen) /\ installed # e.gen

(***************************************************************************)
(* The callback never holds a backend newer than the generation it read,   *)
(* and what it picks is newer than what sounds: a switch that is already   *)
(* superseded when the drain begins is never installed.                    *)
(***************************************************************************)
PicksAreCurrent ==
  /\ installed <= swapGen /\ swapGen <= generation
  /\ selected # None => selected = swapGen /\ installed < selected
  /\ \A i \in 1 .. Len(queue) : queue[i] <= generation

\* The outcome of each load, as the abstract specification sees it.
Outcome(g) ==
  IF g > generation THEN "unrequested"
  ELSE IF g = installed THEN "sounding"
  ELSE IF g > 0 /\ InFlight(g) THEN "pending"
  ELSE "gone"

Promise == INSTANCE LoadOutcome
             WITH requests <- generation, outcome <- [g \in Gens |-> Outcome(g)]

(***************************************************************************)
(* Loaders coalescing a full queue and the callback draining it implement  *)
(* the promise: each step settles at most one load, a load that failed,    *)
(* went stale or was lost never sounds, and the sounding backend is only   *)
(* ever replaced by that of a later request ("rapid pad-spam can't cause   *)
(* the audio to swap to a stale soundfont").                               *)
(***************************************************************************)
ImplementsPromise == Promise!OutcomeSpec

(***************************************************************************)
(* Every load is eventually installed, disposed of or reported failed: no  *)
(* interleaving of loaders coalescing the queue and the callback draining  *)
(* it strands a backend.                                                   *)
(***************************************************************************)
LoadsResolve == \A g \in LoadGens : InFlight(g) ~> ~InFlight(g)

=============================================================================
