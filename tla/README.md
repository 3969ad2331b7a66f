# polyclav, formally

TLA+ models of the polyclav daemon and of its web interface, the TLC configurations that check them on
small instances, and TLAPS proofs of the theorems that matter most for every
instance. Polyclav is a live keyboard rig: a Go daemon (`cmd/polyclav`,
`internal/*`) that drives MIDI controllers, a web UI and a mixer, and a Rust
audio core (`audio-core`) that hosts plugins and its own synth under a
real-time callback. The two halves talk through a C ABI and a polled queue of
backend events.

What can go wrong in such a program is seldom arithmetic and mostly *order*: a
load that finishes after the next one began, a timer that fires while it is
being replaced, a scheduler goroutine that outlives its clip, a flush that ends
before the last edit. Those are the behaviours modelled here. The web interface has the same
troubles seen from the other end of a network: an echo of what was typed a
moment ago, an answer that a newer event outran, a permission given after the
user has changed his mind.

Contents: [1 inventory](#1-the-system) ·
[2 modules](#2-modules-and-their-correspondence-to-the-code) ·
[3 runs](#3-what-the-runs-check) · [4 bounds](#4-bounds) ·
[5 fairness](#5-fairness) · [6 proofs](#6-what-is-proved) ·
[7 findings](#7-where-code-and-documentation-disagree) ·
[8 not modelled](#8-what-is-not-modelled) · [9 plan](#9-plan)

## 1. The system

| Part (source) | State it keeps | Operations | Talks to | What makes it correct |
|---|---|---|---|---|
| **Engine backend hot swap** (`audio-core/src/lib.rs`) | `SOUNDFONT_GENERATION`, the reload queue, the installed synth, the backend event queue | load requests, loader threads, the callback's drain and install, event poll | loaders to callback by a bounded lock-free queue; callback and loaders to Go by the event queue | the newest loaded patch wins; a backend has one owner; an event is true of its load |
| **Engine lifecycle and disposal** (`lib.rs`, `backend_cpal.rs`) | `STATE`, `LOADERS_ACCEPTED`, `LOADER_EPOCH`, the disposal queue | start, stop, dispose, reset the metrics | everything above | no backend of a stopped engine reaches the next one; nothing is freed on the audio thread |
| **Patch registry and selection** (`internal/patches/patches.go`, `internal/controls/controls.go`) | the patch list, current, active, the status with its generation | `SelectPatch` and its variants, `MarkActive`, `MarkFailed`, panic | requests loads, stages gain and knobs in the engine, edits the state store, publishes on the hub | once a switch settles, registry, engine and store name the same patch |
| **Backend event poll loop** (`cmd/polyclav/main.go`) | locals only | one event every 20 ms at most | takes engine events; drives the registry, the store, the staged parameters | an event of an old load changes nothing |
| **State store** (`internal/state/state.go`) | the snapshot, `dirty`, the wake token, the debounce timer, `state.toml` | every setter, `Run`, `flush`, `Load` | edited by everybody; shutdown in `main.go` | an accepted edit reaches the file; the file never goes back |
| **Clip player** (`internal/player/player.go`) | the run, the playing state and tempo, the held notes | `Play`, `Stop`, `SetTempo`, the scheduler goroutine | pushes MIDI to the engine; calls `OnChange` | no stuck notes, no stale scheduler, observers end with the truth |
| **Change hub and followers** (`internal/controls/hub.go`, `main.go`) | subscriptions with bounded channels | subscribe, publish (drop-oldest), cancel | the controls to SSE and to the patch, velocity and page followers | a follower ends up with the latest state |
| **Screen arbiter** (`cmd/polyclav/screen_arbiter.go`) | the base lines, `busy`, `epoch`, the popup's timer | `ShowPatch`, `ShowPopup`, `WriteDirect`, `Idle`, `expirePopup` | the Launchkey's display | a popup always goes away; the screen is what the arbiter thinks it is |
| **Limiter indicator** (`main.go`, `limiter_meter.go`) | whether its label is up, the meter | one look per poll tick | engine meters; screen arbiter; a pad's LED | the label does not stay |
| **MIDI multiplexer** (`internal/midi/multiplexer.go`) | open ports, the allowlist | `Run`, tick, open, `SetAllow`, close all | the system's ports; the engine | the held notes of a lost port are released; one listener per port |
| **Launchkey reconciler and driver** (`internal/launchkey`) | connection, session, layout | tick, open, disconnect, idle check | ports, pages, screen | each connection is closed and reported once |
| **OSC reachability** (`internal/osc/reconciler.go`) | reachable or not, hits and misses | probe, `Send` | a mixer over UDP | "reachable" means recently heard from |
| **Supervisor** (`internal/supervisor/supervisor.go`) | its reconcilers | `Run` | the three above | it returns when all of them have |
| **MIDI probe session and page** (`internal/midiprobe/session.go`, `internal/web/probe.go`, `web/app/midi-probe`) | the session, its captured events, the label window, the identity channel; the page's copy of the status | `Start`, `Stop`, ingest, label, `IdentityRequest`; connect, capture, ask | HTTP handlers; MIDI listeners; the hub's stream | no port stays open by the way; a capture is of one device; the page knows what is connected |
| **Single instance lock** (`cmd/polyclav/singleton_*.go`) | the lock | acquire, ask the old instance to go | other daemons | one daemon at a time |
| **Control surface** (`internal/controls/pages`, `chain.go`, `macros.go`) | page, stage enables, values | page switch, stage gating, macros | engine parameters, store | a gated stage sounds as off and comes back as it was |
| **Organ routers, drawbar LEDs** (`cmd/polyclav/organ_*.go`) | last fader positions, LED shadows | route, synchronise | Launchkey, engine | faders do not jump; LEDs converge |
| **CLAP parameter cache** (`cmd/polyclav/clap_param_source.go`, `internal/clapcache`) | the parameter list | replace, clear, look up, write | poll loop, engine | a write lands in the plugin it was meant for |
| **Native synth** (`audio-core/src/synth`) | voices, envelopes, oscillators, filters | note on and off, sustain, render | the callback | voices are bounded and released |
| **Plugin hosts** (`plugin_lv2.rs`, `plugin_clap.rs`, `sfizz.rs`) | third-party instances | load, process, state | the callback | (foreign code) |
| **Effects and mastering** (`audio-core/src/dsp`) | filter and delay lines | process | the callback | (signal processing) |
| **Web server and editor** (`internal/web`) | none of the core's | HTTP handlers, the SSE stream | all the operations above | a client's snapshot misses no event |
| **Configuration, downloads, measuring** (`internal/config`, `bootstrap`, `velocity`, `measure`) | files | parse, fetch | start-up and tools | sequential |
| **Dashboard** (`web/app/usePolyclav.ts`, `web/lib/useSSE.ts`, `web/lib/pedalboard/wiring.ts`) | what every knob shows, the pedals, the selected patch; guards, queued edits and their timer | turn, stomp, select; events, snapshot, seed | daemon by HTTP requests in no order and one event stream | at rest the page shows what the daemon has; an edit reaches the patch it was made under |
| **Pedalboard screen** (`web/components/pedalboard`, `web/lib/pedalboard`) | the order, the drag, the folds, the knob held | drag, drop, nudge, fold, edit, turn | dashboard | an order the page was told of last is the order played; a held knob follows the pointer |
| **Velocity card** (`VelocityCard.tsx`) | the staged curve and the active one's name | points, presets, clamps, apply, save | `PUT /api/velocity`, events | what is staged is acceptable; the name is the daemon's |
| **Launchkey debugger** (`web/app/launchkey-debug`, `web/lib/launchkeyDebug.ts`) | source, connect token, handlers, report and timer, held controls | choose a source, connect, import, step, play | Web MIDI, the stream, files | one source is heard; what is shown as held is held |
| **Synth card** (`SynthCard.tsx`, `SliderRow.tsx`, `synthMerge.ts`) | the native patch's block, each widget's own value and timer | slide, choose | `PATCH /api/synth`, events | at rest each widget shows the daemon's value, unless something was kept from the page |
| **Macros screen** (`MacrosScreen.tsx`) | eight slots, queued array, guard | assign, range, name, drive | `PUT /api/macros`, events | the slots typed are the slots stored |
| **MIDI devices and config cards** (`MIDIDevicesCard.tsx`, `ConfigCard.tsx`, `internal/web/mididevices.go`) | working copies of the allowlist and of `config.toml` | tick, apply, load, save, edit | one file, one live list | no keyboard is lost from the list by the way; file and live list agree |
| **Transport, hardware map, scale** (`web/components`) | little | forward to the daemon | HTTP | |

Concurrency. The Go side runs a goroutine per reconciler, per MIDI port, per
HTTP request and per playing clip, and one each for the event poll, the state
writer and the followers. The Rust side runs one thread per load request and
the real-time callback, which may take no lock it could wait on. They meet in
(a) the reload queue, where loaders coalesce while the callback drains; (b) the
load generation, by which the registry tells a current event from a stale
one; (c) the controls' writer lock `applyMu`, which the poll loop does not take
for its own edits; (d) the store's wake channel, and the context that a signal and the
shutdown both cancel; (e) the player's `transport`, `cbMu` and `mu`; (f) the
arbiter's `writeMu` and `mu`; and, between browser and daemon, (g) requests that may
overtake each other, an event stream that drops and reconnects, and the debounce
timers and guards of the page. Each module below takes one of these meeting points
at the granularity at which another thread can observe it.

"hazards" in `PROJECT.json` lists, line by line, the orders and failures this
code is exposed to, and which property answers for each.

## 2. Modules and their correspondence to the code

| Module | Models | Built on |
|---|---|---|
| `LoadOutcome` | what the engine promises of loads, and nothing of how: a requested load is pending until it sounds or is gone; the sounding load is only replaced by a later one; what is gone never comes back | |
| `BackendSwap` | the engine's side of a load: requests, loader threads, reload queue, callback, event queue | implements `LoadOutcome` |
| `PatchLoad` | a patch switch end to end: the writer, the poll loop, the registry, staged and live parameters, what the store remembers | extends `BackendSwap` |
| `StateStore` | the store's edits and write loop, the daemon's shutdown, kills and restarts | |
| `Player` | the clip player | |
| `ScreenArbiter` | the arbiter and the device it writes to | |
| `Display` | hub subscription, patch follower, limiter indicator, popups | extends `ScreenArbiter` |
| `Multiplexer` | the MIDI multiplexer and its listener goroutines | |
| `PedalWiring` | which knob is carried by which surface, in which unit; which pedals bypass in the engine | |
| `Dashboard` | the page's live copy of the settings, its requests, stream, snapshot and seed, and the daemon that serves them | extends `PedalWiring` |
| `ParamModel` | role, range and default of every knob of the board and the synth | |
| `Board` | the pedalboard screen: order, folds, editor, knobs | extends `ParamModel`, `PedalWiring` |
| `VelocityEditor` | the velocity card | |
| `LaunchkeyMessages` | the decoding of the keyboard's messages in the three forms the debugger gets them | |
| `MidiDebugger` | the Launchkey debugger page | extends `LaunchkeyMessages` |
| `SynthForm` | the synth card, its widgets and the daemon's clamps | |
| `MacroSlots` | the macros screen and the daemon's slots | extends `ParamModel`, `PedalWiring` |
| `DeviceSettings` | the MIDI devices and the config card over one file | |
| `MidiProbe` | the probe's session, its HTTP handlers, and its page | |
| `MCPatchLoad`, `MCDisplay`, `MCWeb` | the symmetry, texts, blocks, files and reports TLC is given; `MCWeb` puts the seven screens into one run | |
| `BackendSwapProofs`, `StateStoreProofs`, `PlayerProofs`, `MultiplexerProofs`, `DisplayProofs`, `DashboardProofs` | theorems | extend the component's module |
| `PatchLoadProofs` | theorems of the switch, over those of the engine | extends `PatchLoad`, `BackendSwapProofs` |
| `CardProofs` | theorems of the seven screens that `MCWeb` checks | extends their modules |

**`BackendSwap`.** A backend is known by the generation of its load. `RequestLoad`
takes the next generation and starts a loader, whose place in the code is
`loader[g]`. It fails (`LoaderFail`), or builds its backend and pushes it
(`LoaderPush`). On a full queue it reads the latest generation (`LoaderReadLatest`)
and pops: what is obsolete is disposed of (`LoaderCoalesce`), a newer worker's backend
is taken out and put back (`LoaderYield`, `LoaderPutBack`, whose push may find the
queue full again), and at an empty queue it pushes once more
(`LoaderFinalPush`). The callback reads the generation once (`SwapBegin`), pops
until the queue is empty (`SwapPick`, `SwapDiscard`) and installs
(`SwapInstall`). `Report` is `push_backend_event`, with the event it loses when
two threads meet at a full queue. An engine stopped since the request, or an
overflowed disposal queue, appears only as `LoaderRefused`, which may happen to any load.

**`PatchLoad`.** `SelectBegin` to `SelectRecord` are `SelectPatch` under `applyMu`,
a step for each critical section or engine call: whose CLAP state to save, the save,
the request, the gain staged after the request, the registry's new status with the
generation read at that point, the current patch re-read, the knobs
staged, the store. `KnobApply` and `KnobStore` are `setKnob`. `Poll...` is the
poll loop handling one event. The engine's steps are those of `BackendSwap`; at
`SwapInstall` what is staged goes live (`SwapWithParams`).

**`StateStore`.** The snapshot is a version number: an edit makes the next. `wake` is
the channel's one token; the timer is off, armed, or fired with its tick unread.
`flush` is its critical section (`FlushTake`: copy, mark clean) and its file
operations (`FlushWrite` or `FlushFails`). `Signal`, `ShutdownBegins`,
`ShutdownSave` ... `ShutdownExit` are the end of `main`, whose last wait is for the
loop or for two seconds. `Kill` may come anywhere and restarts from the file.

**`Player`.** A caller holds `transport` from `BeginPlay` or `BeginStop` on; it finds the
run, cancels it, waits for `done`, and a Play then installs and publishes under `cbMu`.
The scheduler of a run waits, emits and, at a cancellation or the clip's end,
goes through `finish`: `Release` the held notes, `Flip` to not playing with its callback,
`Clear` the player's run, `Close` the channel. Waiting times are arbitrary.

**`ScreenArbiter`, `Display`.** An operation changes the arbiter's state and then writes the
device, holding `writeMu`: `writing` is that write on its way, and it succeeds or
fails. A timer that has fired waits for `writeMu` and is past stopping.
The follower reads name and status separately and remembers what it has shown
only if the write succeeded; the limiter's look, read and write are separate
steps, since switches and popups come between them.

**`Multiplexer`.** `Run` is one process: it reads the port list (`ListPorts`, or
`ListFails`), reconciles the map with it and with the selection (`Reconcile`), then
cancels (`StopOne`) and opens (`OpenOne`) outside the lock, one port at a time; at the
context's end `CloseAll` empties the map and `Return` waits. Each listener goroutine is
another: it forwards notes (`NoteOn`, `NoteOff`), stops because it was told to or because
its port failed (`ListenEnds`), releases what it holds (`Release`), removes its own entry
(`Forget`) and closes its channel (`Close`). `ringing` is what the engine was told to
sound. A port is its name, so the selection's substring match is membership; two ports
of one name are the code's documented limitation.

**`Dashboard`.** The page and the daemon. `SetParam`, `SelectPatch` and `TogglePedal` are
the functions of the hook; `Flush` is the debounce timer; `GuardExpires` the half second
after an edit in which echoes of it are ignored. `net` is a set: requests of one page are
separate connections and arrive in any order. `Serve` is the daemon's handler, which
stores and publishes; `Announce` drops the oldest event of a slow subscriber, as the hub
does. `Connect`, `SendSnapshot` and `StreamLost` are the stream, which subscribes before it
writes its snapshot; `SeedRead` and `SeedApply` are `GET /api/chain`, read at one time and
applied at another. Three variables are the reader's and no part of the code: `behind`
(what the page was not told, or was told while a guard or a bypass hid it), `overtaken`
(what it was told of after the seed was read) and `reseeded` (a snapshot moved the
selected patch under a queued edit).

**`Board`.** `DragStart` to `DragEnd` are the drag handlers of a strip; `Drop` takes the
dragged strip or, without one, whatever text the drop carries. `Reorder` shows the
order at once and sends it, and forgets the request: `TakeOrder` is the daemon's permutation
check, store and announcement, `OrderLost` a request that fails. `OtherReorder` is another
page. `HearOrder` takes an announcement from the stream, `OrderDropped` is the hub's
drop-oldest, `BoardStreamLost` and `BoardStreamBack` are the connection. Its snapshot says nothing of
the order; the page asks for the chain instead, and `ReadChain`, `HearChain` and `ChainFails`
are that `GET`, whose answer overwrites whatever is shown by then. `untold` (the newest word
on the order did not reach the page) and `overtaken` (the order changed after the
answer was read) are the reader's. `PointerDown`, `PointerMove` and `PointerUp` drag a knob from the value
and place of the press; `Turn` is the wheel, the keys and the double click. Knobs are
in hundredths of what they show.

**`VelocityEditor`.** The canvas' handlers, in velocities instead of pixels, and the two
requests. `Body` is what is sent, reduced to the name the daemon will announce and to
whether it accepts the curve. `velMap` is modelled on points; the power curve is not.

**`LaunchkeyMessages`, `MidiDebugger`.** `Press`, `Release` and `Squeeze` are the player;
`Emit` sends the message to the browser's handlers and to the daemon's stream. `Granted`
checks the connect token as the page does; `Effects` is what React runs after a change of
state, and `dirty` the time until then. `unsure` is the reader's: the controls of which
the page missed a message.

**`SynthForm`.** A leaf of the block is known by its path. `Slide`, `SendFires` and `HoldEnds`
are `SliderRow` with its two timers, `Choose` the select and the toggle. `Store` is the
daemon's clamp, keep and announce, over `cached`, the block applied last. What it announces
of a leaf is the whole group or row (`SynthEventOf`); the name of the patch rides along, and of a row's
event `applySynthEvent` merges that too, as a leaf `patch` for which `PathsOf` has
no widget, since `OscRow` draws numbers and known names only. A select may be lost (`ClickLost`)
and the load it asked for may fail (`PatchFails`): then the registry goes back and the event that
should say so has no data. `SynthConnect`, `SynthSnapshot` and `SynthStreamLost` are the stream, which
subscribes before it writes its snapshot; `SynthDropped` is the hub's drop-oldest, whose
queue other changes fill too. A dropped event, and one without data, leave a `Gap` in the queue,
at which the page learns nothing. `astray` is the reader's: something was kept from the page, and no
whole block has come since. `IsBlock` is what Go's struct of fixed fields and three
oscillators and `clampSynth` make of any block, and is assumed of the initial ones. `Show` unmounts the
card with what its widgets hold where the patch has no block, and keeps them where it has one.

**`MacroSlots`.** `setMacros` shows, queues and guards; `flushMacros` sends; `SwitchPatch`
ends guards and keeps the queue; `LeaveScreen` sends on the way out. `AnswerGet` and `HearGet`
are the seed of a connection. `contested`, `outdated` and `overruled` are the reader's.

**`DeviceSettings`.** Requests and answers of both cards are in `calls`. `SaveList` writes the
file under its lock; the live list follows in `SetAllow`, outside it. `SaveText` replaces
the whole file. `SaveConfig` and `EditConfig` are the config card's button and text, which the
user has before the text is loaded too (`loaded`); the text is then empty (`NoText`),
and an empty text is a valid one. `EditConfig` changes the list in the text, whose line it is, or the rest.
`struck` is the reader's: the entries taken out of the text by hand, or missing from a text saved
unloaded. `Restart` reads the live list from the file. What an entry matches is a
constant relation.

**`MidiProbe`.** A connection is named by its turn, and opening one starts its listener.
`StartLooks`, `StartOpens` and `StartBegins` are `Start`: its first look under the lock,
the ports opened without it, its second look, which may find that another Start came
first. `StopLetsGo` and `Closes` are `Stop`, `Publishes` the status each publishes after
it has let go of the lock. A handler between two such steps is a record in `handlers`;
those of other pages are there with `mine` false. `Ingests` is a message, from any
connection that is open; the first identity reply goes to `identityCh`, the last
request that waits. `HearAnswer` and `HearChange` are the page's two ways to a status:
an answer is read (`AnswerReads`) at one time and heard at another, or is lost (`AnswerLost`), the page's
first and only question with it. `DaemonRestarts` leaves a session at rest, nobody's
requests, and a page whose stream comes back and whose status stays. `missed` are the versions of
statuses that the page was never told of: not by an event, for want of one or since it was lost, and,
at the load of a page, the one there is. `version`, `newest`, `missed`, `capture` and `straddled` are the reader's.

"map" in `PROJECT.json` names, for every definition that models code, the file
and the lines it stands for.

## 3. What the runs check

Passing runs:

| Run | Instance | Properties | What it shows |
|---|---|---|---|
| `backend_swap` | 3 loads, reload queue of 1, event queue of 2 | `OneOwner`, `EventsTruthful`, `ImplementsPromise`, `LoadsResolve` | loaders that coalesce a full queue against a draining callback neither duplicate nor strand a backend; each event that is read is true of its load; the whole implements `LoadOutcome`; each load ends |
| `patch_load` | 2 patches, 2 loads | `SettledAgreement`, `StatusTruthful` | when a switch has settled as active, engine, registry and store agree; a status is about the load that is awaited |
| `state_store` | 2 editors, 3 edits, 1 kill | `EditsAccountedFor`, `DirtyIsScheduled`, `FinalFlushCovers`, `FileNeverGoesBack`, `EditsReachFile` | an edit is in the file, or dirty, or being written, or its write failed; a dirty snapshot always has someone coming for it; the final flush takes all that was edited before the shutdown |
| `player` | 2 callers, 2 notes, 3 runs | `NotesAreOwed`, `NoRunMeansSilence`, `OnlyTheRunPlays`, `ObserversAgree`, `TransitionsEnd` | no note is left ringing, only the current run reaches the synth, callers that see no run can rely on silence, observers end with the truth, and every call returns |
| `display` | 2 popups, 2 switches, hub buffer of 1, failing device | `PopupHasTimer`, `ScreenMatchesArbiter`, `FollowerCaughtUp` | a popup on the screen has a timer that will take it down; the device shows what the arbiter holds; the follower catches up although events are dropped |
| `multiplexer` | 2 ports, 2 listeners | `NoStuckNotes`, `NoOrphans`, `SelectedPortsHeard`, `RunReturns` | held notes are released however a port goes away; the map never names a listener that has left, and a listener nobody told to stop is in the map; a port that stays selected is heard, however often it dies; `Run` returns |
| `dashboard` | 3 knobs (a stage's, a global one, a soft-bypassed one), 2 patches, 2 operations, every fault | `PendingIsCurrent`, `DashboardAgrees`, `PageSettles` | an edit queued under one patch is never sent to another; at rest page and daemon agree except where the page was not told; left alone, the page comes to rest |
| `web` | seven screens, 2 to 6 operations each | `BoardOrderAgrees`, `DropMovesOne`, `KnobFollowsPointer`; `CurveIsAcceptable`, `LabelNamesCurve`; `OneSourceHeard`, `ShownIsPlayed`; `SynthAgrees`; `MacrosPersist`; `NothingSlips`, `LiveIsSaved`; `NoPortLeaks`, `ProfileIsOfOneDevice`, `PageKnowsProbe` | each screen against its own requests, events, timers and faults |

The screens of `web` share no variable, so a behaviour of the page is an interleaving of
behaviours of its screens, and a safety property of one screen holds of the page if it
holds of that screen alone. In `MCWeb` each behaviour therefore moves one screen (`part`),
the others resting in an initial state. The board has two parts, its order (`board`) and its
knobs (`knobs`): they meet only in which screen is open, and each part leaves the other's variables
alone. A strip is dragged only while the stream is up and no chain is asked for; nudges, which
send orders the same way, come at any time. The proofs know none of these limits. The dashboard has a run of its own for its fairness.

Type invariants and `PicksAreCurrent` are theorems and in no run. Every one of these properties is
broken by at least one small change of the code's model that `PROJECT.json`
lists under "mutants": a dropped put-back in the loader's coalescing, a
generation read too early, a `dirty` cleared after the write instead of before,
a `done` channel closed before the notes are released, and so on. The mutated
operators stand next to the ones they change.

Runs that end in a counterexample (`clap_blob`, `knob_lost`, `clap_save`, `failed_load`) are described in [section 7](#7-where-code-and-documentation-disagree).

Deadlock is checked everywhere but for the state store, where a daemon that has
exited has nothing left to do, and for the web, where users who have used up their
operations may leave a page at rest. The other modules never come to rest: the callback
is called again, the tempo can be set, the limiter indicator looks again, ports come and go.

## 4. Bounds

| Constant | Value | Why it is enough |
|---|---|---|
| `MaxGen` (BackendSwap) | 3 | a loader that coalesces, a newer backend it takes out and puts back, and a third that takes the room in between; both pushes that can lose a backend do lose one in this run |
| `ReloadCap`, `EventCap` | 1, 2 | the smallest queue is the one that fills, and so coalesces, most; an event is dropped from a queue that keeps another. The code has 4 and 128, and the proofs hold for any capacity |
| `MaxGen` (PatchLoad) | 2 | one load superseding another; the deeper queue interleavings are the subject of `backend_swap` |
| `Patches`, `Values` | 2; 1 or 2 | a patch left and a patch chosen; two knob values where a run compares values |
| `MaxEdits`, `MaxKills` | 3, 1 | an edit before, during and after a flush; a kill followed by a whole second life of the daemon |
| `Callers`, `Notes`, `MaxRuns` | 2, 2, 3 | a run being torn down, its successor, and one more started by the caller that waited |
| `MaxPopups`, `MaxSwitches`, `MaxClears` | 2, 2, 1 | a fired timer against a newer popup; two switches through a subscription that holds one event |
| `Ports`, `Notes`, `MaxListeners` | 2, 1, 2 | an old and a new listener of one port, whose notes and entries could be confused, or one of each port; the model reuses a listener's name once it is gone, so histories are unbounded |
| `Knobs`, `Patches`, `Levels` (Dashboard) | 3, 2, 2 | a knob of each surface: of a stage with an enable, of a pedal bypassed softly, and a global one that no patch keeps |
| `SubCap`, `MaxOps` (Dashboard) | 2, 2 | an event is dropped behind another; two acts of the user, of another client or of the network, each followed by all it sets off |
| `BoardPedals`, `Heights`, `BoardOps` | 3, {-150, 0, 150}, 3 | a pedal before, between and after others; a drag beyond either end of the range and back; two orders in the air and another page's. The daemon starts with the default order or another |
| `Top`, `MaxPoints`, `VelOps` | 5, 4, 4 | a point more than at the start, added, dragged to its neighbours and removed; the most points reached. The code's `Top` is 127; any from 2 on has room for the three points of a new curve, and is all the proofs assume |
| `Played`, `Files`, `HistoryCap`, `HubCap`, `DebugOps` | 2 controls, 1 report, 2, 2, 6 | a pad, with pressure and two kinds of release, and a switch, on different ports; a report out of order, with a foreign item; the list and the queue both overflow. It takes six to play a control while the page is offline and have the event come in after it is back |
| `Blocks`, `Sampled`, `SynthOps` | 2, 1, 2 | native to native, to sampled and back; a scalar, a group's leaf and two rows; an edit against a switch, two switches that cross, each with a load that fails or a stream that is lost |
| `Slots`, `Offered`, `Typed`, `MacroOps` | 2, 1, {-5, 20}, 3 | a slot edited and one sent along; a number out of range |
| `Ports`, `Entries`, `Plugged`, `SettingsOps` | 3, 3, 2, 3 | one keyboard under two addresses, one entry matching both, another keyboard absent at first; an edit of the text, its save and a restart |
| `BufferCap`, `ProbeHubCap`, `ProbeOps` | 1, 2, 3 | a record that drops, a subscription that does; two requests that race and one in between. `MCWeb` adds: two connections in a history, and two handlers at once while the page is open. Disconnecting is not counted: a Stop needs a session to stop |

A bound guards the action that starts something (a request, an edit, a call, a
popup, a listener), never the steps that finish it, so no bound cuts a history short in the
middle. Two bounds need a word: with `MaxEdits` used up the shutdown finds nothing to
save, which the code's shutdown may find as well; and `MaxClears` bounds how often
the limiter lets go, since each time is a patch display and thus an epoch.

## 5. Fairness

Liveness is claimed where the code's scheduling justifies it.

* `BackendSwap`: weak fairness of each loader thread and of the callback. Threads
  are scheduled by the operating system and the audio device keeps calling back
  while the engine runs. Requests and event polls are not fair: nobody has to
  switch patches, and loads resolve whether or not their events are read.
* `StateStore`: weak fairness of the write loop, of its timer, of an editor between
  its edit and its wake, and of the shutdown once begun. Nothing is assumed of
  editors, signals or kills, and the loop's write may fail each time.
  `EditsReachFile` is stated accordingly. It holds under a bounded number of
  edits; an endless stream of them restarts the debounce each time and the code
  would never write (listed as a hazard).
* `Player`: weak fairness of each caller inside `Play` or `Stop` and of each
  scheduler, none of starting an operation. A clip need never end by itself:
  `TransitionsEnd` rests on the cancellation, not on the clip.
* `Multiplexer`: weak fairness of `Run`, and of each listener for what it must do: stop
  once told to, release, leave. Strong fairness of `CloseAll`, because Go's `select` picks
  at random among ready cases and so does not prefer the ticker to a done context for
  ever. Ports need not die, and the world is not fair. `SelectedPortsHeard` is stated
  under the condition that the port list can be read again and again.

* `Dashboard`: weak fairness of the debounce timer and of the guards (the browser's timers),
  of event delivery, reconnection and the snapshot (the browser and the hub), of the chain's
  seed, and of the daemon's answers and loads. Users and faults are not fair; there are
  boundedly many, without which a page that loses its stream for ever would never rest.
* The screens of `MCWeb` state safety only.

## 6. What is proved

Proofs are in modules of their own and hold for every value of the constants.
They rest on the modules' named assumptions and on nothing else. Of the daemon's side:
`BackendAssumption`, `PatchAssumption`, `StoreAssumption`, `PlayerAssumption`, `MultiplexerAssumption`,
`ArbiterAssumption`, `DisplayAssumption` (bounds and capacities are naturals, positive where
the code's are, requested tempos are naturals, `Nobody` is not a caller and `NoPort` not a port).
Of the web's: the knobs are among those of the wiring table, levels are naturals with 0 among
them, the heights a pointer can be at are integers with 0 among them (`HeightsAssumption`), the pedals
of a board are a listing of stages and nothing foreign is one (`BoardPedalsAssumption`,
`ForeignAssumption`), each knob's default lies in its range (`SpecsAssumption`, a fact about the
tables that TLC evaluates), a curve has room for its three points (`TopAssumption`,
`MaxPointsAssumption`), what is played is on the keyboard (`PlayedAssumption`), slots are among
the eight (`SlotsAssumption`), an entry matches the port it is made for (`EntryForAssumption`), and
the synth's blocks have one shape and clamped values (`BlockAssumption`, from
`controls.go:207-232, 369-425`). Each follows the same plan: the initial states
satisfy `IInv`; every action of the next-state relation keeps each conjunct of it;
`IInv` implies the property; PTL puts the three together.

**`BackendSwapProofs`**: `TypeCorrect`, `BackendsHaveOneOwner`, `OnlyCurrentPicked`,
`EventsStayTrue`, `EngineKeepsPromise`. The invariant is `EngineTypeOK` with

* `PutBackHolds`: exactly the loaders that are putting a backend back have one;
* `Owned`: `OneOwner`, rephrased over membership in the queue (`OwnedIsOneOwner` shows
  the two are equivalent);
* `Requested`: a loader exists once its load is requested, and nothing in the engine is
  of a load not requested yet;
* `Current`: between drains the callback holds nothing, and what it picked is of the
  generation it read and newer than what sounds.

`OneOwner` alone is not inductive: a put-back would queue a backend a second time
unless the loader is known to have it, and a new request would collide with a backend
of the same generation unless there is none. For `EventsStayTrue` the invariant also
has that the event queue tells the truth, which every step preserves because a
backend that is gone has nowhere to come back from. For `EngineKeepsPromise`, each
action is shown to be `Request`, `Drop` or `Replace` of `LoadOutcome`, or to leave every
outcome alone.

**`StateStoreProofs`**: `TypeCorrect`, `NoEditForgotten`, `LoopLearnsOfEdits`,
`ShutdownKeepsEdits`, `FileOnlyAdvances`. To the three invariants the proof adds
`Behind` (file, copy, failed write and the version at the cancellation are never newer
than the snapshot, nor the file than the copy), `CopyOrDirty` (an edit after the copy
was taken has marked the snapshot dirty again) and `FinalIsLate` (the final flush
comes after the cancellation and has at least what the snapshot held then).
`NoEditForgotten` needs `CopyOrDirty` at the end of a write; `ShutdownKeepsEdits` needs
`FinalIsLate`; `FileOnlyAdvances` needs `Behind`.

**`PlayerProofs`**: `TypeCorrect`, `NoStuckNotes`, `NoStaleScheduler`,
`SilenceWithoutRun`, `ObserversEndRight`. The invariant adds who holds the locks
(`TransportHeld`), that whoever is inside `Play` or `Stop` waits for the current run or
for one that has cleared itself, and that a `Play` about to install finds no run
(`StopsTheRun`), that the run not finished is the player's, and owes notes only until
its release (`RunsInTurn`), and that a silenced run which is still the player's has a
switch waiting for it (`SilencedBySwitch`).

**`MultiplexerProofs`**: `TypeCorrect`, `KeyboardsLeaveNoNotes`, `ListenersAccountedFor`.
To the two invariants the proof adds `TickLocals`: a tick begins with nobody left to stop
from the one before, and a port it is about to open has no entry. Without the first,
`Reconcile` would forget a listener that it took out of the map and never cancelled;
without the second, opening a port would displace a listener that nobody told to stop. Type
correctness needs `NoOrphans` in turn: a listener that has left may be reused only because
no entry names it.

**`DisplayProofs`**: `PopupsGoAway`, `ScreenIsKnown`, `DropsLoseNothing`. For the arbiter
the proof adds `WritingIsTrue`: what is about to be written is the base, or the popup that
is up; whatever would make it false takes `writeMu` and writes itself. For the follower it
adds `ReadsAreCurrent`: with no event to come, name and status were read after the last
change. Drop-oldest enters as one fact, `DeliverLeavesOne`: a publication never leaves the
subscription empty.

**`DashboardProofs`**: `NoOldEdit`, `PageAgrees`. The first is inductive as it stands. The
second speaks of a page at rest only and needs to know what it is on the way there. Knobs,
pedals with an enable, and the selected patch are treated alike, as *items*: an event
*tells* of items and *says* a value of some; `Truth` is the daemon's value of an item and
`Shows` the page's. The invariant `DashInv` is then

* `LastWord`: what the last event on the stream about an item says of it is its truth;
  a snapshot at the head is let off for what was dropped behind it;
* `PageKnows`: the page shows an item's truth, or is behind with it, or has it queued, or has
  asked for it, or an event is to come;
* `SeedKnows`: the same of the answer about the chain that was read and not yet applied;
* `Typed`: shapes, and that an unconnected page knows nothing and has no snapshot to come.

Each step is one of three: it leaves the stream alone (`QuietKept`), puts an event on it that
tells of all it changes (`NewsKept`, over `Announced`, where the oldest event may be dropped), or
takes one off it (`TakenKept`). At rest nothing is queued, asked for or to come, and
`PageKnows` is the property. The proof needs no bound on the subscription and none of the
order of requests, and it uses of `FromEngine` only that it is a function.

**`PatchLoadProofs`**: `SwitchDrivesEngine`, `SwitchTypeCorrect`, `StatusIsTrue`, `SwitchesAgree`. A switch
takes its engine steps by the engine's rules (`EngineSteps`), so that the switch implements `EngineSpec`
and with it `LoadOutcome`, and everything proved of the engine holds under it. `SwitchInv` adds

* `LoadKnown`: the registry waits for the latest load, but for the writer's way from the
  request to the mark, and knows the patch that load builds;
* `StatusKnown`: until the load fails its patch is the current one; "active" is said of a
  load not newer than what sounds, "failed" of one that never will;
* `EventKnown`: the event in the poll loop's hand is still true;
* `RecordsCome`: who still has a patch to record has the right one, and an active patch is
  recorded or about to be.

The steps meet in the load's number: what sounds is never newer than the latest request and,
with the status active, never older. The proof gives more than the run asks: `AgreementAtRest`
needs no empty event queue and no idle engine, only a writer and a poll loop at rest.

**`CardProofs`**, screen by screen:

* *MIDI devices and config.* `TypeCorrect`, `SavedIsLive`, `NoEntrySlips`. `SavedIsLive` rests on
  `SaveUnderWay`: unless the session parted them, the live list is the file's, or the one save
  not applied yet is the file's. `NoEntrySlips` rests on `CopiesKeep`: the working copy of the card,
  every list in a request or an answer, the file and, once it was loaded, the text contain
  what the user neither unticked nor struck. An unloaded text contains nothing, which is why its
  save strikes what it does not hold.
* *Probe.* `PortsAreClosed` (`PortsInv`): what is open is what the session holds and what handlers hold
  that are to hand it over or close it, and each connection has one holder, so that none of them
  closes what another one has. `ProfilesAreTrue` (`RecordInv`): nobody straddles two records, so what a
  record, an identity reply and a label are of is the connection that began it.
  `PageShowsSession` (`KnowInv`): every status that is shown, held by a handler or on its way tells the
  truth of its version, and the last version was heard of, or is among the `missed`, or is still to
  come from a handler or the stream.
* *Macros.* `MacrosAreKept` (`MacroInv`): the last edit is queued, on its way or stored; a question asked
  with none under way gets what is stored; and the page shows the edit or has one of
  these to come.
* *Velocity.* `LabelIsTrue` (`LabelInv`): the last announcement on the stream is the applied curve.
  `CurveStaysAcceptable` (`CanvasInv`): whatever the gesture, the points are a `Curve`, strictly
  increasing in what is played and never decreasing in what sounds, with lemmas for a
  point put, dragged and taken out.
* *Debugger.* `OneSourceAtATime` (`SourceInv`) and `ShownAsPlayed` (`HeardInv`), the hardest of these:
  the last word on a control, in the browser's queue and in the daemon's, is true of the
  keyboard (`LastWord`); a control the page is sure of has no message missed since, or a word on
  it to come (`Fresh`), or a message on its way to a handler that is gone, which will
  make the page unsure (`Doomed`); with no word to come, what is shown is right up to
  pressure still to come (`SurfaceRight`).
* *Board.* `KnobsAreHeld` (`KnobInv`), and `BoardAgrees` and `DropsMoveOne` (`OrderInv`): each order is
  the pedals once each, the last announcement on the stream is the daemon's order, an answer that
  was not `overtaken` is the daemon's order too, and with no request and no announcement on its way
  the page shows it or is `untold`. Under them lie lemmas on filters (the k-th element kept has k - 1 kept
  before it), on orders as functions from places, and on `MoveRelative` and
  `NormalizeOrder`, which change no order but as meant.
* *Synth.* `CardAgrees` (`SynthInv`): the events on the stream, applied one by one to the page's block,
  end in the daemon's, up to the text `patch` of the rows (`Same`). That is a fold over the queue,
  about which nothing can be proved by induction here; `EndsIn` says it with a witness instead, the
  list of blocks that the page will go through (`Leads`), which an announcement extends and the
  page's next event shortens. A `Gap` leads
  anywhere, so nothing is claimed across it until a whole block follows; of an `astray` page it is
  not claimed that it starts where the list does. A snapshot comes in
  front of what was announced since the subscription, and is already as those events will make
  it (`Settled`). Under it, an edit changes its leaf and nothing else (`EditStored`), and an event
  merged into a block takes over the leaves it carries (`Applied`), for scalars, groups and rows.

What the proofs taught the model. A curve's middle point and a `Top` of 1 do not go together, which
`TopAssumption` now excludes; the debugger's `unsure` has to be set for a control played
while the page listens to nobody, if its event can still come in (hence six operations); the
order's normalisation, the decoding table and the synth's tables are written as functions
and cases over their keys, in which they can be reasoned about.

Only model-checked: the liveness properties (`LoadsResolve`, `EditsReachFile`,
`TransitionsEnd`, `SelectedPortsHeard`, `RunReturns`, `PageSettles`), since fairness and ENABLED are
out of the prover's reach. Every other property of a passing run is a theorem. The four runs that
end in a counterexample have nothing to prove.

## 7. Where code and documentation disagree

Each of these has a run whose one property states what the quoted line says, and
whose counterexample is a behaviour of the code.

| Run, property | Line | What the run shows |
|---|---|---|
| `clap_blob`, `BlobFromOwnPlugin` | `internal/controls/controls.go:1744` | the CLAP state to save is asked of the backend that sounds, and filed under the patch the registry believes active; in between the swap and the poll of its event they differ, and the new plugin's state is saved under the old patch |
| `knob_lost`, `KnobsAgree` | `internal/controls/controls.go:694` | a knob turned while a patch loads goes live and into the store; the swap then restores the value staged at the select, and the two stay apart |
| `clap_save`, `ClapSaveSurvives` | `cmd/polyclav/main.go:243` | the store's loop shares the signal's context, flushes and ends before the shutdown saves the CLAP state, which is never written |
| `failed_load`, `CurrentAgrees` | `cmd/polyclav/main.go:887` | the poll loop announces the end of a load with an event without data; the page's handler reads its name, throws, and the page goes on naming the patch that failed, with its values |

The wording of the documents, with their lines, is in `PROJECT.json`, "findings".

Met while modelling, with no run of their own:

* `cmd/polyclav/main.go:880`: the late failure of a superseded load clears the parameters
  staged for the newer one, against the comment above it.
* `cmd/polyclav/screen_arbiter.go:73`: a popup's timer that has fired cannot be stopped and
  shares the epoch of the popup that replaced it, which it takes down at once.
* `web/app/usePolyclav.ts:341`: a switch drops every queued knob edit, those of the global
  mastering knobs among them, which are no patch's; and `flush` (line 315) skips the global
  compressor knobs while the page has the compressor bypassed.
* `web/app/usePolyclav.ts:425`: a patch event shows the soft pedals engaged again, although
  a global knob of the compressor that the page had set to 0 is still 0.
* `web/app/usePolyclav.ts:482`: the answer of `GET /api/macros` is applied without the guard
  that events respect; a page can show older slots than it has just stored.
* `web/app/launchkey-debug/page.tsx:607-615`: Pause goes offline first, which stops the
  replay, and then toggles a replay at rest: it never pauses.
* `web/components/TransportCard.tsx:24`: Play is said to honour a tempo drag still in its
  debounce; the value it reads is set by the same debounce.
* `web/lib/pedalboard/model.ts:346` and `order.ts:1`: the order is said to be kept in the
  browser and not to reach the engine; it is sent, stored and played.
* `web/components/SliderRow.tsx:52`: the synth card stays mounted across native patches, and
  a slider's pending send goes to the new one.
* `internal/midiprobe/session.go:159, 186` and `web/components/ProbePortPicker.tsx:37`: statuses
  are published and answered outside the lock, in any order; a page that takes an older one
  last, or loses one with its stream, stays with it. `PageKnowsProbe` excuses both.
* `web/app/midi-probe/page.tsx:39-41`: the page asks for the status once, and ignores a failure; and
  `web/lib/useSSE.ts:12-15` heals the stream of a daemon that has started again, without a word
  about the session that is gone. The page then shows what is not so until the next status.
  `PageKnowsProbe` excuses a page that missed the newest status in one of these ways, and no other.
* `internal/midiprobe/session.go:125, 281`: a Start that loses the race has its listener feed
  the winner's record until it is closed; the listener of a new Start feeds the record of the
  session stopped before it, between `Listen` and the second look (129-135); and a second identity
  request takes the first one's channel. `ProfileIsOfOneDevice` excuses these overlaps, by `straddled`
  and by asking that no connection but the record's is open, and nothing else.
* `web/app/usePolyclav.ts:551-557`: a reorder is shown, sent and forgotten. Where the request fails or is
  refused, or its announcement is dropped by the hub or lost with the stream, board and engine
  have different orders, and the snapshot of a new connection does not carry the order.
  `BoardOrderAgrees` excuses a board that did not get the newest word (`untold`).
* `web/app/usePolyclav.ts:178-186, 471-480`: the answer about the chain overwrites the order without
  a look at what came in between. If the order changed after it was read, the board ends with
  the older one: `overtaken` makes it `untold`. An answer that overwrites an order just asked for is no
  such case, since that order's announcement is still to come.
* `internal/controls/controls.go:848-854` and `web/lib/synthMerge.ts:18-23`: the patch's name is added to
  each synth event, and of a row's event everything but `field` and `index` is merged, so that the
  page's oscillators get a text `patch` which the daemon's do not have. No widget is drawn for it
  (`SynthCard.tsx:361-421`); `SynthAgrees` is about the leaves that have one.
* `web/app/usePolyclav.ts:505-512`: a patch is shown as selected before the daemon has it, and nobody
  looks at the answer; a patch event of a failed load has no data; the hub drops events; and a
  select of a patch without a block leaves the last block in place (445). `SynthAgrees` excuses a
  page from which one of these was kept (`astray`) until it gets a whole block.
* `web/components/ConfigCard.tsx:56-61`: text and Save are there before `config.toml` is loaded, and after it
  could not be; `internal/web/editor.go:45-51` takes the empty text, and from the next start on the allowlist
  is empty. `NothingSlips` counts what such a save leaves out as struck out by the user.

## 8. What is not modelled

Signal processing (oscillators, filters, effects, mastering, meters) is
continuous and belongs to numerical tests. Third-party plugins are an answer or
none. Parsing and formatting (configuration, TOML, HTTP bodies) are data
transformations with no state between calls; drawing has no state at all.

Absent from the modelled parts, by module: the disposal queue, engine start/stop and
loader epoch (`BackendSwap`); the native synth block, the CLAP parameter cache, panic and
the chain (`PatchLoad`); the contents and decoding of the file (`StateStore`);
subscription and cancellation, the velocity and page followers, meter arithmetic
and the pad flash (`Display`); the idle watchdog, the raw sink and the decoding of
messages (`Multiplexer`); player, devices and note monitor (`Dashboard`); the scale control
and the tabs (`Board`); the gamma mode's power curve and the trail of played notes
(`VelocityEditor`); the daemon's restart, which to the page is a stream lost and a new snapshot, and a
kill that loses an edit not yet in the file (`Board`, `SynthForm`); parts of `config.toml`
other than the allowlist, whose line it is, and whether the rest is valid (`DeviceSettings`); raw
sends, the port list and the rows of the log (`MidiProbe`).

Not modelled at all, and what a model of each would be about: the **engine's life cycle**
(no backend of a stopped engine in the next one, nothing freed on the audio thread); the
**Launchkey reconciler and driver** with the **supervisor** (a connection driven by port loss,
a poll tick and the context's end is closed and reported once, `reconciler.go:175`); **OSC
reachability** (a late reply answers the next ping, `osc/reconciler.go:175`); the **single instance lock**; the
hardware **pages**, **organ routers** and **drawbar LEDs**; the **CLAP parameter cache**; the
**native synth**'s voices as a discrete machine. The transport and hardware-map cards
of the web are thin forms over these. The order of the list is the order in which they
would be worth adding.

## 9. Plan

Done: the engine's swap and the switch end to end, the store, the player, the screen, the
multiplexer, and the web interface but for its thinnest cards. What is left, in order:

1. `EngineLifecycle`: start, stop, loader epoch and disposal queue under `BackendSwap`, whose
   `LoaderRefused` stands for all of them today (`lib.rs:685`).
2. `LaunchkeyLink`: the reconciler's connection, its losses and its callbacks, under the supervisor.
3. `OscReach`: heartbeats over a network that loses and delays.
4. With each of these its proof over the invariants there are: `EngineLifecycle` over
   `BackendSwapProofs`, whose `IInv` it has to extend by the epoch.
