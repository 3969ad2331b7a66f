-------------------------------- MODULE Player --------------------------------
(***************************************************************************)
(* The clip player (internal/player/player.go): callers start, stop and    *)
(* retune playback; each playback has a scheduler goroutine that pushes    *)
(* the clip's events to the synth and tears itself down in finish.  Three  *)
(* locks order them: transport (whole Play and Stop transitions), cbMu     *)
(* (a state mutation together with its OnChange call) and mu (the fields,  *)
(* here one atomic step).                                                  *)
(*                                                                         *)
(* Time is left out: a scheduler waits for an arbitrary time, and a tempo  *)
(* kick, which only makes it recompute the wait, is not modelled.          *)
(***************************************************************************)
EXTENDS Naturals, FiniteSets

CONSTANTS
  Callers,  \* goroutines that drive the transport: web, pads, the shutdown
  Notes,    \* notes the clips play
  Requests, \* tempo multipliers asked for, in quarters
  MaxRuns,  \* bound of the model: playbacks started
  Nobody    \* no holder of a lock

ASSUME PlayerAssumption ==
  /\ MaxRuns \in Nat \ {0}
  /\ Requests \subseteq Nat /\ Requests # {}
  /\ Nobody \notin Callers

VARIABLES
  transport,  \* holder of Player.transport
  cbMu,       \* holder of Player.cbMu
  callPC,     \* each caller: where it is in Play or Stop
  joining,    \* the run each caller stops, as it read Player.run
  run,        \* Player.run
  st,         \* Player.st: playing, the run it speaks of, tempo
  published,  \* history: the state OnChange was last called with
  runs,       \* playbacks started so far
  schedPC,    \* the scheduler goroutine of each run
  cancelled,  \* run.cancel is closed
  done,       \* run.done is closed
  silent,     \* run.silent
  held,       \* run.held
  ringing     \* the notes the synth sounds for the player

lockVars == <<transport, cbMu>>
callVars == <<callPC, joining>>
stateVars == <<run, st, published>>
runVars == <<schedPC, cancelled, done, silent, held>>
vars == <<lockVars, callVars, stateVars, runs, runVars, ringing>>

Runs == 1 .. MaxRuns
NoRun == 0

\* 0.25 to 2.0, and 0 for the default, 1.0.
clampTempo(t) == IF t = 0 THEN 4 ELSE IF t > 8 THEN 8 ELSE t

States == [playing : BOOLEAN, of : Runs \cup {NoRun}, tempo : 1 .. 8]

TypeOK ==
  /\ transport \in Callers \cup {Nobody}
  /\ cbMu \in Callers \cup {Nobody}
  /\ callPC \in [Callers -> {"idle", "play", "stop", "play join", "stop join",
                             "install", "publish"}]
  /\ joining \in [Callers -> Runs \cup {NoRun}]
  /\ run \in Runs \cup {NoRun}
  /\ st \in States
  /\ published \in States
  /\ runs \in Runs \cup {0}
  /\ schedPC \in [Runs -> {"unborn", "wait", "sleep", "emit", "release", "flip",
                           "clear", "close", "ended"}]
  /\ cancelled \in [Runs -> BOOLEAN]
  /\ done \in [Runs -> BOOLEAN]
  /\ silent \in [Runs -> BOOLEAN]
  /\ held \in [Runs -> SUBSET Notes]
  /\ ringing \in SUBSET Notes

Init ==
  /\ transport = Nobody /\ cbMu = Nobody
  /\ callPC = [c \in Callers |-> "idle"]
  /\ joining = [c \in Callers |-> NoRun]
  /\ run = NoRun
  /\ st = [playing |-> FALSE, of |-> NoRun, tempo |-> 4]
  /\ published = st
  /\ runs = 0
  /\ schedPC = [r \in Runs |-> "unborn"]
  /\ cancelled = [r \in Runs |-> FALSE]
  /\ done = [r \in Runs |-> FALSE]
  /\ silent = [r \in Runs |-> FALSE]
  /\ held = [r \in Runs |-> {}]
  /\ ringing = {}

-----------------------------------------------------------------------------
(* Callers: Play, Stop, SetTempo.                                          *)

\* Play of an unknown clip returns its error at once and is left out.
BeginPlay(c) ==
  /\ callPC[c] = "idle"
  /\ runs < MaxRuns
  /\ transport = Nobody
  /\ transport' = c
  /\ callPC' = [callPC EXCEPT ![c] = "play"]
  /\ UNCHANGED <<cbMu, joining, stateVars, runs, runVars, ringing>>

BeginStop(c) ==
  /\ callPC[c] = "idle"
  /\ transport = Nobody
  /\ transport' = c
  /\ callPC' = [callPC EXCEPT ![c] = "stop"]
  /\ UNCHANGED <<cbMu, joining, stateVars, runs, runVars, ringing>>

\* stopCurrent finds no run: Stop returns, Play goes on.
NothingToStop(c) ==
  /\ callPC[c] \in {"play", "stop"}
  /\ run = NoRun
  /\ IF callPC[c] = "play"
       THEN /\ callPC' = [callPC EXCEPT ![c] = "install"]
            /\ UNCHANGED transport
       ELSE /\ callPC' = [callPC EXCEPT ![c] = "idle"]
            /\ transport' = Nobody
  /\ UNCHANGED <<cbMu, joining, stateVars, runs, runVars, ringing>>

\* stopCurrent reads the run; what it stores in the run comes a step later.
FindRun(c) ==
  /\ callPC[c] \in {"play", "stop"}
  /\ run # NoRun
  /\ joining' = [joining EXCEPT ![c] = run]
  /\ callPC' = [callPC EXCEPT ![c] = IF callPC[c] = "play" THEN "play join"
                                                           ELSE "stop join"]
  /\ UNCHANGED <<lockVars, stateVars, runs, runVars, ringing>>

\* Mutant: a plain stop is silenced as well.
Cancel_SilentStop(c) ==
  /\ callPC[c] \in {"play join", "stop join"}
  /\ ~cancelled[joining[c]]
  /\ cancelled' = [cancelled EXCEPT ![joining[c]] = TRUE]
  /\ silent' = [silent EXCEPT ![joining[c]] = TRUE]
  /\ UNCHANGED <<lockVars, callVars, stateVars, runs, schedPC, done, held, ringing>>

\* A clip switch silences the run's stop callback; then cancel is closed once.
Cancel(c) ==
  /\ callPC[c] \in {"play join", "stop join"}
  /\ ~cancelled[joining[c]]
  /\ cancelled' = [cancelled EXCEPT ![joining[c]] = TRUE]
  /\ silent' = [silent EXCEPT ![joining[c]] = callPC[c] = "play join"]
  /\ UNCHANGED <<lockVars, callVars, stateVars, runs, schedPC, done, held, ringing>>

\* Mutant: the caller does not wait for the scheduler to end.
Join_NoWait(c) ==
  /\ callPC[c] \in {"play join", "stop join"}
  /\ cancelled[joining[c]]
  /\ IF callPC[c] = "play join"
       THEN /\ callPC' = [callPC EXCEPT ![c] = "install"]
            /\ UNCHANGED transport
       ELSE /\ callPC' = [callPC EXCEPT ![c] = "idle"]
            /\ transport' = Nobody
  /\ UNCHANGED <<cbMu, joining, stateVars, runs, runVars, ringing>>

\* The wait on done ends.
Join(c) ==
  /\ callPC[c] \in {"play join", "stop join"}
  /\ cancelled[joining[c]]
  /\ done[joining[c]]
  /\ IF callPC[c] = "play join"
       THEN /\ callPC' = [callPC EXCEPT ![c] = "install"]
            /\ UNCHANGED transport
       ELSE /\ callPC' = [callPC EXCEPT ![c] = "idle"]
            /\ transport' = Nobody
  /\ UNCHANGED <<cbMu, joining, stateVars, runs, runVars, ringing>>

\* Play installs its run and starts the scheduler, holding cbMu.
Install(c) ==
  /\ callPC[c] = "install"
  /\ cbMu = Nobody
  /\ cbMu' = c
  /\ runs' = runs + 1
  /\ run' = runs + 1
  /\ \E t \in Requests :
       st' = [playing |-> TRUE, of |-> runs + 1, tempo |-> clampTempo(t)]
  /\ schedPC' = [schedPC EXCEPT ![runs + 1] = "wait"]
  /\ callPC' = [callPC EXCEPT ![c] = "publish"]
  /\ UNCHANGED <<transport, joining, published, cancelled, done, silent, held,
                 ringing>>

\* OnChange with the state Install left; then both locks are released.
Publish(c) ==
  /\ callPC[c] = "publish"
  /\ published' = st
  /\ cbMu' = Nobody
  /\ transport' = Nobody
  /\ callPC' = [callPC EXCEPT ![c] = "idle"]
  /\ UNCHANGED <<joining, run, st, runs, runVars, ringing>>

\* SetTempo, from mutation to callback under cbMu.
SetTempo(c, t) ==
  /\ callPC[c] = "idle"
  /\ cbMu = Nobody
  /\ st' = [st EXCEPT !.tempo = clampTempo(t)]
  /\ published' = st'
  /\ UNCHANGED <<lockVars, callVars, run, runs, runVars, ringing>>

-----------------------------------------------------------------------------
(* The scheduler goroutine of run r.                                       *)

At(r, here, next) ==
  /\ schedPC[r] = here
  /\ schedPC' = [schedPC EXCEPT ![r] = next]

\* waitBeats looks at cancel first, without blocking.
WaitCheck(r) ==
  /\ ~cancelled[r]
  /\ At(r, "wait", "sleep")
  /\ UNCHANGED <<lockVars, callVars, stateVars, runs, cancelled, done, silent, held,
                 ringing>>

\* The timer of the next event fires; cancel may be closed as well by now.
WaitOver(r) ==
  /\ At(r, "sleep", "emit")
  /\ UNCHANGED <<lockVars, callVars, stateVars, runs, cancelled, done, silent, held,
                 ringing>>

\* waitBeats sees the cancellation, at once or in its sleep.
SeesCancel(r) ==
  /\ cancelled[r]
  /\ schedPC[r] \in {"wait", "sleep"}
  /\ schedPC' = [schedPC EXCEPT ![r] = "release"]

\* Mutant: the run leaves Player.run before its notes are released.
WaitCancelled_ClearFirst(r) ==
  /\ SeesCancel(r)
  /\ run' = IF run = r THEN NoRun ELSE run
  /\ UNCHANGED <<lockVars, callVars, st, published, runs, cancelled, done, silent,
                 held, ringing>>

\* Mutant: a cancelled run waits for its notes to end.
WaitCancelled_AfterNotes(r) ==
  /\ SeesCancel(r)
  /\ held[r] = {}
  /\ UNCHANGED <<lockVars, callVars, stateVars, runs, cancelled, done, silent, held,
                 ringing>>

WaitCancelled(r) ==
  /\ SeesCancel(r)
  /\ UNCHANGED <<lockVars, callVars, stateVars, runs, cancelled, done, silent, held,
                 ringing>>

\* The wait for the clip's end is over: the goroutine returns, into finish.
ClipEnds(r) ==
  /\ At(r, "sleep", "release")
  /\ UNCHANGED <<lockVars, callVars, stateVars, runs, cancelled, done, silent, held,
                 ringing>>

\* A looping clip releases what it holds at the seam.
LoopSeam(r) ==
  /\ At(r, "sleep", "wait")
  /\ held' = [held EXCEPT ![r] = {}]
  /\ ringing' = ringing \ held[r]
  /\ UNCHANGED <<lockVars, callVars, stateVars, runs, cancelled, done, silent>>

EmitNoteOn(r, n) ==
  /\ At(r, "emit", "wait")
  /\ held' = [held EXCEPT ![r] = @ \cup {n}]
  /\ ringing' = ringing \cup {n}
  /\ UNCHANGED <<lockVars, callVars, stateVars, runs, cancelled, done, silent>>

EmitNoteOff(r, n) ==
  /\ At(r, "emit", "wait")
  /\ held' = [held EXCEPT ![r] = @ \ {n}]
  /\ ringing' = ringing \ {n}
  /\ UNCHANGED <<lockVars, callVars, stateVars, runs, cancelled, done, silent>>

\* finish, first: a NoteOff for every note the run holds.
Release(r) ==
  /\ At(r, "release", "flip")
  /\ held' = [held EXCEPT ![r] = {}]
  /\ ringing' = ringing \ held[r]
  /\ UNCHANGED <<lockVars, callVars, stateVars, runs, cancelled, done, silent>>

\* Then playing = false and its callback, under cbMu.
Flip(r) ==
  /\ At(r, "flip", "clear")
  /\ cbMu = Nobody
  /\ IF run = r
       THEN /\ st' = [st EXCEPT !.playing = FALSE]
            /\ published' = IF silent[r] THEN published ELSE st'
       ELSE UNCHANGED <<st, published>>
  /\ UNCHANGED <<lockVars, callVars, run, runs, cancelled, done, silent, held,
                 ringing>>

\* Only then does the run leave Player.run.
Clear(r) ==
  /\ At(r, "clear", "close")
  /\ run' = IF run = r THEN NoRun ELSE run
  /\ UNCHANGED <<lockVars, callVars, st, published, runs, cancelled, done, silent,
                 held, ringing>>

Close(r) ==
  /\ At(r, "close", "ended")
  /\ done' = [done EXCEPT ![r] = TRUE]
  /\ UNCHANGED <<lockVars, callVars, stateVars, runs, cancelled, silent, held,
                 ringing>>

Transition(c) ==
  NothingToStop(c) \/ FindRun(c) \/ Cancel(c) \/ Join(c) \/ Install(c) \/ Publish(c)

Emit(r) == \E n \in Notes : EmitNoteOn(r, n) \/ EmitNoteOff(r, n)

Schedule(r) ==
  \/ WaitCheck(r) \/ WaitOver(r) \/ WaitCancelled(r) \/ ClipEnds(r)
  \/ LoopSeam(r) \/ Emit(r) \/ Release(r) \/ Flip(r) \/ Clear(r) \/ Close(r)

Next ==
  \/ \E c \in Callers : BeginPlay(c) \/ BeginStop(c) \/ Transition(c)
  \/ \E c \in Callers, t \in Requests : SetTempo(c, t)
  \/ \E r \in Runs : Schedule(r)

Spec == Init /\ [][Next]_vars

\* Callers finish the transition they began, and schedulers run; a run need
\* never end by itself.
Fairness ==
  /\ \A c \in Callers : WF_vars(Transition(c))
  /\ \A r \in Runs : WF_vars(Schedule(r))

FairSpec == Spec /\ Fairness

-----------------------------------------------------------------------------
(* Properties.                                                             *)

(***************************************************************************)
(* No stuck notes, ever, and none cut short: a note sounds exactly when    *)
(* the run that started it still owes its NoteOff, whatever mixture of     *)
(* stops, switches and natural ends is under way.                          *)
(***************************************************************************)
NotesAreOwed == ringing = UNION {held[r] : r \in Runs}

\* What run r may still push to the synth or to the callback.
Finished(r) == schedPC[r] \in {"unborn", "close", "ended"}

(***************************************************************************)
(* A caller that sees no run may rely on silence: every run there was has  *)
(* released its notes and delivered its callback.  (finish: "a Play/Stop   *)
(* that observes p.run == nil knows the run can push nothing further".)    *)
(***************************************************************************)
NoRunMeansSilence == run = NoRun => ringing = {} /\ \A r \in Runs : Finished(r)

(***************************************************************************)
(* At most one run at a time can reach the synth, and it is the one        *)
(* Player.run names: a stale scheduler never plays into a new clip.        *)
(***************************************************************************)
OnlyTheRunPlays == \A r \in Runs : ~Finished(r) => run = r

\* A switch is under way: the stop of the old run is kept from observers.
Switching == \E c \in Callers : callPC[c] \in {"play", "play join", "install"}

(***************************************************************************)
(* Observers end up with the truth: once no mutation and no clip switch is *)
(* under way, the last state OnChange was called with is the player's, so  *)
(* no stale playing=false is delivered after a newer playing=true.         *)
(***************************************************************************)
ObserversAgree == cbMu = Nobody /\ ~Switching => published = st

(***************************************************************************)
(* Stop and a switching Play return: the scheduler they wait for always    *)
(* gets to its end, whoever holds cbMu meanwhile.                          *)
(***************************************************************************)
TransitionsEnd == \A c \in Callers : callPC[c] # "idle" ~> callPC[c] = "idle"

=============================================================================
