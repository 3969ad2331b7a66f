------------------------------ MODULE StateStore ------------------------------
(***************************************************************************)
(* The persisted state (internal/state/state.go): goroutines edit the      *)
(* snapshot under its mutex and wake the debounced write loop, which       *)
(* flushes it to state.toml by way of a temporary file; and the daemon's   *)
(* shutdown (cmd/polyclav/main.go), which saves the CLAP plugin's state    *)
(* and waits for the loop to end.                                          *)
(*                                                                         *)
(* The data is a version number: an edit makes the next version, and a     *)
(* snapshot or a file of version n holds the edits 1 .. n.                 *)
(***************************************************************************)
EXTENDS Naturals, FiniteSets

CONSTANTS
  Editors,   \* goroutines that edit the snapshot
  MaxEdits,  \* bound of the model: edits considered
  MaxKills   \* bound of the model: times the process is killed

ASSUME StoreAssumption ==
  /\ MaxEdits \in Nat \ {0}
  /\ MaxKills \in Nat

VARIABLES
  memory,    \* version of Store.snap
  dirty,     \* Store.dirty
  wake,      \* a token is in Store.wake (capacity 1)
  editPC,    \* each editor: idle, or about to signal the write loop
  timer,     \* Run's debounce timer: off, armed, or fired with its tick unread
  runPC,     \* the write loop
  final,     \* the flush in progress is the one after ctx.Done
  copy,      \* the version flush took
  disk,      \* version of state.toml
  cancelled, \* ctx is done
  mainPC,    \* main: running, then the steps of the shutdown
  kills,     \* bound of the model
  failed,    \* history: the latest version whose write failed
  atCancel,  \* history: memory when ctx was cancelled
  clapSave   \* history: the version made by the shutdown's CLAP save

loopVars == <<timer, runPC, final, copy>>
mainVars == <<cancelled, mainPC, atCancel, clapSave>>
vars == <<memory, dirty, wake, editPC, loopVars, disk, mainVars, kills, failed>>

Versions == 0 .. MaxEdits

TypeOK ==
  /\ memory \in Versions
  /\ dirty \in BOOLEAN
  /\ wake \in BOOLEAN
  /\ editPC \in [Editors -> {"idle", "signal"}]
  /\ timer \in {"off", "armed", "fired"}
  /\ runPC \in {"select", "flush", "write", "done"}
  /\ final \in BOOLEAN
  /\ copy \in Versions
  /\ disk \in Versions
  /\ cancelled \in BOOLEAN
  /\ mainPC \in {"running", "save", "signal", "stop", "wait", "exited"}
  /\ kills \in 0 .. MaxKills
  /\ failed \in Versions
  /\ atCancel \in Versions
  /\ clapSave \in Versions

\* The daemon has loaded the file, of version disk, and started Run.
Init ==
  /\ memory = 0 /\ disk = 0 /\ dirty = FALSE /\ wake = FALSE
  /\ editPC = [e \in Editors |-> "idle"]
  /\ timer = "off" /\ runPC = "select" /\ final = FALSE /\ copy = 0
  /\ cancelled = FALSE /\ mainPC = "running"
  /\ kills = 0 /\ failed = 0 /\ atCancel = 0 /\ clapSave = 0

Alive == mainPC # "exited"

-----------------------------------------------------------------------------
(* Editors: SetCurrentPatch, UpdatePatchKnob, UpdatePatchClap, ...         *)

\* The critical section of every setter.
Edit ==
  /\ memory < MaxEdits
  /\ memory' = memory + 1
  /\ dirty' = TRUE

\* Mutant: the wake channel is not buffered, so a busy loop misses the signal.
SignalWake_Unbuffered == wake' = (runPC = "select")

\* A non-blocking send: a token already there stands for this edit too.
SignalWake == wake' = TRUE

EditApply(e) ==
  /\ Alive
  /\ editPC[e] = "idle"
  /\ Edit
  /\ editPC' = [editPC EXCEPT ![e] = "signal"]
  /\ UNCHANGED <<wake, loopVars, disk, mainVars, kills, failed>>

EditSignal(e) ==
  /\ Alive
  /\ editPC[e] = "signal"
  /\ SignalWake
  /\ editPC' = [editPC EXCEPT ![e] = "idle"]
  /\ UNCHANGED <<memory, dirty, loopVars, disk, mainVars, kills, failed>>

-----------------------------------------------------------------------------
(* Store.Run.                                                              *)

TimerFires ==
  /\ Alive
  /\ timer = "armed"
  /\ timer' = "fired"
  /\ UNCHANGED <<memory, dirty, wake, editPC, runPC, final, copy, disk, mainVars,
                 kills, failed>>

\* A wake stops the timer, drains its tick, and starts the delay again.
RunWake ==
  /\ Alive
  /\ runPC = "select"
  /\ wake
  /\ wake' = FALSE
  /\ timer' = "armed"
  /\ UNCHANGED <<memory, dirty, editPC, runPC, final, copy, disk, mainVars, kills,
                 failed>>

RunTick ==
  /\ Alive
  /\ runPC = "select"
  /\ timer = "fired"
  /\ timer' = "off"
  /\ runPC' = "flush"
  /\ UNCHANGED <<memory, dirty, wake, editPC, final, copy, disk, mainVars, kills,
                 failed>>

\* Mutant: a shutdown with no timer running skips the final flush.
RunDone_OnlyIfArmed ==
  /\ Alive
  /\ runPC = "select"
  /\ cancelled
  /\ timer' = "off"
  /\ final' = TRUE
  /\ runPC' = IF timer = "armed" THEN "flush" ELSE "done"
  /\ UNCHANGED <<memory, dirty, wake, editPC, copy, disk, mainVars, kills, failed>>

RunDone ==
  /\ Alive
  /\ runPC = "select"
  /\ cancelled
  /\ timer' = "off"
  /\ final' = TRUE
  /\ runPC' = "flush"
  /\ UNCHANGED <<memory, dirty, wake, editPC, copy, disk, mainVars, kills, failed>>

\* Where Run goes when flush returns.
AfterFlush == IF final THEN "done" ELSE "select"

\* flush's critical section: a clean snapshot needs no write; a dirty one is
\* copied and marked clean, before the copy is written.
FlushTake ==
  /\ Alive
  /\ runPC = "flush"
  /\ IF dirty
       THEN /\ copy' = memory
            /\ dirty' = FALSE
            /\ runPC' = "write"
       ELSE /\ runPC' = AfterFlush
            /\ UNCHANGED <<copy, dirty>>
  /\ UNCHANGED <<memory, wake, editPC, timer, final, disk, mainVars, kills, failed>>

\* Mutant: the snapshot is marked clean after the write instead of before.
FlushWrite_CleanAfter ==
  /\ Alive
  /\ runPC = "write"
  /\ disk' = copy
  /\ dirty' = FALSE
  /\ runPC' = AfterFlush
  /\ UNCHANGED <<memory, wake, editPC, timer, final, copy, mainVars, kills, failed>>

\* The temporary file is written and renamed over state.toml.
FlushWrite ==
  /\ Alive
  /\ runPC = "write"
  /\ disk' = copy
  /\ runPC' = AfterFlush
  /\ UNCHANGED <<memory, dirty, wake, editPC, timer, final, copy, mainVars, kills,
                 failed>>

\* Any of the file operations fails: Run logs it, and the snapshot stays clean.
FlushFails ==
  /\ Alive
  /\ runPC = "write"
  /\ failed' = copy
  /\ runPC' = AfterFlush
  /\ UNCHANGED <<memory, dirty, wake, editPC, timer, final, copy, disk, mainVars,
                 kills>>

-----------------------------------------------------------------------------
(* The daemon.                                                             *)

\* SIGINT or SIGTERM: the context Run shares is done.
Signal ==
  /\ mainPC = "running" /\ ~cancelled
  /\ cancelled' = TRUE
  /\ atCancel' = memory
  /\ UNCHANGED <<memory, dirty, wake, editPC, loopVars, disk, mainPC, clapSave,
                 kills, failed>>

\* main leaves its wait, on the signal or because the supervisor ended.
ShutdownBegins ==
  /\ mainPC = "running"
  /\ mainPC' = "save"
  /\ UNCHANGED <<memory, dirty, wake, editPC, loopVars, disk, cancelled, atCancel,
                 clapSave, kills, failed>>

\* SaveActiveClapState: UpdatePatchClap, then its wake.
ShutdownSave ==
  /\ mainPC = "save"
  /\ Edit
  /\ clapSave' = memory'
  /\ mainPC' = "signal"
  /\ UNCHANGED <<wake, editPC, loopVars, disk, cancelled, atCancel, kills, failed>>

ShutdownSignal ==
  /\ mainPC = "signal"
  /\ SignalWake
  /\ mainPC' = "stop"
  /\ UNCHANGED <<memory, dirty, editPC, loopVars, disk, cancelled, atCancel, clapSave,
                 kills, failed>>

\* No CLAP plugin is active, or it gave no state.
ShutdownNothingToSave ==
  /\ mainPC = "save"
  /\ mainPC' = "stop"
  /\ UNCHANGED <<memory, dirty, wake, editPC, loopVars, disk, cancelled, atCancel,
                 clapSave, kills, failed>>

\* stop() cancels the context if no signal has.
ShutdownStop ==
  /\ mainPC = "stop"
  /\ cancelled' = TRUE
  /\ atCancel' = IF cancelled THEN atCancel ELSE memory
  /\ mainPC' = "wait"
  /\ UNCHANGED <<memory, dirty, wake, editPC, loopVars, disk, clapSave, kills,
                 failed>>

\* stateDone is closed, or two seconds pass; then os.Exit.
ShutdownExit ==
  /\ mainPC = "wait"
  /\ mainPC' = "exited"
  /\ UNCHANGED <<memory, dirty, wake, editPC, loopVars, disk, cancelled, atCancel,
                 clapSave, kills, failed>>

\* Mutant: a restart that cannot use the file starts from the defaults.
Kill_FromDefaults ==
  /\ Alive
  /\ kills < MaxKills
  /\ kills' = kills + 1
  /\ memory' = 0 /\ dirty' = FALSE /\ wake' = FALSE
  /\ editPC' = [e \in Editors |-> "idle"]
  /\ timer' = "off" /\ runPC' = "select" /\ final' = FALSE /\ copy' = 0
  /\ cancelled' = FALSE /\ mainPC' = "running"
  /\ failed' = 0 /\ atCancel' = 0 /\ clapSave' = 0
  /\ UNCHANGED disk

\* The process is killed and started again: Load reads the file that is there.
Kill ==
  /\ Alive
  /\ kills < MaxKills
  /\ kills' = kills + 1
  /\ memory' = disk /\ dirty' = FALSE /\ wake' = FALSE
  /\ editPC' = [e \in Editors |-> "idle"]
  /\ timer' = "off" /\ runPC' = "select" /\ final' = FALSE /\ copy' = disk
  /\ cancelled' = FALSE /\ mainPC' = "running"
  /\ failed' = 0 /\ atCancel' = 0 /\ clapSave' = 0
  /\ UNCHANGED disk

Editing(e) == EditApply(e) \/ EditSignal(e)

RunStep ==
  \/ RunWake \/ RunTick \/ RunDone
  \/ FlushTake \/ FlushWrite \/ FlushFails

Shutdown ==
  \/ ShutdownSave \/ ShutdownSignal \/ ShutdownNothingToSave \/ ShutdownStop
  \/ ShutdownExit

Next ==
  \/ \E e \in Editors : Editing(e)
  \/ TimerFires
  \/ RunStep
  \/ Signal \/ ShutdownBegins \/ Shutdown
  \/ Kill

Spec == Init /\ [][Next]_vars

\* Goroutines that have something to do get to do it, the timer elapses.
\* Nobody has to edit, to signal the daemon or to kill it.
Fairness ==
  /\ \A e \in Editors : WF_vars(EditSignal(e))
  /\ WF_vars(TimerFires)
  /\ WF_vars(RunStep)
  /\ WF_vars(Shutdown)

FairSpec == Spec /\ Fairness

-----------------------------------------------------------------------------
(* Properties.                                                             *)

Running == Alive /\ runPC # "done"
SignalPending == mainPC = "signal" \/ \E e \in Editors : editPC[e] = "signal"
BeingWritten(v) == runPC = "write" /\ copy = v

(***************************************************************************)
(* No edit is forgotten: a version that is not in the file is marked       *)
(* dirty, or being written, or its write failed and was logged.            *)
(***************************************************************************)
EditsAccountedFor ==
  memory # disk => dirty \/ BeingWritten(memory) \/ failed = memory

(***************************************************************************)
(* The write loop always learns of a dirty snapshot: while it runs, a      *)
(* token, the timer or an editor on its way to signal stands for it.       *)
(***************************************************************************)
DirtyIsScheduled ==
  Running /\ dirty =>
    wake \/ timer # "off" \/ SignalPending \/ runPC = "flush" \/ cancelled

(***************************************************************************)
(* Once the write loop has ended, every edit made before the shutdown      *)
(* began is in the file, unless a write failed.  (The package comment: "a  *)
(* final synchronous flush on shutdown ensures the user's last edit        *)
(* survives".)                                                             *)
(***************************************************************************)
FinalFlushCovers == runPC = "done" => disk >= atCancel \/ failed >= atCancel

(***************************************************************************)
(* The file is only ever replaced by a later version, across restarts too. *)
(***************************************************************************)
FileNeverGoesBack == [][disk' >= disk]_vars

(***************************************************************************)
(* An edit reaches the file in the end, whatever edits follow it, unless   *)
(* its write fails or the process goes first.  (With MaxEdits edits: the   *)
(* debounce restarts on every edit, so edits must pause for it to elapse.) *)
(***************************************************************************)
EditsReachFile ==
  \A v \in 1 .. MaxEdits :
    memory >= v ~> disk >= v \/ failed >= v \/ ~Running \/ memory < v

(***************************************************************************)
(* The shutdown's CLAP save reaches the file: a process that exits after   *)
(* the write loop has ended, no write having failed, leaves it there.      *)
(* ("persist the active CLAP backend while the engine is still available".)*)
(***************************************************************************)
ClapSaveSurvives ==
  mainPC = "exited" /\ runPC = "done" /\ failed = 0 => disk >= clapSave

=============================================================================
