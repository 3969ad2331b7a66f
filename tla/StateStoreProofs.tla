--------------------------- MODULE StateStoreProofs ---------------------------
(***************************************************************************)
(* The safety of the state store, for any number of editors, edits and   *)
(* restarts.                                                             *)
(***************************************************************************)
EXTENDS StateStore, TLAPS

(***************************************************************************)
(* What makes the safety invariants inductive.  The file, the copy being *)
(* written and the versions the history variables recall are never newer *)
(* than the snapshot; an edit made after the copy was taken has marked the *)
(* snapshot dirty again; and a final flush has a copy of at least what the *)
(* snapshot held when the context was cancelled.                         *)
(***************************************************************************)
Behind ==
  /\ disk <= memory
  /\ failed <= memory
  /\ atCancel <= memory
  /\ runPC = "write" => disk <= copy /\ copy <= memory

CopyOrDirty == runPC = "write" => dirty \/ copy = memory

FinalIsLate ==
  /\ final => cancelled
  /\ runPC = "done" => final
  /\ runPC = "write" /\ final => copy >= atCancel

IInv ==
  /\ TypeOK
  /\ Behind
  /\ CopyOrDirty
  /\ FinalIsLate
  /\ EditsAccountedFor
  /\ DirtyIsScheduled
  /\ FinalFlushCovers

USE StoreAssumption DEF StoreAssumption

(* The store's fields, Run's timer and main's progress start in their sets. *)
LEMMA TypeInit == Init => TypeOK
<1> SUFFICES ASSUME Init PROVE TypeOK
  OBVIOUS
<1>1. editPC \in [Editors -> {"idle", "signal"}]
  BY DEF Init
<1>2. /\ memory = 0 /\ disk = 0 /\ dirty = FALSE /\ wake = FALSE
      /\ timer = "off" /\ runPC = "select" /\ final = FALSE /\ copy = 0
      /\ cancelled = FALSE /\ mainPC = "running"
      /\ kills = 0 /\ failed = 0 /\ atCancel = 0 /\ clapSave = 0
  BY DEF Init
<1>3. 0 \in Versions /\ 0 \in 0 .. MaxKills
  BY DEF Versions
<1> QED
  BY <1>1, <1>2, <1>3 DEF TypeOK

(* No step of an editor, of Run or of main takes a variable out of its set. *)
LEMMA TypeStep == TypeOK /\ [Next]_vars => TypeOK'
<1> SUFFICES ASSUME TypeOK, [Next]_vars PROVE TypeOK'
  OBVIOUS
<1> USE DEF TypeOK, Versions, loopVars, mainVars
<1>1. ASSUME NEW e \in Editors, EditApply(e) PROVE TypeOK'
  BY <1>1 DEF EditApply, Edit
<1>2. ASSUME NEW e \in Editors, EditSignal(e) PROVE TypeOK'
  BY <1>2 DEF EditSignal, SignalWake
<1>3. CASE TimerFires
  BY <1>3 DEF TimerFires
<1>4. CASE RunWake
  BY <1>4 DEF RunWake
<1>5. CASE RunTick
  BY <1>5 DEF RunTick
<1>6. CASE RunDone
  BY <1>6 DEF RunDone
<1>7. CASE FlushTake
  BY <1>7 DEF FlushTake, AfterFlush
<1>8. CASE FlushWrite
  BY <1>8 DEF FlushWrite, AfterFlush
<1>9. CASE FlushFails
  BY <1>9 DEF FlushFails, AfterFlush
<1>10. CASE Signal
  BY <1>10 DEF Signal
<1>11. CASE ShutdownBegins
  BY <1>11 DEF ShutdownBegins
<1>12. CASE ShutdownSave
  BY <1>12 DEF ShutdownSave, Edit
<1>13. CASE ShutdownSignal
  BY <1>13 DEF ShutdownSignal, SignalWake
<1>14. CASE ShutdownNothingToSave
  BY <1>14 DEF ShutdownNothingToSave
<1>15. CASE ShutdownStop
  BY <1>15 DEF ShutdownStop
<1>16. CASE ShutdownExit
  BY <1>16 DEF ShutdownExit
<1>17. CASE Kill
  <2>1. editPC' \in [Editors -> {"idle", "signal"}]
    BY <1>17 DEF Kill
  <2>2. kills' \in 0 .. MaxKills
    BY <1>17 DEF Kill
  <2>3. memory' \in Versions /\ copy' \in Versions /\ disk' \in Versions
    BY <1>17 DEF Kill
  <2>4. /\ dirty' = FALSE /\ wake' = FALSE /\ final' = FALSE /\ cancelled' = FALSE
        /\ timer' = "off" /\ runPC' = "select" /\ mainPC' = "running"
        /\ failed' = 0 /\ atCancel' = 0 /\ clapSave' = 0
    BY <1>17 DEF Kill
  <2>5. 0 \in Versions
    OBVIOUS
  <2> HIDE DEF TypeOK, Versions
  <2> QED
    BY <2>1, <2>2, <2>3, <2>4, <2>5 DEF TypeOK
<1>18. CASE UNCHANGED vars
  BY <1>18 DEF vars
<1> QED
  BY <1>1, <1>2, <1>3, <1>4, <1>5, <1>6, <1>7, <1>8, <1>9, <1>10, <1>11, <1>12,
     <1>13, <1>14, <1>15, <1>16, <1>17, <1>18
     DEF Next, Editing, RunStep, Shutdown

(***************************************************************************)
(* Every variable stays in its set.                                      *)
(***************************************************************************)
THEOREM TypeCorrect == Spec => []TypeOK
<1> QED
  BY TypeInit, TypeStep, PTL DEF Spec

(* IInv holds when Run starts on the file main has loaded.               *)
LEMMA InvInit == Init => IInv
<1> SUFFICES ASSUME Init PROVE IInv
  OBVIOUS
<1>1. TypeOK
  BY TypeInit
<1>2. /\ memory = 0 /\ disk = 0 /\ dirty = FALSE /\ runPC = "select"
      /\ final = FALSE /\ failed = 0 /\ atCancel = 0
  BY DEF Init
<1> QED
  BY <1>1, <1>2 DEF IInv, Behind, CopyOrDirty, FinalIsLate, EditsAccountedFor,
     DirtyIsScheduled, FinalFlushCovers, Running

(* Every step keeps IInv.                                                *)
LEMMA InvStep == IInv /\ [Next]_vars => IInv'
<1> SUFFICES ASSUME IInv, [Next]_vars PROVE IInv'
  OBVIOUS
<1>0. TypeOK /\ TypeOK'
  BY TypeStep DEF IInv
<1> USE <1>0 DEF IInv, TypeOK, Versions, loopVars, mainVars, Behind, CopyOrDirty, FinalIsLate,
    EditsAccountedFor, BeingWritten, DirtyIsScheduled, Running, Alive, SignalPending,
    FinalFlushCovers
<1>1. ASSUME NEW e \in Editors, EditApply(e) PROVE IInv'
  BY <1>1 DEF EditApply, Edit
<1>2. ASSUME NEW e \in Editors, EditSignal(e) PROVE IInv'
  BY <1>2 DEF EditSignal, SignalWake
<1>3. CASE TimerFires
  BY <1>3 DEF TimerFires
<1>4. CASE RunWake
  BY <1>4 DEF RunWake
<1>5. CASE RunTick
  BY <1>5 DEF RunTick
<1>6. CASE RunDone
  BY <1>6 DEF RunDone
<1>7. CASE FlushTake
  BY <1>7 DEF FlushTake, AfterFlush
<1>8. CASE FlushWrite
  BY <1>8 DEF FlushWrite, AfterFlush
<1>9. CASE FlushFails
  BY <1>9 DEF FlushFails, AfterFlush
<1>10. CASE Signal
  BY <1>10 DEF Signal
<1>11. CASE ShutdownBegins
  BY <1>11 DEF ShutdownBegins
<1>12. CASE ShutdownSave
  BY <1>12 DEF ShutdownSave, Edit
<1>13. CASE ShutdownSignal
  BY <1>13 DEF ShutdownSignal, SignalWake
<1>14. CASE ShutdownNothingToSave
  BY <1>14 DEF ShutdownNothingToSave
<1>15. CASE ShutdownStop
  BY <1>15 DEF ShutdownStop
<1>16. CASE ShutdownExit
  BY <1>16 DEF ShutdownExit
<1>17. CASE Kill
  BY <1>17 DEF Kill
<1>18. CASE UNCHANGED vars
  BY <1>18 DEF vars
<1> QED
  BY <1>1, <1>2, <1>3, <1>4, <1>5, <1>6, <1>7, <1>8, <1>9, <1>10, <1>11, <1>12,
     <1>13, <1>14, <1>15, <1>16, <1>17, <1>18
     DEF Next, Editing, RunStep, Shutdown

(***************************************************************************)
(* The invariant that carries the others.                                *)
(***************************************************************************)
THEOREM Invariance == Spec => []IInv
<1> QED
  BY InvInit, InvStep, PTL DEF Spec

(***************************************************************************)
(* flush marks the snapshot clean before it writes its copy: an edit made*)
(* during the write marks it dirty again, so no edit is forgotten.       *)
(***************************************************************************)
THEOREM NoEditForgotten == Spec => []EditsAccountedFor
<1>1. IInv => EditsAccountedFor
  BY DEF IInv
<1> QED
  BY <1>1, Invariance, PTL

(***************************************************************************)
(* A dirty snapshot always has a token in the wake channel, a timer, an  *)
(* editor about to signal, or a flush about to look.                     *)
(***************************************************************************)
THEOREM LoopLearnsOfEdits == Spec => []DirtyIsScheduled
<1>1. IInv => DirtyIsScheduled
  BY DEF IInv
<1> QED
  BY <1>1, Invariance, PTL

(***************************************************************************)
(* The flush Run makes after ctx.Done covers every edit that came before *)
(* the cancellation.                                                     *)
(***************************************************************************)
THEOREM ShutdownKeepsEdits == Spec => []FinalFlushCovers
<1>1. IInv => FinalFlushCovers
  BY DEF IInv
<1> QED
  BY <1>1, Invariance, PTL

(* Only flush's rename changes the file, to a copy taken after the last. *)
LEMMA FileStep == IInv /\ [Next]_vars => [disk' >= disk]_vars
<1> SUFFICES ASSUME IInv, [Next]_vars PROVE disk' >= disk
  OBVIOUS
<1> USE DEF loopVars, mainVars
<1>0. disk \in Nat
  BY DEF IInv, TypeOK, Versions
<1>1. CASE FlushWrite
  BY <1>1, <1>0 DEF FlushWrite, IInv, Behind
<1>2. CASE disk' = disk
  BY <1>2, <1>0
<1>3. ASSUME NEW e \in Editors, Editing(e) PROVE disk' = disk
  BY <1>3 DEF Editing, EditApply, EditSignal
<1>4. RunStep => FlushWrite \/ disk' = disk
  BY DEF RunStep, RunWake, RunTick, RunDone, FlushTake, FlushFails
<1>5. Shutdown => disk' = disk
  BY DEF Shutdown, ShutdownSave, ShutdownSignal, ShutdownNothingToSave, ShutdownStop,
     ShutdownExit
<1>6. TimerFires \/ Signal \/ ShutdownBegins \/ Kill => disk' = disk
  BY DEF TimerFires, Signal, ShutdownBegins, Kill
<1>7. UNCHANGED vars => disk' = disk
  BY DEF vars
<1> QED
  BY <1>1, <1>2, <1>3, <1>4, <1>5, <1>6, <1>7 DEF Next

(***************************************************************************)
(* state.toml is only ever replaced by a later version of the snapshot.  *)
(***************************************************************************)
THEOREM FileOnlyAdvances == Spec => FileNeverGoesBack
<1> QED
  BY Invariance, FileStep, PTL DEF Spec, FileNeverGoesBack

=============================================================================
