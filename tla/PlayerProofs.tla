----------------------------- MODULE PlayerProofs -----------------------------
(***************************************************************************)
(* The safety of the clip player, for any number of callers, notes and   *)
(* playbacks.                                                            *)
(***************************************************************************)
EXTENDS Player, TLAPS

USE PlayerAssumption DEF PlayerAssumption

(***************************************************************************)
(* What makes the safety invariants inductive.  Whoever is inside Play or*)
(* Stop holds transport, so the run it read is the current one until that*)
(* run's scheduler clears it, and a Play that reaches its install finds no *)
(* run.  A scheduler owns Player.run from its start to its Clear and owes*)
(* notes only until its Release; done is closed last.                    *)
(***************************************************************************)
TransportHeld ==
  /\ \A c \in Callers : callPC[c] # "idle" => transport = c
  /\ \A c \in Callers : cbMu = c => callPC[c] = "publish"

StopsTheRun ==
  \A c \in Callers :
    /\ callPC[c] \in {"play join", "stop join"} =>
         /\ joining[c] \in Runs /\ run \in {joining[c], NoRun}
         /\ schedPC[joining[c]] # "unborn"
    /\ callPC[c] = "install" => run = NoRun
    /\ callPC[c] \in {"play", "play join", "install"} => runs < MaxRuns

RunsInTurn ==
  \A r \in Runs :
    /\ runs < r => schedPC[r] = "unborn"
    /\ ~Finished(r) <=> run = r
    /\ done[r] => schedPC[r] = "ended"
    /\ held[r] # {} => schedPC[r] \in {"wait", "sleep", "emit", "release"}

SilencedBySwitch ==
  \A r \in Runs :
    /\ silent[r] => schedPC[r] # "unborn"
    /\ silent[r] /\ run = r => \E c \in Callers : callPC[c] = "play join"

IInv ==
  /\ TypeOK
  /\ TransportHeld
  /\ StopsTheRun
  /\ RunsInTurn
  /\ SilencedBySwitch
  /\ NotesAreOwed
  /\ ObserversAgree

(* Tempos are kept within 0.25 to 2.0.                                   *)
LEMMA TempoInRange == \A t \in Requests : clampTempo(t) \in 1 .. 8
  BY DEF clampTempo

(* Runs are numbered as they start.                                      *)
LEMMA RunsCounted == TypeOK => runs \in Nat /\ (runs < MaxRuns => runs + 1 \in Runs)
<1> SUFFICES ASSUME TypeOK PROVE runs \in Nat /\ (runs < MaxRuns => runs + 1 \in Runs)
  OBVIOUS
<1>1. runs \in Runs \cup {0}
  BY DEF TypeOK
<1> QED
  BY <1>1 DEF Runs

(* The player starts stopped, in its sets.                               *)
LEMMA TypeInit == Init => TypeOK
  BY DEF Init, TypeOK, States, Runs, NoRun

(* No caller and no scheduler takes a field out of its set.              *)
LEMMA TypeStep == TypeOK /\ StopsTheRun /\ [Next]_vars => TypeOK'
<1> SUFFICES ASSUME TypeOK, StopsTheRun, [Next]_vars PROVE TypeOK'
  OBVIOUS
<1>R. runs < MaxRuns => runs + 1 \in Runs
  BY RunsCounted
<1> USE DEF TypeOK, lockVars, callVars, stateVars, runVars
<1>1. ASSUME NEW c \in Callers, BeginPlay(c) PROVE TypeOK'
  BY <1>1 DEF BeginPlay
<1>2. ASSUME NEW c \in Callers, BeginStop(c) PROVE TypeOK'
  BY <1>2 DEF BeginStop
<1>3. ASSUME NEW c \in Callers, NothingToStop(c) PROVE TypeOK'
  BY <1>3 DEF NothingToStop
<1>4. ASSUME NEW c \in Callers, FindRun(c) PROVE TypeOK'
  BY <1>4 DEF FindRun
<1>5. ASSUME NEW c \in Callers, Cancel(c) PROVE TypeOK'
  BY <1>5 DEF Cancel
<1>6. ASSUME NEW c \in Callers, Join(c) PROVE TypeOK'
  BY <1>6 DEF Join
<1>7. ASSUME NEW c \in Callers, Install(c) PROVE TypeOK'
  <2>1. runs + 1 \in Runs
    <3>1. runs < MaxRuns
      BY <1>7 DEF Install, StopsTheRun
    <3> QED
      BY <3>1, <1>R
  <2>2. st' \in States
    <3>1. PICK t \in Requests :
            st' = [playing |-> TRUE, of |-> runs + 1, tempo |-> clampTempo(t)]
      BY <1>7 DEF Install
    <3> QED
      BY <3>1, <2>1, TempoInRange DEF States
  <2>3. schedPC' = [schedPC EXCEPT ![runs + 1] = "wait"] /\ runs' = runs + 1 /\ run' = runs + 1
    BY <1>7 DEF Install
  <2> QED
    BY <1>7, <2>1, <2>2, <2>3 DEF Install
<1>8. ASSUME NEW c \in Callers, Publish(c) PROVE TypeOK'
  BY <1>8 DEF Publish
<1>9. ASSUME NEW c \in Callers, NEW t \in Requests, SetTempo(c, t) PROVE TypeOK'
  <2>1. st' = [st EXCEPT !.tempo = clampTempo(t)] /\ clampTempo(t) \in 1 .. 8
    BY <1>9, TempoInRange DEF SetTempo
  <2>2. st' \in States
    BY <2>1 DEF States
  <2> QED
    BY <1>9, <2>2 DEF SetTempo
<1>10. ASSUME NEW r \in Runs, WaitCheck(r) PROVE TypeOK'
  BY <1>10 DEF WaitCheck, At
<1>11. ASSUME NEW r \in Runs, WaitOver(r) PROVE TypeOK'
  BY <1>11 DEF WaitOver, At
<1>12. ASSUME NEW r \in Runs, WaitCancelled(r) PROVE TypeOK'
  BY <1>12 DEF WaitCancelled, SeesCancel
<1>13. ASSUME NEW r \in Runs, ClipEnds(r) PROVE TypeOK'
  BY <1>13 DEF ClipEnds, At
<1>14. ASSUME NEW r \in Runs, LoopSeam(r) PROVE TypeOK'
  BY <1>14 DEF LoopSeam, At
<1>15. ASSUME NEW r \in Runs, NEW n \in Notes, EmitNoteOn(r, n) PROVE TypeOK'
  BY <1>15 DEF EmitNoteOn, At
<1>16. ASSUME NEW r \in Runs, NEW n \in Notes, EmitNoteOff(r, n) PROVE TypeOK'
  BY <1>16 DEF EmitNoteOff, At
<1>17. ASSUME NEW r \in Runs, Release(r) PROVE TypeOK'
  BY <1>17 DEF Release, At
<1>18. ASSUME NEW r \in Runs, Flip(r) PROVE TypeOK'
  <2>1. [st EXCEPT !.playing = FALSE] \in States
    BY DEF States
  <2> QED
    BY <1>18, <2>1 DEF Flip, At
<1>19. ASSUME NEW r \in Runs, Clear(r) PROVE TypeOK'
  BY <1>19 DEF Clear, At
<1>20. ASSUME NEW r \in Runs, Close(r) PROVE TypeOK'
  BY <1>20 DEF Close, At
<1>21. CASE UNCHANGED vars
  BY <1>21 DEF vars
<1> QED
  BY <1>1, <1>2, <1>3, <1>4, <1>5, <1>6, <1>7, <1>8, <1>9, <1>10, <1>11,
     <1>12, <1>13, <1>14, <1>15, <1>16, <1>17, <1>18, <1>19, <1>20, <1>21
     DEF Next, Transition, Schedule, Emit

(* Before the first Play.                                                *)
LEMMA InvInit == Init => IInv
<1> SUFFICES ASSUME Init PROVE IInv
  OBVIOUS
<1>1. \A r \in Runs : r \in Nat /\ r # NoRun
  BY DEF Runs, NoRun
<1> QED
  BY <1>1, TypeInit DEF IInv, TransportHeld, StopsTheRun, RunsInTurn, Finished,
     SilencedBySwitch, NotesAreOwed, ObserversAgree, Init, NoRun


(* Transport is one caller's at a time, and so is what it knows of the run. *)
LEMMA TransportStep ==
  TypeOK /\ TransportHeld /\ StopsTheRun /\ RunsInTurn /\ [Next]_vars =>
    TransportHeld' /\ StopsTheRun'
<1> DEFINE Goal == TransportHeld' /\ StopsTheRun'
<1> SUFFICES ASSUME TypeOK, TransportHeld, StopsTheRun, RunsInTurn, [Next]_vars PROVE Goal
  OBVIOUS
<1>G. NoRun \notin Runs
  BY DEF Runs, NoRun
<1>E. \A r \in Runs : done[r] => run # r
  BY DEF RunsInTurn, Finished
<1>F. run \in Runs => schedPC[run] # "unborn"
  BY DEF RunsInTurn, Finished
<1> USE <1>G DEF TypeOK, TransportHeld, StopsTheRun, lockVars, callVars, stateVars, runVars
<1>1. ASSUME NEW c \in Callers, BeginPlay(c) PROVE Goal
  BY <1>1 DEF BeginPlay
<1>2. ASSUME NEW c \in Callers, BeginStop(c) PROVE Goal
  BY <1>2 DEF BeginStop
<1>3. ASSUME NEW c \in Callers, NothingToStop(c) PROVE Goal
  <2>1. \E p \in {"idle", "install"} : callPC' = [callPC EXCEPT ![c] = p]
    BY <1>3 DEF NothingToStop
  <2>2. /\ transport = c /\ run = NoRun /\ UNCHANGED <<cbMu, joining, run, runs>>
        /\ callPC'[c] # "idle" => transport' = c /\ runs < MaxRuns
    BY <1>3 DEF NothingToStop
  <2>3. /\ callPC'[c] \in {"idle", "install"} /\ cbMu # c
        /\ \A d \in Callers \ {c} : cbMu # d /\ callPC'[d] = "idle"
    BY <1>3, <2>1, <2>2 DEF NothingToStop
  <2> HIDE DEF TypeOK
  <2> QED
    BY <2>2, <2>3
<1>4. ASSUME NEW c \in Callers, FindRun(c) PROVE Goal
  BY <1>4, <1>F DEF FindRun
<1>5. ASSUME NEW c \in Callers, Cancel(c) PROVE Goal
  BY <1>5 DEF Cancel
<1>6. ASSUME NEW c \in Callers, Join(c) PROVE Goal
  <2>1. \E p \in {"idle", "install"} : callPC' = [callPC EXCEPT ![c] = p]
    BY <1>6 DEF Join
  <2>2. /\ transport = c /\ run = NoRun /\ UNCHANGED <<cbMu, joining, run, runs>>
        /\ callPC'[c] # "idle" => transport' = c /\ runs < MaxRuns
    BY <1>6, <1>E DEF Join
  <2>3. /\ callPC'[c] \in {"idle", "install"} /\ cbMu # c
        /\ \A d \in Callers \ {c} : cbMu # d /\ callPC'[d] = "idle"
    BY <1>6, <2>1, <2>2 DEF Join
  <2> HIDE DEF TypeOK
  <2> QED
    BY <2>2, <2>3
<1>7. ASSUME NEW c \in Callers, Install(c) PROVE Goal
  BY <1>7 DEF Install
<1>8. ASSUME NEW c \in Callers, Publish(c) PROVE Goal
  BY <1>8 DEF Publish
<1>9. ASSUME NEW c \in Callers, NEW t \in Requests, SetTempo(c, t) PROVE Goal
  BY <1>9 DEF SetTempo
<1>10. ASSUME NEW r \in Runs, WaitCheck(r) PROVE Goal
  BY <1>10 DEF WaitCheck, At
<1>11. ASSUME NEW r \in Runs, WaitOver(r) PROVE Goal
  BY <1>11 DEF WaitOver, At
<1>12. ASSUME NEW r \in Runs, WaitCancelled(r) PROVE Goal
  BY <1>12 DEF WaitCancelled, SeesCancel
<1>13. ASSUME NEW r \in Runs, ClipEnds(r) PROVE Goal
  BY <1>13 DEF ClipEnds, At
<1>14. ASSUME NEW r \in Runs, LoopSeam(r) PROVE Goal
  BY <1>14 DEF LoopSeam, At
<1>15. ASSUME NEW r \in Runs, NEW n \in Notes, EmitNoteOn(r, n) PROVE Goal
  BY <1>15 DEF EmitNoteOn, At
<1>16. ASSUME NEW r \in Runs, NEW n \in Notes, EmitNoteOff(r, n) PROVE Goal
  BY <1>16 DEF EmitNoteOff, At
<1>17. ASSUME NEW r \in Runs, Release(r) PROVE Goal
  BY <1>17 DEF Release, At
<1>18. ASSUME NEW r \in Runs, Flip(r) PROVE Goal
  BY <1>18 DEF Flip, At
<1>19. ASSUME NEW r \in Runs, Clear(r) PROVE Goal
  BY <1>19 DEF Clear, At
<1>20. ASSUME NEW r \in Runs, Close(r) PROVE Goal
  BY <1>20 DEF Close, At
<1>21. CASE UNCHANGED vars
  BY <1>21 DEF vars
<1> QED
  BY <1>1, <1>2, <1>3, <1>4, <1>5, <1>6, <1>7, <1>8, <1>9, <1>10, <1>11,
     <1>12, <1>13, <1>14, <1>15, <1>16, <1>17, <1>18, <1>19, <1>20, <1>21
     DEF Next, Transition, Schedule, Emit

(* A scheduler owns Player.run until its Clear.                          *)
LEMMA RunsStep ==
  TypeOK /\ StopsTheRun /\ RunsInTurn /\ [Next]_vars => RunsInTurn'
<1> SUFFICES ASSUME TypeOK, StopsTheRun, RunsInTurn, [Next]_vars PROVE RunsInTurn'
  OBVIOUS
<1>G. NoRun \notin Runs
  BY DEF Runs, NoRun
<1>C. runs \in Nat /\ \A r \in Runs : r \in Nat
  BY RunsCounted DEF Runs
<1> USE <1>G DEF TypeOK, RunsInTurn, Finished, lockVars, callVars, stateVars, runVars
<1>1. ASSUME NEW c \in Callers, BeginPlay(c) PROVE RunsInTurn'
  BY <1>1 DEF BeginPlay
<1>2. ASSUME NEW c \in Callers, BeginStop(c) PROVE RunsInTurn'
  BY <1>2 DEF BeginStop
<1>3. ASSUME NEW c \in Callers, NothingToStop(c) PROVE RunsInTurn'
  BY <1>3 DEF NothingToStop
<1>4. ASSUME NEW c \in Callers, FindRun(c) PROVE RunsInTurn'
  BY <1>4 DEF FindRun
<1>5. ASSUME NEW c \in Callers, Cancel(c) PROVE RunsInTurn'
  BY <1>5 DEF Cancel
<1>6. ASSUME NEW c \in Callers, Join(c) PROVE RunsInTurn'
  BY <1>6 DEF Join
<1>7. ASSUME NEW c \in Callers, Install(c) PROVE RunsInTurn'
  <2>1. run = NoRun
    BY <1>7 DEF Install, StopsTheRun
  <2>2. /\ runs' = runs + 1 /\ run' = runs + 1 /\ UNCHANGED <<done, held>>
        /\ schedPC' = [schedPC EXCEPT ![runs + 1] = "wait"]
    BY <1>7 DEF Install
  <2>3. \A r \in Runs : schedPC'[r] = IF r = runs + 1 THEN "wait" ELSE schedPC[r]
    BY <2>2
  <2> HIDE DEF TypeOK
  <2>4. ASSUME NEW r \in Runs
        PROVE  /\ runs' < r => schedPC'[r] = "unborn"
               /\ schedPC'[r] \notin {"unborn", "close", "ended"} <=> run' = r
               /\ done'[r] => schedPC'[r] = "ended"
               /\ held'[r] # {} => schedPC'[r] \in {"wait", "sleep", "emit", "release"}
    <3>1. CASE r = runs + 1
      <4>1. runs < r /\ ~(runs' < r) /\ run' = r
        BY <3>1, <1>C, <2>2
      <4>2. schedPC[r] = "unborn" /\ schedPC'[r] = "wait"
        BY <3>1, <4>1, <2>3
      <4>3. ~done[r] /\ held[r] = {}
        BY <4>2
      <4> QED
        BY <4>1, <4>2, <4>3, <2>2
    <3>2. CASE r # runs + 1
      <4>1. schedPC'[r] = schedPC[r] /\ run # r /\ run' # r
        BY <3>2, <2>1, <2>2, <2>3
      <4>2. runs' < r => runs < r
        BY <1>C, <2>2
      <4> QED
        BY <4>1, <4>2, <2>2
    <3> QED
      BY <3>1, <3>2
  <2> QED
    BY <2>4
<1>8. ASSUME NEW c \in Callers, Publish(c) PROVE RunsInTurn'
  BY <1>8 DEF Publish
<1>9. ASSUME NEW c \in Callers, NEW t \in Requests, SetTempo(c, t) PROVE RunsInTurn'
  BY <1>9 DEF SetTempo
<1>10. ASSUME NEW r \in Runs, WaitCheck(r) PROVE RunsInTurn'
  BY <1>10 DEF WaitCheck, At
<1>11. ASSUME NEW r \in Runs, WaitOver(r) PROVE RunsInTurn'
  BY <1>11 DEF WaitOver, At
<1>12. ASSUME NEW r \in Runs, WaitCancelled(r) PROVE RunsInTurn'
  BY <1>12 DEF WaitCancelled, SeesCancel
<1>13. ASSUME NEW r \in Runs, ClipEnds(r) PROVE RunsInTurn'
  BY <1>13 DEF ClipEnds, At
<1>14. ASSUME NEW r \in Runs, LoopSeam(r) PROVE RunsInTurn'
  BY <1>14 DEF LoopSeam, At
<1>15. ASSUME NEW r \in Runs, NEW n \in Notes, EmitNoteOn(r, n) PROVE RunsInTurn'
  BY <1>15 DEF EmitNoteOn, At
<1>16. ASSUME NEW r \in Runs, NEW n \in Notes, EmitNoteOff(r, n) PROVE RunsInTurn'
  BY <1>16 DEF EmitNoteOff, At
<1>17. ASSUME NEW r \in Runs, Release(r) PROVE RunsInTurn'
  BY <1>17 DEF Release, At
<1>18. ASSUME NEW r \in Runs, Flip(r) PROVE RunsInTurn'
  BY <1>18 DEF Flip, At
<1>19. ASSUME NEW r \in Runs, Clear(r) PROVE RunsInTurn'
  BY <1>19 DEF Clear, At
<1>20. ASSUME NEW r \in Runs, Close(r) PROVE RunsInTurn'
  BY <1>20 DEF Close, At
<1>21. CASE UNCHANGED vars
  BY <1>21 DEF vars
<1> QED
  BY <1>1, <1>2, <1>3, <1>4, <1>5, <1>6, <1>7, <1>8, <1>9, <1>10, <1>11,
     <1>12, <1>13, <1>14, <1>15, <1>16, <1>17, <1>18, <1>19, <1>20, <1>21
     DEF Next, Transition, Schedule, Emit

(* Only the run that plays owes notes, so the synth rings with just those.  *)
LEMMA NotesStep == TypeOK /\ RunsInTurn /\ NotesAreOwed /\ [Next]_vars => NotesAreOwed'
<1> DEFINE Owed == \A n : n \in ringing <=> \E r \in Runs : n \in held[r]
<1>1. NotesAreOwed <=> Owed
  BY DEF NotesAreOwed
<1>2. NotesAreOwed' <=> Owed'
  BY DEF NotesAreOwed
<1> SUFFICES ASSUME TypeOK, RunsInTurn, Owed, [Next]_vars PROVE Owed'
  BY <1>1, <1>2
<1>O. ASSUME NEW r \in Runs, schedPC[r] \in {"sleep", "emit", "release"}
      PROVE  \A q \in Runs \ {r} : held[q] = {}
  BY <1>O DEF RunsInTurn, Finished
<1>T. /\ held \in [Runs -> SUBSET Notes] /\ ringing \subseteq Notes
      /\ schedPC \in [Runs -> {"unborn", "wait", "sleep", "emit", "release", "flip",
                               "clear", "close", "ended"}]
  BY DEF TypeOK
<1> USE <1>T DEF lockVars, callVars, stateVars, runVars
<1>3. ASSUME NEW c \in Callers, BeginPlay(c) PROVE Owed'
  BY <1>3 DEF BeginPlay
<1>4. ASSUME NEW c \in Callers, BeginStop(c) PROVE Owed'
  BY <1>4 DEF BeginStop
<1>5. ASSUME NEW c \in Callers, NothingToStop(c) PROVE Owed'
  BY <1>5 DEF NothingToStop
<1>6. ASSUME NEW c \in Callers, FindRun(c) PROVE Owed'
  BY <1>6 DEF FindRun
<1>7. ASSUME NEW c \in Callers, Cancel(c) PROVE Owed'
  BY <1>7 DEF Cancel
<1>8. ASSUME NEW c \in Callers, Join(c) PROVE Owed'
  BY <1>8 DEF Join
<1>9. ASSUME NEW c \in Callers, Install(c) PROVE Owed'
  BY <1>9 DEF Install
<1>10. ASSUME NEW c \in Callers, Publish(c) PROVE Owed'
  BY <1>10 DEF Publish
<1>11. ASSUME NEW c \in Callers, NEW t \in Requests, SetTempo(c, t) PROVE Owed'
  BY <1>11 DEF SetTempo
<1>12. ASSUME NEW r \in Runs, WaitCheck(r) PROVE Owed'
  BY <1>12 DEF WaitCheck, At
<1>13. ASSUME NEW r \in Runs, WaitOver(r) PROVE Owed'
  BY <1>13 DEF WaitOver, At
<1>14. ASSUME NEW r \in Runs, WaitCancelled(r) PROVE Owed'
  BY <1>14 DEF WaitCancelled, SeesCancel
<1>15. ASSUME NEW r \in Runs, ClipEnds(r) PROVE Owed'
  BY <1>15 DEF ClipEnds, At
<1>16. ASSUME NEW r \in Runs, LoopSeam(r) PROVE Owed'
  <2>1. \A q \in Runs \ {r} : held[q] = {} /\ held'[q] = {}
    BY <1>16, <1>O DEF LoopSeam, At
  <2>2. held'[r] = {} /\ ringing' = ringing \ held[r]
    BY <1>16 DEF LoopSeam, At
  <2> QED
    BY <2>1, <2>2
<1>17. ASSUME NEW r \in Runs, NEW n \in Notes, EmitNoteOn(r, n) PROVE Owed'
  <2>1. \A q \in Runs \ {r} : held[q] = {} /\ held'[q] = {}
    BY <1>17, <1>O DEF EmitNoteOn, At
  <2>2. held'[r] = held[r] \cup {n} /\ ringing' = ringing \cup {n}
    BY <1>17 DEF EmitNoteOn, At
  <2> QED
    BY <2>1, <2>2
<1>18. ASSUME NEW r \in Runs, NEW n \in Notes, EmitNoteOff(r, n) PROVE Owed'
  <2>1. \A q \in Runs \ {r} : held[q] = {} /\ held'[q] = {}
    BY <1>18, <1>O DEF EmitNoteOff, At
  <2>2. held'[r] = held[r] \ {n} /\ ringing' = ringing \ {n}
    BY <1>18 DEF EmitNoteOff, At
  <2> QED
    BY <2>1, <2>2
<1>19. ASSUME NEW r \in Runs, Release(r) PROVE Owed'
  <2>1. \A q \in Runs \ {r} : held[q] = {} /\ held'[q] = {}
    BY <1>19, <1>O DEF Release, At
  <2>2. held'[r] = {} /\ ringing' = ringing \ held[r]
    BY <1>19 DEF Release, At
  <2> QED
    BY <2>1, <2>2
<1>20. ASSUME NEW r \in Runs, Flip(r) PROVE Owed'
  BY <1>20 DEF Flip, At
<1>21. ASSUME NEW r \in Runs, Clear(r) PROVE Owed'
  BY <1>21 DEF Clear, At
<1>22. ASSUME NEW r \in Runs, Close(r) PROVE Owed'
  BY <1>22 DEF Close, At
<1>23. CASE UNCHANGED vars
  BY <1>23 DEF vars
<1> QED
  BY <1>3, <1>4, <1>5, <1>6, <1>7, <1>8, <1>9, <1>10, <1>11, <1>12, <1>13,
     <1>14, <1>15, <1>16, <1>17, <1>18, <1>19, <1>20, <1>21, <1>22, <1>23
     DEF Next, Transition, Schedule, Emit

(* The stop a switch silences is made up for by the switch's own callback.  *)
LEMMA ObserversStep ==
  IInv /\ [Next]_vars => SilencedBySwitch' /\ ObserversAgree'
<1> DEFINE Goal == SilencedBySwitch' /\ ObserversAgree'
<1> SUFFICES ASSUME IInv, [Next]_vars PROVE Goal
  OBVIOUS
<1>G. NoRun \notin Runs
  BY DEF Runs, NoRun
<1>E. \A r \in Runs : done[r] => run # r
  BY DEF IInv, RunsInTurn, Finished
<1>I. runs < MaxRuns => runs + 1 \in Runs /\ schedPC[runs + 1] = "unborn"
  <2>1. runs \in Nat /\ (runs < MaxRuns => runs + 1 \in Runs)
    BY RunsCounted DEF IInv
  <2> QED
    BY <2>1 DEF IInv, RunsInTurn
<1> USE <1>G DEF IInv, TypeOK, TransportHeld, SilencedBySwitch, ObserversAgree,
    Switching, lockVars, callVars, stateVars, runVars
<1>1. ASSUME NEW c \in Callers, BeginPlay(c) PROVE Goal
  BY <1>1 DEF BeginPlay
<1>2. ASSUME NEW c \in Callers, BeginStop(c) PROVE Goal
  BY <1>2 DEF BeginStop
<1>3. ASSUME NEW c \in Callers, NothingToStop(c) PROVE Goal
  BY <1>3 DEF NothingToStop
<1>4. ASSUME NEW c \in Callers, FindRun(c) PROVE Goal
  BY <1>4 DEF FindRun
<1>5. ASSUME NEW c \in Callers, Cancel(c) PROVE Goal
  <2>1. PICK j \in Runs : j = joining[c] /\ schedPC[j] # "unborn"
    BY <1>5 DEF Cancel, StopsTheRun
  <2>2. /\ silent' = [silent EXCEPT ![j] = callPC[c] = "play join"]
        /\ UNCHANGED <<lockVars, callVars, stateVars, schedPC>>
    BY <1>5, <2>1 DEF Cancel
  <2>3. SilencedBySwitch'
    BY <2>1, <2>2
  <2>4. ObserversAgree'
    BY <2>2
  <2> QED
    BY <2>3, <2>4
<1>6. ASSUME NEW c \in Callers, Join(c) PROVE Goal
  <2>1. /\ run = NoRun /\ UNCHANGED <<cbMu, run, silent, schedPC, published, st>>
        /\ \A d \in Callers \ {c} : callPC[d] = "idle"
    BY <1>6, <1>E DEF Join, StopsTheRun
  <2>2. Switching' <=> Switching
    BY <1>6, <2>1 DEF Join
  <2> QED
    BY <2>1, <2>2
<1>7. ASSUME NEW c \in Callers, Install(c) PROVE Goal
  <2>1. runs + 1 \in Runs /\ schedPC[runs + 1] = "unborn"
    BY <1>7, <1>I DEF Install, StopsTheRun
  <2>2. ~silent[runs + 1] /\ cbMu' = c /\ c # Nobody /\ run' = runs + 1 /\ silent' = silent
    BY <1>7, <2>1 DEF Install
  <2>3. schedPC' = [schedPC EXCEPT ![runs + 1] = "wait"]
    BY <1>7 DEF Install
  <2> QED
    BY <2>1, <2>2, <2>3
<1>8. ASSUME NEW c \in Callers, Publish(c) PROVE Goal
  BY <1>8 DEF Publish
<1>9. ASSUME NEW c \in Callers, NEW t \in Requests, SetTempo(c, t) PROVE Goal
  BY <1>9 DEF SetTempo
<1>10. ASSUME NEW r \in Runs, WaitCheck(r) PROVE Goal
  BY <1>10 DEF WaitCheck, At
<1>11. ASSUME NEW r \in Runs, WaitOver(r) PROVE Goal
  BY <1>11 DEF WaitOver, At
<1>12. ASSUME NEW r \in Runs, WaitCancelled(r) PROVE Goal
  BY <1>12 DEF WaitCancelled, SeesCancel
<1>13. ASSUME NEW r \in Runs, ClipEnds(r) PROVE Goal
  BY <1>13 DEF ClipEnds, At
<1>14. ASSUME NEW r \in Runs, LoopSeam(r) PROVE Goal
  BY <1>14 DEF LoopSeam, At
<1>15. ASSUME NEW r \in Runs, NEW n \in Notes, EmitNoteOn(r, n) PROVE Goal
  BY <1>15 DEF EmitNoteOn, At
<1>16. ASSUME NEW r \in Runs, NEW n \in Notes, EmitNoteOff(r, n) PROVE Goal
  BY <1>16 DEF EmitNoteOff, At
<1>17. ASSUME NEW r \in Runs, Release(r) PROVE Goal
  BY <1>17 DEF Release, At
<1>18. ASSUME NEW r \in Runs, Flip(r) PROVE Goal
  BY <1>18 DEF Flip, At
<1>19. ASSUME NEW r \in Runs, Clear(r) PROVE Goal
  BY <1>19 DEF Clear, At
<1>20. ASSUME NEW r \in Runs, Close(r) PROVE Goal
  BY <1>20 DEF Close, At
<1>21. CASE UNCHANGED vars
  BY <1>21 DEF vars
<1> QED
  BY <1>1, <1>2, <1>3, <1>4, <1>5, <1>6, <1>7, <1>8, <1>9, <1>10, <1>11,
     <1>12, <1>13, <1>14, <1>15, <1>16, <1>17, <1>18, <1>19, <1>20, <1>21
     DEF Next, Transition, Schedule, Emit

(* Every step keeps IInv.                                                *)
LEMMA InvStep == IInv /\ [Next]_vars => IInv'
  BY TypeStep, TransportStep, RunsStep, NotesStep, ObserversStep DEF IInv

(* The invariant that carries the others.                                *)
LEMMA Invariance == Spec => []IInv
  BY InvInit, InvStep, PTL DEF Spec

(***************************************************************************)
(* Every variable stays in its set, tempos and run numbers included.     *)
(***************************************************************************)
THEOREM TypeCorrect == Spec => []TypeOK
<1>1. IInv => TypeOK
  BY DEF IInv
<1> QED
  BY <1>1, Invariance, PTL

(***************************************************************************)
(* "no stuck notes, ever": what the synth sounds for the player is what  *)
(* the runs' held sets say they owe a NoteOff for.                       *)
(***************************************************************************)
THEOREM NoStuckNotes == Spec => []NotesAreOwed
<1>1. IInv => NotesAreOwed
  BY DEF IInv
<1> QED
  BY <1>1, Invariance, PTL

(***************************************************************************)
(* A scheduler that can still reach the synth is that of Player.run.     *)
(***************************************************************************)
THEOREM NoStaleScheduler == Spec => []OnlyTheRunPlays
<1>1. IInv => OnlyTheRunPlays
  BY DEF IInv, RunsInTurn, OnlyTheRunPlays
<1> QED
  BY <1>1, Invariance, PTL

(***************************************************************************)
(* finish's contract: a caller that sees no run may rely on silence.     *)
(***************************************************************************)
THEOREM SilenceWithoutRun == Spec => []NoRunMeansSilence
<1>1. IInv => NoRunMeansSilence
  <2> SUFFICES ASSUME IInv, run = NoRun PROVE ringing = {} /\ \A r \in Runs : Finished(r)
    BY DEF NoRunMeansSilence
  <2>1. \A r \in Runs : Finished(r)
    BY DEF IInv, RunsInTurn, Runs, NoRun
  <2>2. \A r \in Runs : held[r] = {}
    BY <2>1 DEF IInv, RunsInTurn, Finished
  <2>3. ringing = {}
    BY <2>2 DEF IInv, NotesAreOwed
  <2> QED
    BY <2>1, <2>3
<1> QED
  BY <1>1, Invariance, PTL

(***************************************************************************)
(* OnChange ends on the player's state, the silent stop of a clip switch *)
(* notwithstanding.                                                      *)
(***************************************************************************)
THEOREM ObserversEndRight == Spec => []ObserversAgree
<1>1. IInv => ObserversAgree
  BY DEF IInv
<1> QED
  BY <1>1, Invariance, PTL

=============================================================================
