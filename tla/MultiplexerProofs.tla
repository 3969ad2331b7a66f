-------------------------- MODULE MultiplexerProofs --------------------------
(***************************************************************************)
(* The safety of the MIDI multiplexer, for any number of ports, notes and  *)
(* listeners.                                                              *)
(***************************************************************************)
EXTENDS Multiplexer, TLAPS

USE MultiplexerAssumption DEF MultiplexerAssumption

(***************************************************************************)
(* What makes NoOrphans inductive.  A tick begins with nobody left to stop *)
(* from the one before, or Reconcile would forget them; and a port it is   *)
(* about to open has no entry, or the new listener would displace one.     *)
(***************************************************************************)
TickLocals ==
  /\ runPC \in {"idle", "list", "reconcile"} => stopping = {} /\ opening = {}
  /\ \A p \in opening : ports[p] = Nobody

IInv == TypeOK /\ TickLocals /\ NoOrphans /\ NoStuckNotes

(* Nobody is not a listener. *)
LEMMA NobodyIsNone == Nobody \notin Listeners
  BY DEF Nobody, Listeners

(* Before the first tick no port is open and nothing sounds. *)
LEMMA InvInit == Init => IInv
<1> SUFFICES ASSUME Init PROVE IInv
  OBVIOUS
<1>1. TypeOK
  BY DEF Init, TypeOK
<1>2. TickLocals
  BY DEF Init, TickLocals
<1>3. NoOrphans
  BY DEF Init, NoOrphans
<1>4. NoStuckNotes
  BY DEF Init, NoStuckNotes
<1> QED
  BY <1>1, <1>2, <1>3, <1>4 DEF IInv

(* Every step keeps each variable in its set, and each entry of the map  *)
(* with the port its listener listens to.                                *)
LEMMA TypeStep == IInv /\ [Next]_vars => TypeOK'
<1> SUFFICES ASSUME IInv, [Next]_vars PROVE TypeOK'
  OBVIOUS
<1> USE NobodyIsNone DEF envVars, runVars, listenerVars
<1>0. TypeOK /\ TickLocals /\ NoOrphans
  BY DEF IInv
<1>1. ASSUME NEW now \in SUBSET Ports, Hotplug(now) PROVE TypeOK'
  BY <1>0, <1>1 DEF Hotplug, TypeOK
<1>2. ASSUME NEW names \in SUBSET Ports, SetAllow(names) PROVE TypeOK'
  BY <1>0, <1>2 DEF SetAllow, TypeOK
<1>3. Shutdown => TypeOK'
  BY <1>0 DEF Shutdown, TypeOK
<1>4. TickStart => TypeOK'
  BY <1>0 DEF TickStart, TypeOK
<1>5. ListPorts => TypeOK'
  BY <1>0 DEF ListPorts, TypeOK
<1>6. ListFails => TypeOK'
  BY <1>0 DEF ListFails, TypeOK
<1>7. Reconcile => TypeOK'
  BY <1>0 DEF Reconcile, TypeOK
<1>8. ASSUME NEW l \in Listeners, StopOne(l) PROVE TypeOK'
  BY <1>0, <1>8 DEF StopOne, TypeOK
<1>9. ASSUME NEW p \in Ports, NEW l \in Listeners, OpenOne(p, l) PROVE TypeOK'
  <2>1. \A q \in Ports : ports[q] # l
    BY <1>0, <1>9 DEF OpenOne, NextListener, NoOrphans
  <2>2. \A q \in Ports : ports'[q] # Nobody => portOf'[ports'[q]] = q
    BY <1>0, <1>9, <2>1 DEF OpenOne, TypeOK
  <2> QED
    BY <1>0, <1>9, <2>2 DEF OpenOne, TypeOK
<1>10. TickDone => TypeOK'
  BY <1>0 DEF TickDone, TypeOK
<1>11. CloseAll => TypeOK'
  BY <1>0 DEF CloseAll, TypeOK
<1>12. Return => TypeOK'
  BY <1>0 DEF Return, TypeOK
<1>13. ASSUME NEW l \in Listeners, NEW n \in Notes, NoteOn(l, n) PROVE TypeOK'
  BY <1>0, <1>13 DEF NoteOn, TypeOK
<1>14. ASSUME NEW l \in Listeners, NEW n \in Notes, NoteOff(l, n) PROVE TypeOK'
  BY <1>0, <1>14 DEF NoteOff, TypeOK
<1>15. ASSUME NEW l \in Listeners, ListenEnds(l) PROVE TypeOK'
  BY <1>0, <1>15 DEF ListenEnds, TypeOK
<1>16. ASSUME NEW l \in Listeners, Release(l) PROVE TypeOK'
  BY <1>0, <1>16 DEF Release, TypeOK
<1>17. ASSUME NEW l \in Listeners, Forget(l) PROVE TypeOK'
  BY <1>0, <1>17 DEF Forget, TypeOK
<1>18. ASSUME NEW l \in Listeners, Close(l) PROVE TypeOK'
  <2>1. \A q \in Ports : ports[q] # l
    BY <1>0, <1>18 DEF Close, NoOrphans
  <2>2. \A q \in Ports : ports'[q] # Nobody => portOf'[ports'[q]] = q
    BY <1>0, <1>18, <2>1 DEF Close, TypeOK
  <2> QED
    BY <1>0, <1>18, <2>2 DEF Close, TypeOK
<1>19. UNCHANGED vars => TypeOK'
  BY <1>0 DEF vars, TypeOK
<1> HIDE DEF IInv
<1> QED
  BY <1>1, <1>2, <1>3, <1>4, <1>5, <1>6, <1>7, <1>8, <1>9, <1>10, <1>11, <1>12,
     <1>13, <1>14, <1>15, <1>16, <1>17, <1>18, <1>19 DEF Next, RunStep, WindDown

(* Between ticks Run has nobody to stop and nothing to open. *)
LEMMA LocalsStep == IInv /\ [Next]_vars => TickLocals'
<1> SUFFICES ASSUME IInv, [Next]_vars PROVE TickLocals'
  OBVIOUS
<1> USE NobodyIsNone DEF envVars, runVars, listenerVars
<1>0. TypeOK /\ TickLocals
  BY DEF IInv
<1>1. CASE UNCHANGED <<runPC, stopping, opening, ports>>
  BY <1>0, <1>1 DEF TickLocals
<1>2. TickStart \/ ListPorts \/ ListFails \/ TickDone \/ CloseAll \/ Return => TickLocals'
  BY <1>0 DEF TickStart, ListPorts, ListFails, TickDone, CloseAll, Return, TickLocals
<1>3. Reconcile => TickLocals'
  BY <1>0 DEF Reconcile, TickLocals, TypeOK
<1>4. ASSUME NEW l \in Listeners, StopOne(l) PROVE TickLocals'
  BY <1>0, <1>4 DEF StopOne, TickLocals
<1>5. ASSUME NEW p \in Ports, NEW l \in Listeners, OpenOne(p, l) PROVE TickLocals'
  BY <1>0, <1>5 DEF OpenOne, TickLocals, TypeOK
<1>6. ASSUME NEW l \in Listeners, Forget(l) PROVE TickLocals'
  <2>1. \A p \in Ports : ports'[p] \in {ports[p], Nobody}
    BY <1>0, <1>6 DEF Forget, TypeOK
  <2> QED
    BY <1>0, <1>6, <2>1 DEF Forget, TickLocals, TypeOK
<1>7. ASSUME NEW l \in Listeners, Release(l) \/ Close(l) \/ ListenEnds(l) PROVE TickLocals'
  BY <1>7, <1>1 DEF Release, Close, ListenEnds
<1>8. ASSUME NEW l \in Listeners, NEW n \in Notes, NoteOn(l, n) \/ NoteOff(l, n)
      PROVE TickLocals'
  BY <1>8, <1>1 DEF NoteOn, NoteOff
<1>9. ASSUME NEW s \in SUBSET Ports, Hotplug(s) \/ SetAllow(s) PROVE TickLocals'
  BY <1>9, <1>1 DEF Hotplug, SetAllow
<1>10. Shutdown \/ UNCHANGED vars => TickLocals'
  BY <1>1 DEF Shutdown, vars
<1> QED
  BY <1>2, <1>3, <1>4, <1>5, <1>6, <1>7, <1>8, <1>9, <1>10 DEF Next, RunStep, WindDown

(* The map and the listeners stay in agreement. *)
LEMMA OrphansStep == IInv /\ [Next]_vars => NoOrphans'
<1> SUFFICES ASSUME IInv, [Next]_vars PROVE NoOrphans'
  OBVIOUS
<1> USE NobodyIsNone DEF envVars, runVars, listenerVars
<1>0. TypeOK /\ TickLocals /\ NoOrphans
  BY DEF IInv
<1>1. ASSUME UNCHANGED <<ports, stopping, pc, portOf, cancelled>>, ctxDone => ctxDone'
      PROVE NoOrphans'
  BY <1>0, <1>1 DEF NoOrphans, ToldToStop
<1>2. Shutdown \/ TickStart \/ ListPorts \/ ListFails \/ TickDone \/ Return => NoOrphans'
  BY <1>1 DEF Shutdown, TickStart, ListPorts, ListFails, TickDone, Return
<1>3. ASSUME NEW s \in SUBSET Ports, Hotplug(s) \/ SetAllow(s) PROVE NoOrphans'
  BY <1>1, <1>3 DEF Hotplug, SetAllow
<1>4. ASSUME NEW l \in Listeners, NEW n \in Notes, NoteOn(l, n) \/ NoteOff(l, n)
      PROVE NoOrphans'
  BY <1>1, <1>4 DEF NoteOn, NoteOff
<1>5. ASSUME NEW l \in Listeners, Release(l) PROVE NoOrphans'
  BY <1>0, <1>5 DEF Release, NoOrphans, ToldToStop, TypeOK
<1>6. Reconcile => NoOrphans'
  <2> SUFFICES ASSUME Reconcile PROVE NoOrphans'
    OBVIOUS
  <2>1. \A p \in Ports : ports'[p] # Nobody => ports'[p] = ports[p]
    BY <1>0 DEF Reconcile, TypeOK
  <2>2. \A p \in Ports : ports[p] # Nobody => ports'[p] = ports[p] \/ ports[p] \in stopping'
    BY <1>0 DEF Reconcile, TypeOK
  <2>3. ASSUME NEW l \in Listeners, pc[l] = "listening", ~ToldToStop(l)
        PROVE l \in stopping' \/ ports'[portOf[l]] = l
    <3>1. stopping = {}
      BY <1>0 DEF Reconcile, TickLocals
    <3>2. ports[portOf[l]] = l
      BY <1>0, <2>3, <3>1 DEF NoOrphans
    <3>3. portOf[l] \in Ports
      BY <1>0, <2>3 DEF TypeOK
    <3> QED
      BY <2>2, <3>2, <3>3
  <2> QED
    BY <1>0, <2>1, <2>3 DEF Reconcile, NoOrphans, ToldToStop
<1>7. ASSUME NEW l \in Listeners, StopOne(l) PROVE NoOrphans'
  BY <1>0, <1>7 DEF StopOne, NoOrphans, ToldToStop, TypeOK
<1>8. ASSUME NEW p \in Ports, NEW l \in Listeners, OpenOne(p, l) PROVE NoOrphans'
  BY <1>0, <1>8 DEF OpenOne, NextListener, TickLocals, NoOrphans, ToldToStop, TypeOK
<1>9. CloseAll => NoOrphans'
  BY <1>0 DEF CloseAll, NoOrphans, ToldToStop, TypeOK
<1>10. ASSUME NEW l \in Listeners, ListenEnds(l) PROVE NoOrphans'
  BY <1>0, <1>10 DEF ListenEnds, NoOrphans, ToldToStop, TypeOK
<1>11. ASSUME NEW l \in Listeners, Forget(l) PROVE NoOrphans'
  BY <1>0, <1>11 DEF Forget, NoOrphans, ToldToStop, TypeOK
<1>12. ASSUME NEW l \in Listeners, Close(l) PROVE NoOrphans'
  BY <1>0, <1>12 DEF Close, NoOrphans, ToldToStop, TypeOK
<1>13. UNCHANGED vars => NoOrphans'
  BY <1>1 DEF vars
<1> QED
  BY <1>2, <1>3, <1>4, <1>5, <1>6, <1>7, <1>8, <1>9, <1>10, <1>11, <1>12, <1>13
     DEF Next, RunStep, WindDown

(* Only a listener's own notes are taken from it, and they stop sounding. *)
LEMMA NotesStep == IInv /\ [Next]_vars => NoStuckNotes'
<1> SUFFICES ASSUME IInv, [Next]_vars PROVE NoStuckNotes'
  OBVIOUS
<1> USE DEF envVars, runVars, listenerVars
<1>0. TypeOK /\ NoStuckNotes
  BY DEF IInv
<1>1. CASE UNCHANGED <<held, ringing>>
  BY <1>0, <1>1 DEF NoStuckNotes
<1>2. ASSUME NEW l \in Listeners, NEW n \in Notes, NoteOn(l, n) PROVE NoStuckNotes'
  BY <1>0, <1>2 DEF NoteOn, NoStuckNotes, TypeOK
<1>3. ASSUME NEW l \in Listeners, NEW n \in Notes, NoteOff(l, n) PROVE NoStuckNotes'
  BY <1>0, <1>3 DEF NoteOff, NoStuckNotes, TypeOK
<1>4. ASSUME NEW l \in Listeners, Release(l) PROVE NoStuckNotes'
  BY <1>0, <1>4 DEF Release, NoStuckNotes, TypeOK
<1>5. ASSUME NEW l \in Listeners, ListenEnds(l) \/ Forget(l) \/ Close(l) \/ StopOne(l)
      PROVE NoStuckNotes'
  BY <1>1, <1>5 DEF ListenEnds, Forget, Close, StopOne
<1>6. ASSUME NEW p \in Ports, NEW l \in Listeners, OpenOne(p, l) PROVE NoStuckNotes'
  BY <1>1, <1>6 DEF OpenOne
<1>7. ASSUME NEW s \in SUBSET Ports, Hotplug(s) \/ SetAllow(s) PROVE NoStuckNotes'
  BY <1>1, <1>7 DEF Hotplug, SetAllow
<1>8. Shutdown \/ TickStart \/ ListPorts \/ ListFails \/ Reconcile => NoStuckNotes'
  BY <1>1 DEF Shutdown, TickStart, ListPorts, ListFails, Reconcile
<1>9. TickDone \/ CloseAll \/ Return \/ UNCHANGED vars => NoStuckNotes'
  BY <1>1 DEF TickDone, CloseAll, Return, vars
<1> QED
  BY <1>2, <1>3, <1>4, <1>5, <1>6, <1>7, <1>8, <1>9 DEF Next, RunStep, WindDown

LEMMA InvStep == IInv /\ [Next]_vars => IInv'
  BY TypeStep, LocalsStep, OrphansStep, NotesStep DEF IInv

LEMMA Invariance == Spec => []IInv
<1> QED
  BY InvInit, InvStep, PTL DEF Spec

-----------------------------------------------------------------------------

(***************************************************************************)
(* Every variable stays in its set, and an entry of the map always belongs *)
(* to a listener of that very port (open and the loop that calls it).      *)
(***************************************************************************)
THEOREM TypeCorrect == Spec => []TypeOK
<1>1. IInv => TypeOK
  BY DEF IInv
<1> QED
  BY <1>1, Invariance, PTL

(***************************************************************************)
(* Whatever sounds is held by a listener that will release it, whether its *)
(* port was unplugged, deselected or closed with the daemon (the teardown  *)
(* in open's goroutine).                                                   *)
(***************************************************************************)
THEOREM KeyboardsLeaveNoNotes == Spec => []NoStuckNotes
<1>1. IInv => NoStuckNotes
  BY DEF IInv
<1> QED
  BY <1>1, Invariance, PTL

(***************************************************************************)
(* No entry outlives its listener, and no listener outlives its entry      *)
(* untold (tick, open's identity check and closeAll together).             *)
(***************************************************************************)
THEOREM ListenersAccountedFor == Spec => []NoOrphans
<1>1. IInv => NoOrphans
  BY DEF IInv
<1> QED
  BY <1>1, Invariance, PTL

=============================================================================
