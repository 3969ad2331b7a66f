----------------------------- MODULE Multiplexer -----------------------------
(***************************************************************************)
(* The note input of every selected keyboard (internal/midi/               *)
(* multiplexer.go).  Run polls the port list and reconciles the map of     *)
(* open ports with it: a port that is no longer listed or selected has its *)
(* listener cancelled, a new one gets a listener goroutine.  A listener    *)
(* forwards its port's notes until its context is done or its port dies,   *)
(* then releases what is still held, leaves the map if the entry is its    *)
(* own, and closes its done channel.                                       *)
(*                                                                         *)
(* A step is one critical section of Multiplexer.mu or of a listener's     *)
(* heldMu (which covers the delivery to the engine), or one cancellation.  *)
(* The idle watchdog, which only logs, is left out.                        *)
(***************************************************************************)
EXTENDS Naturals

CONSTANTS
  Ports,         \* names of MIDI input ports
  Notes,         \* (channel, note) pairs
  MaxListeners,  \* bound of the model: listeners that exist at the same time
  NoPort         \* no port

ASSUME MultiplexerAssumption ==
  /\ MaxListeners \in Nat
  /\ NoPort \notin Ports

VARIABLES
  plugged,    \* the ports PortLister enumerates
  allow,      \* the ports Multiplexer.lower matches
  ctxDone,    \* Run's context is done
  runPC,      \* where Run is, and its locals:
  wanted,     \*   names, until it is reconciled with them
  stopping,   \*   toCancel; in closeAll, the listeners it waits for
  opening,    \*   toOpen
  ports,      \* Multiplexer.ports
  pc,         \* each listener: idle (not started, or done), or where it is
  portOf,     \* the port it listens to
  cancelled,  \* its context was cancelled by itself
  held,       \* muxPort.held
  ringing     \* the notes the engine was told to sound

envVars == <<plugged, allow, ctxDone>>
runVars == <<runPC, wanted, stopping, opening>>
listenerVars == <<pc, portOf, cancelled, held>>
vars == <<envVars, runVars, ports, listenerVars, ringing>>

Listeners == 1 .. MaxListeners
Nobody == 0

TypeOK ==
  /\ plugged \subseteq Ports
  /\ allow \subseteq Ports
  /\ ctxDone \in BOOLEAN
  /\ runPC \in {"idle", "list", "reconcile", "apply", "wait", "returned"}
  /\ wanted \subseteq Ports
  /\ stopping \subseteq Listeners
  /\ opening \subseteq Ports
  /\ ports \in [Ports -> Listeners \cup {Nobody}]
  /\ pc \in [Listeners -> {"idle", "listening", "release", "forget", "close"}]
  /\ portOf \in [Listeners -> Ports \cup {NoPort}]
  /\ cancelled \in [Listeners -> BOOLEAN]
  /\ held \in [Listeners -> SUBSET Notes]
  /\ ringing \subseteq Notes
  /\ \A p \in Ports : ports[p] # Nobody => portOf[ports[p]] = p
  /\ \A l \in Listeners : pc[l] # "idle" => portOf[l] # NoPort

\* Run begins with a tick.
Init ==
  /\ plugged \in SUBSET Ports
  /\ allow \in SUBSET Ports
  /\ ctxDone = FALSE
  /\ runPC = "list"
  /\ wanted = {} /\ stopping = {} /\ opening = {}
  /\ ports = [p \in Ports |-> Nobody]
  /\ pc = [l \in Listeners |-> "idle"]
  /\ portOf = [l \in Listeners |-> NoPort]
  /\ cancelled = [l \in Listeners |-> FALSE]
  /\ held = [l \in Listeners |-> {}]
  /\ ringing = {}

-----------------------------------------------------------------------------
(* The world: devices come and go, the selection changes, the daemon stops. *)

Hotplug(now) ==
  /\ plugged' = now
  /\ UNCHANGED <<allow, ctxDone, runVars, ports, listenerVars, ringing>>

SetAllow(names) ==
  /\ allow' = names
  /\ UNCHANGED <<plugged, ctxDone, runVars, ports, listenerVars, ringing>>

Shutdown ==
  /\ ~ctxDone
  /\ ctxDone' = TRUE
  /\ UNCHANGED <<plugged, allow, runVars, ports, listenerVars, ringing>>

-----------------------------------------------------------------------------
(* Run and tick.                                                           *)

TickStart ==
  /\ runPC = "idle"
  /\ runPC' = "list"
  /\ UNCHANGED <<envVars, wanted, stopping, opening, ports, listenerVars, ringing>>

ListPorts ==
  /\ runPC = "list"
  /\ wanted' = plugged
  /\ runPC' = "reconcile"
  /\ UNCHANGED <<envVars, stopping, opening, ports, listenerVars, ringing>>

ListFails ==
  /\ runPC = "list"
  /\ runPC' = "idle"
  /\ UNCHANGED <<envVars, wanted, stopping, opening, ports, listenerVars, ringing>>

\* The selection is read in one critical section and the map is changed in
\* the next; whatever happens between the two might as well come before the
\* first or after the second, so they are one step.
Reconcile ==
  /\ runPC = "reconcile"
  /\ LET want == wanted \cap allow IN
       /\ stopping' = {ports[p] : p \in Ports \ want} \ {Nobody}
       /\ opening' = {p \in want : ports[p] = Nobody}
       /\ ports' = [p \in Ports |-> IF p \in want THEN ports[p] ELSE Nobody]
  /\ wanted' = {}
  /\ runPC' = "apply"
  /\ UNCHANGED <<envVars, listenerVars, ringing>>

StopOne(l) ==
  /\ runPC = "apply"
  /\ l \in stopping
  /\ stopping' = stopping \ {l}
  /\ cancelled' = [cancelled EXCEPT ![l] = TRUE]
  /\ UNCHANGED <<envVars, runPC, wanted, opening, ports, pc, portOf, held, ringing>>

\* A goroutine has no name: the model gives it the first one that is free.
NextListener(l) ==
  /\ pc[l] = "idle"
  /\ \A k \in Listeners : k < l => pc[k] # "idle"

\* open: the entry is made before the goroutine starts.
OpenOne(p, l) ==
  /\ runPC = "apply"
  /\ stopping = {}
  /\ p \in opening
  /\ NextListener(l)
  /\ opening' = opening \ {p}
  /\ ports' = [ports EXCEPT ![p] = l]
  /\ pc' = [pc EXCEPT ![l] = "listening"]
  /\ portOf' = [portOf EXCEPT ![l] = p]
  /\ cancelled' = [cancelled EXCEPT ![l] = FALSE]
  /\ UNCHANGED <<envVars, runPC, wanted, stopping, held, ringing>>

TickDone ==
  /\ runPC = "apply"
  /\ stopping = {} /\ opening = {}
  /\ runPC' = "idle"
  /\ UNCHANGED <<envVars, wanted, stopping, opening, ports, listenerVars, ringing>>

\* closeAll: what is in the map is taken out and waited for.  (Cancelling it
\* adds nothing: its context is derived from Run's.)
CloseAll ==
  /\ runPC = "idle"
  /\ ctxDone
  /\ stopping' = {ports[p] : p \in Ports} \ {Nobody}
  /\ ports' = [p \in Ports |-> Nobody]
  /\ runPC' = "wait"
  /\ UNCHANGED <<envVars, wanted, opening, listenerVars, ringing>>

Return ==
  /\ runPC = "wait"
  /\ \A l \in stopping : pc[l] = "idle"
  /\ runPC' = "returned"
  /\ UNCHANGED <<envVars, wanted, stopping, opening, ports, listenerVars, ringing>>

-----------------------------------------------------------------------------
(* The listener goroutines.                                                *)

NoteOn(l, n) ==
  /\ pc[l] = "listening"
  /\ held' = [held EXCEPT ![l] = @ \cup {n}]
  /\ ringing' = ringing \cup {n}
  /\ UNCHANGED <<envVars, runVars, ports, pc, portOf, cancelled>>

NoteOff(l, n) ==
  /\ pc[l] = "listening"
  /\ held' = [held EXCEPT ![l] = @ \ {n}]
  /\ ringing' = ringing \ {n}
  /\ UNCHANGED <<envVars, runVars, ports, pc, portOf, cancelled>>

ToldToStop(l) == cancelled[l] \/ ctxDone

\* Opener returns: it was told to, could not open the port, or lost it.
ListenEnds(l) ==
  /\ pc[l] = "listening"
  /\ pc' = [pc EXCEPT ![l] = "release"]
  /\ UNCHANGED <<envVars, runVars, ports, portOf, cancelled, held, ringing>>

\* Mutant: only a listener that was told to stop releases its notes.
Release_OnlyIfTold(l) ==
  /\ pc[l] = "release"
  /\ ringing' = IF ToldToStop(l) THEN ringing \ held[l] ELSE ringing
  /\ held' = [held EXCEPT ![l] = {}]
  /\ pc' = [pc EXCEPT ![l] = "forget"]
  /\ UNCHANGED <<envVars, runVars, ports, portOf, cancelled>>

\* A NoteOff for every note the port still holds.
Release(l) ==
  /\ pc[l] = "release"
  /\ ringing' = ringing \ held[l]
  /\ held' = [held EXCEPT ![l] = {}]
  /\ pc' = [pc EXCEPT ![l] = "forget"]
  /\ UNCHANGED <<envVars, runVars, ports, portOf, cancelled>>

\* Mutant: the listener removes the port's entry, whoever's it is.
Forget_Unchecked(l) ==
  /\ pc[l] = "forget"
  /\ ports' = [ports EXCEPT ![portOf[l]] = Nobody]
  /\ pc' = [pc EXCEPT ![l] = "close"]
  /\ UNCHANGED <<envVars, runVars, portOf, cancelled, held, ringing>>

\* Mutant: a listener that ends by itself leaves its entry to the next tick.
Forget_OnlyIfTold(l) ==
  /\ pc[l] = "forget"
  /\ ports' = IF ToldToStop(l) /\ ports[portOf[l]] = l
                THEN [ports EXCEPT ![portOf[l]] = Nobody] ELSE ports
  /\ pc' = [pc EXCEPT ![l] = "close"]
  /\ UNCHANGED <<envVars, runVars, portOf, cancelled, held, ringing>>

\* Mutant: a listener whose entry is gone returns without closing done.
Forget_EarlyReturn(l) ==
  /\ pc[l] = "forget"
  /\ ports[portOf[l]] = l
  /\ ports' = [ports EXCEPT ![portOf[l]] = Nobody]
  /\ pc' = [pc EXCEPT ![l] = "close"]
  /\ UNCHANGED <<envVars, runVars, portOf, cancelled, held, ringing>>

\* The entry goes only if it is still this listener's.
Forget(l) ==
  /\ pc[l] = "forget"
  /\ ports' = IF ports[portOf[l]] = l THEN [ports EXCEPT ![portOf[l]] = Nobody]
                                      ELSE ports
  /\ pc' = [pc EXCEPT ![l] = "close"]
  /\ UNCHANGED <<envVars, runVars, portOf, cancelled, held, ringing>>

\* done is closed, and the goroutine is gone.
Close(l) ==
  /\ pc[l] = "close"
  /\ pc' = [pc EXCEPT ![l] = "idle"]
  /\ portOf' = [portOf EXCEPT ![l] = NoPort]
  /\ cancelled' = [cancelled EXCEPT ![l] = FALSE]
  /\ UNCHANGED <<envVars, runVars, ports, held, ringing>>

WindDown(l) == Release(l) \/ Forget(l) \/ Close(l)

RunStep ==
  \/ TickStart \/ ListPorts \/ ListFails \/ Reconcile
  \/ \E l \in Listeners : StopOne(l)
  \/ \E p \in Ports, l \in Listeners : OpenOne(p, l)
  \/ TickDone \/ CloseAll \/ Return

Next ==
  \/ \E now \in SUBSET Ports : Hotplug(now)
  \/ \E names \in SUBSET Ports : SetAllow(names)
  \/ Shutdown
  \/ RunStep
  \/ \E l \in Listeners, n \in Notes : NoteOn(l, n) \/ NoteOff(l, n)
  \/ \E l \in Listeners : ListenEnds(l) \/ WindDown(l)

Spec == Init /\ [][Next]_vars

\* What a listener is bound to do.
Quit(l) == (ToldToStop(l) /\ ListenEnds(l)) \/ WindDown(l)

\* Run keeps polling, and its select, which picks among the ready cases at
\* random, does not overlook a done context for ever.  A listener told to
\* stop does, and one that has stopped winds down.  No port need ever die.
Fairness ==
  /\ WF_vars(RunStep)
  /\ SF_vars(CloseAll)
  /\ \A l \in Listeners : WF_vars(Quit(l))

FairSpec == Spec /\ Fairness

-----------------------------------------------------------------------------
(* Properties.                                                             *)

(***************************************************************************)
(* No stuck notes: whatever sounds is held by some listener that still has *)
(* to release it, however its port goes away.                              *)
(***************************************************************************)
NoStuckNotes == \A n \in ringing : \E l \in Listeners : n \in held[l]

(***************************************************************************)
(* The map and the listeners agree: an entry is never that of a listener   *)
(* that has left, which would keep its port closed for good, and a         *)
(* listener that nobody told to stop is in the map, where the next change  *)
(* of the selection finds it.                                              *)
(***************************************************************************)
NoOrphans ==
  /\ \A p \in Ports : ports[p] # Nobody => pc[ports[p]] \in {"listening", "release", "forget"}
  /\ \A l \in Listeners :
       pc[l] = "listening" => ToldToStop(l) \/ l \in stopping \/ ports[portOf[l]] = l

\* Somebody listens to port p.
Heard(p) == \E l \in Listeners : pc[l] = "listening" /\ portOf[l] = p

(***************************************************************************)
(* A keyboard that stays plugged in and selected is heard, again and again *)
(* if its port keeps dying, as long as the port list can be read.          *)
(***************************************************************************)
SelectedPortsHeard ==
  \A p \in Ports :
    <>[](p \in plugged \cap allow /\ ~ctxDone) /\ []<><<ListPorts>>_vars => []<>Heard(p)

(***************************************************************************)
(* Run returns once its context is done: each listener it waits for comes  *)
(* to its end, although the map it looks itself up in has been emptied.    *)
(***************************************************************************)
RunReturns == ctxDone ~> runPC = "returned"

=============================================================================
