--------------------------- MODULE BackendSwapProofs ---------------------------
(***************************************************************************)
(* The safety of the engine's hot swap, for any number of loads and any  *)
(* capacity of its queues: a backend has one owner, only a current backend *)
(* is picked, and the engine implements the promise of LoadOutcome.      *)
(***************************************************************************)
EXTENDS BackendSwap, TLAPS

USE BackendAssumption DEF BackendAssumption

-----------------------------------------------------------------------------
(* Queues.                                                               *)

(* Popping a queue gives its first element and shifts the others.        *)
LEMMA PopShifts ==
  ASSUME NEW S, NEW q \in Seq(S), q # <<>>
  PROVE  /\ Len(q) \in Nat \ {0}
         /\ Head(q) = q[1]
         /\ Head(q) \in S
         /\ Tail(q) \in Seq(S)
         /\ Len(Tail(q)) = Len(q) - 1
         /\ \A i \in 1 .. Len(Tail(q)) : Tail(q)[i] = q[i + 1]
  OBVIOUS

(* Pushing on a queue keeps its elements and adds one at the end.        *)
LEMMA PushExtends ==
  ASSUME NEW S, NEW q \in Seq(S), NEW x \in S
  PROVE  /\ Append(q, x) \in Seq(S)
         /\ Len(q) \in Nat
         /\ Len(Append(q, x)) = Len(q) + 1
         /\ \A i \in 1 .. Len(q) : Append(q, x)[i] = q[i]
         /\ Append(q, x)[Len(q) + 1] = x
  OBVIOUS

(* push_backend_event never overfills the event queue.                   *)
LEMMA WithEventFits ==
  ASSUME NEW q \in Seq(Events), Len(q) <= EventCap, NEW g \in Gens,
         NEW k \in EventKinds
  PROVE  /\ WithEvent(q, g, k) \in Seq(Events)
         /\ Len(WithEvent(q, g, k)) <= EventCap
<1> DEFINE e == [gen |-> g, kind |-> k]
           r == IF Len(q) < EventCap THEN q ELSE Tail(q)
<1>1. e \in Events
  BY DEF Events
<1>2. r \in Seq(Events) /\ Len(r) < EventCap
  <2>1. CASE Len(q) < EventCap
    BY <2>1
  <2>2. CASE ~(Len(q) < EventCap)
    <3>1. q # <<>>
      BY <2>2
    <3> QED
      BY <2>2, <3>1, PopShifts
  <2> QED
    BY <2>1, <2>2
<1>3. WithEvent(q, g, k) = Append(r, e)
  BY DEF WithEvent
<1> HIDE DEF e, r
<1> QED
  BY <1>1, <1>2, <1>3, PushExtends

-----------------------------------------------------------------------------
(* Types.                                                                *)

(* The engine after its boot sequence.                                   *)
LEMMA TypeInit == EngineInit => EngineTypeOK
<1> SUFFICES ASSUME EngineInit PROVE EngineTypeOK
  OBVIOUS
<1>1. queue \in Seq(LoadGens) /\ Len(queue) = 0 /\ events \in Seq(Events) /\ Len(events) = 0
  BY DEF EngineInit
<1>2. /\ loader \in [LoadGens -> LoaderPCs]
      /\ latestSeen \in [LoadGens -> Gens]
      /\ popped \in [LoadGens -> Gens]
  BY DEF EngineInit, LoaderPCs, Gens, None
<1> QED
  BY <1>1, <1>2 DEF EngineInit, EngineTypeOK, Gens, None

(* A loader that is putting a newer backend back has that backend, and no*)
(* other loader has one.                                                 *)
PutBackHolds ==
  \A g \in LoadGens : IF loader[g] = "putback" THEN popped[g] # None ELSE popped[g] = None

(* No loader, and no callback, takes a queue or a cursor out of its set. *)
LEMMA TypeStep == EngineTypeOK /\ PutBackHolds /\ [EngineNext]_engineVars => EngineTypeOK'
<1> SUFFICES ASSUME EngineTypeOK, PutBackHolds, [EngineNext]_engineVars PROVE EngineTypeOK'
  OBVIOUS
<1>Q. queue # <<>> => /\ Head(queue) \in LoadGens
                      /\ Tail(queue) \in Seq(LoadGens)
                      /\ Len(Tail(queue)) <= ReloadCap
  BY PopShifts DEF EngineTypeOK
<1>P. ASSUME NEW g \in LoadGens, HasRoom(queue)
      PROVE  Append(queue, g) \in Seq(LoadGens) /\ Len(Append(queue, g)) <= ReloadCap
  BY <1>P, PushExtends DEF EngineTypeOK, HasRoom
<1>E. ASSUME NEW g \in Gens, NEW k \in EventKinds, Report(g, k)
      PROVE  events' \in Seq(Events) /\ Len(events') <= EventCap
  BY <1>E, WithEventFits DEF EngineTypeOK, Report
<1>G. LoadGens \subseteq Gens /\ 0 \in Gens /\ 0 \notin LoadGens /\ Gens = LoadGens \cup {0}
  BY DEF LoadGens, Gens
<1>K. "active" \in EventKinds /\ "failed" \in EventKinds /\ "stale" \in EventKinds
  BY DEF EventKinds
<1> USE <1>G DEF EngineTypeOK, LoaderPCs, None
<1>1. CASE RequestLoad
  BY <1>1 DEF RequestLoad, Gens, LoadGens
<1>2. ASSUME NEW g \in LoadGens, LoaderFail(g) PROVE EngineTypeOK'
  BY <1>2, <1>E, <1>K DEF LoaderFail
<1>3. ASSUME NEW g \in LoadGens, LoaderBuild(g) PROVE EngineTypeOK'
  BY <1>3 DEF LoaderBuild
<1>4. ASSUME NEW g \in LoadGens, LoaderRefused(g) PROVE EngineTypeOK'
  BY <1>4 DEF LoaderRefused
<1>5. ASSUME NEW g \in LoadGens, LoaderPush(g) PROVE EngineTypeOK'
  BY <1>5, <1>P DEF LoaderPush
<1>6. ASSUME NEW g \in LoadGens, LoaderReadLatest(g) PROVE EngineTypeOK'
  BY <1>6 DEF LoaderReadLatest
<1>7. ASSUME NEW g \in LoadGens, LoaderCoalesce(g) PROVE EngineTypeOK'
  BY <1>7, <1>Q DEF LoaderCoalesce
<1>8. ASSUME NEW g \in LoadGens, LoaderYield(g) PROVE EngineTypeOK'
  BY <1>8, <1>Q DEF LoaderYield
<1>9. ASSUME NEW g \in LoadGens, LoaderQueueEmptied(g) PROVE EngineTypeOK'
  BY <1>9 DEF LoaderQueueEmptied
<1>10. ASSUME NEW g \in LoadGens, LoaderFinalPush(g) PROVE EngineTypeOK'
  BY <1>10, <1>P DEF LoaderFinalPush
<1>11. CASE SwapBegin
  BY <1>11 DEF SwapBegin
<1>12. CASE SwapPick
  BY <1>12, <1>Q DEF SwapPick
<1>13. CASE SwapDiscard
  BY <1>13, <1>Q, <1>E, <1>K DEF SwapDiscard
<1>14. CASE SwapNothing
  BY <1>14 DEF SwapNothing
<1>15. CASE SwapInstall
  BY <1>15, <1>E, <1>K DEF SwapInstall
<1>16. CASE TakeEvent
  BY <1>16, PopShifts DEF TakeEvent
<1>17. CASE UNCHANGED engineVars
  BY <1>17 DEF engineVars
<1>18. ASSUME NEW g \in LoadGens, LoaderPutBack(g) PROVE EngineTypeOK'
  <2>1. popped[g] \in LoadGens
    BY <1>18 DEF LoaderPutBack, PutBackHolds
  <2> QED
    BY <1>18, <2>1, <1>P DEF LoaderPutBack
<1> QED
  BY <1>1, <1>2, <1>3, <1>4, <1>5, <1>6, <1>7, <1>8, <1>9, <1>10, <1>11, <1>12, <1>13,
     <1>14, <1>15, <1>16, <1>17, <1>18
     DEF EngineNext, Loader, LoaderStep, Callback

-----------------------------------------------------------------------------
(* One owner.                                                            *)

Distinct(q) == \A i, j \in 1 .. Len(q) : q[i] = q[j] => i = j
In(q, x) == \E i \in 1 .. Len(q) : q[i] = x

(* Popping a queue without duplicates takes its head out, and only it.   *)
LEMMA PopTakesHead ==
  ASSUME NEW q \in Seq(LoadGens), q # <<>>, Distinct(q)
  PROVE  /\ In(q, Head(q))
         /\ Distinct(Tail(q))
         /\ \A x : In(Tail(q), x) <=> In(q, x) /\ x # Head(q)
<1> DEFINE t == Tail(q)
<1>1. /\ Len(q) \in Nat \ {0} /\ Head(q) = q[1] /\ Len(t) = Len(q) - 1
      /\ \A i \in 1 .. Len(t) : t[i] = q[i + 1]
  BY PopShifts
<1> HIDE DEF t
<1>2. In(q, Head(q))
  BY <1>1 DEF In
<1>3. Distinct(t)
  BY <1>1 DEF Distinct
<1>4. ASSUME NEW x, In(t, x) PROVE In(q, x) /\ x # Head(q)
  <2>1. PICK i \in 1 .. Len(t) : t[i] = x
    BY <1>4 DEF In
  <2>2. i + 1 \in 1 .. Len(q) /\ q[i + 1] = x /\ i + 1 # 1 /\ 1 \in 1 .. Len(q)
    BY <1>1, <2>1
  <2> QED
    BY <2>2, <1>1 DEF Distinct, In
<1>5. ASSUME NEW x, In(q, x), x # Head(q) PROVE In(t, x)
  <2>1. PICK i \in 1 .. Len(q) : q[i] = x
    BY <1>5 DEF In
  <2>2. i - 1 \in 1 .. Len(t) /\ t[i - 1] = q[(i - 1) + 1] /\ (i - 1) + 1 = i
    BY <1>1, <1>5, <2>1
  <2> QED
    BY <2>1, <2>2 DEF In
<1> QED
  BY <1>2, <1>3, <1>4, <1>5 DEF t

(* Pushing what is not in a queue adds it, and only it.                  *)
LEMMA PushAddsOne ==
  ASSUME NEW q \in Seq(LoadGens), NEW y \in LoadGens, ~In(q, y), Distinct(q)
  PROVE  /\ Distinct(Append(q, y))
         /\ \A x : In(Append(q, y), x) <=> In(q, x) \/ x = y
<1> DEFINE a == Append(q, y)
<1>1. /\ Len(q) \in Nat /\ Len(a) = Len(q) + 1 /\ a[Len(q) + 1] = y
      /\ \A i \in 1 .. Len(q) : a[i] = q[i]
  BY PushExtends
<1> HIDE DEF a
<1>2. \A i \in 1 .. Len(a) : i \in 1 .. Len(q) \/ i = Len(q) + 1
  BY <1>1
<1>3. Distinct(a)
  BY <1>1, <1>2 DEF Distinct, In
<1>4. ASSUME NEW x PROVE In(a, x) <=> In(q, x) \/ x = y
  <2>1. In(a, x) => In(q, x) \/ x = y
    BY <1>1, <1>2 DEF In
  <2>2. In(q, x) => In(a, x)
    BY <1>1 DEF In
  <2>3. x = y => In(a, x)
    BY <1>1 DEF In
  <2> QED
    BY <2>1, <2>2, <2>3
<1> QED
  BY <1>3, <1>4 DEF a

(* Where the backend of each load is, in terms of In and Distinct.       *)
Owned ==
  /\ Distinct(queue)
  /\ \A h, k \in LoadGens : popped[h] # None /\ popped[h] = popped[k] => h = k
  /\ \A g \in LoadGens : InLoader(g) =>
       ~In(queue, g) /\ (\A h \in LoadGens : popped[h] # g) /\ selected # g /\ installed # g
  /\ \A g \in LoadGens : In(queue, g) =>
       (\A h \in LoadGens : popped[h] # g) /\ selected # g /\ installed # g
  /\ \A h \in LoadGens : popped[h] # None => popped[h] \notin {selected, installed}
  /\ selected # None => installed # selected

(* Owned says the same as OneOwner.                                      *)
LEMMA OwnedIsOneOwner == EngineTypeOK => (Owned <=> OneOwner)
<1> SUFFICES ASSUME EngineTypeOK PROVE Owned <=> OneOwner
  OBVIOUS
<1>1. \A g \in LoadGens : Queued(g) <=> In(queue, g)
  BY DEF Queued, In
<1>2. \A g \in LoadGens : PoppedBy(g) = {} <=> \A h \in LoadGens : popped[h] # g
  BY DEF PoppedBy
<1>3. \A h \in LoadGens : popped[h] # None => popped[h] \in LoadGens
  BY DEF EngineTypeOK, None, LoadGens, Gens
<1>4. \A g \in LoadGens : g # None
  BY DEF None, LoadGens
<1>5. selected \in LoadGens \cup {None}
  BY DEF EngineTypeOK, None, LoadGens, Gens
<1>6. Owned => OneOwner
  BY <1>1, <1>2, <1>3, <1>4, <1>5 DEF Owned, OneOwner, Distinct
<1>7. OneOwner => Owned
  BY <1>1, <1>2, <1>3, <1>4, <1>5 DEF Owned, OneOwner, Distinct
<1> QED
  BY <1>6, <1>7

(***************************************************************************)
(* What makes OneOwner and PicksAreCurrent inductive: a loader thread    *)
(* exists once its load is requested, and nothing in the engine is of a  *)
(* load not requested yet; the callback holds no backend between drains; *)
(* and only a loader that is putting a backend back holds another's.     *)
(***************************************************************************)
Requested ==
  /\ \A g \in LoadGens : loader[g] = "unborn" <=> generation < g
  /\ \A g \in LoadGens : popped[g] <= generation
  /\ \A x \in LoadGens : In(queue, x) => x <= generation

Current ==
  /\ swapPC = "idle" => selected = None
  /\ installed <= swapGen /\ swapGen <= generation
  /\ selected # None => selected = swapGen /\ installed < selected

IInv == EngineTypeOK /\ PutBackHolds /\ Owned /\ Requested /\ Current

(* Every step of the engine keeps IInv.                                  *)
LEMMA InvStep == IInv /\ [EngineNext]_engineVars => IInv'
<1> SUFFICES ASSUME IInv, [EngineNext]_engineVars PROVE IInv'
  OBVIOUS
<1>0. EngineTypeOK'
  BY TypeStep DEF IInv
<1>P. queue # <<>> => /\ Head(queue) \in LoadGens
                      /\ In(queue, Head(queue))
                      /\ Distinct(Tail(queue))
                      /\ \A x : In(Tail(queue), x) <=> In(queue, x) /\ x # Head(queue)
  BY PopTakesHead, PopShifts DEF IInv, EngineTypeOK, Owned
<1>A. \A y \in LoadGens : ~In(queue, y) => /\ Distinct(Append(queue, y))
                      /\ \A x : In(Append(queue, y), x) <=> In(queue, x) \/ x = y
  BY PushAddsOne DEF IInv, EngineTypeOK, Owned
<1>G. /\ LoadGens \subseteq Gens /\ 0 \notin LoadGens /\ Gens = LoadGens \cup {0}
      /\ \A x \in Gens : x \in Nat
  BY DEF LoadGens, Gens
<1> USE <1>0, <1>G DEF IInv, EngineTypeOK, PutBackHolds, Owned, Requested, Current,
    InLoader, None, LoaderPCs
<1>1. CASE RequestLoad
  <2>1. generation + 1 \in LoadGens /\ generation \in Nat
    BY <1>1 DEF RequestLoad, LoadGens, Gens
  <2>2. loader[generation + 1] = "unborn"
    BY <2>1
  <2>3. /\ ~In(queue, generation + 1)
        /\ selected # generation + 1 /\ installed # generation + 1
        /\ \A h \in LoadGens : popped[h] # generation + 1
    BY <2>1
  <2>4. /\ generation' = generation + 1
        /\ \A g \in LoadGens : loader'[g] = IF g = generation + 1 THEN "loading" ELSE loader[g]
        /\ UNCHANGED <<popped, queue, swapPC, swapGen, selected, installed>>
    BY <1>1, <2>1 DEF RequestLoad
  <2>5. PutBackHolds'
    BY <2>2, <2>4
  <2>6. Owned'
    BY <2>3, <2>4
  <2>7. Requested'
    <3>1. ASSUME NEW g \in LoadGens PROVE (loader'[g] = "unborn") <=> generation' < g
      <4>1. g \in Nat
        OBVIOUS
      <4> QED
        BY <2>1, <2>4, <4>1
    <3>2. ASSUME NEW g \in LoadGens PROVE popped[g] <= generation + 1
      <4>1. popped[g] \in Nat /\ popped[g] <= generation
        OBVIOUS
      <4> QED
        BY <2>1, <4>1
    <3>3. ASSUME NEW x \in LoadGens, In(queue, x) PROVE x <= generation + 1
      <4>1. x \in Nat /\ x <= generation
        BY <3>3
      <4> QED
        BY <2>1, <4>1
    <3> QED
      BY <2>4, <3>1, <3>2, <3>3
  <2>8. Current'
    BY <2>1, <2>4
  <2> QED
    BY <2>5, <2>6, <2>7, <2>8
<1>2. ASSUME NEW g \in LoadGens, LoaderFail(g) PROVE IInv'
  BY <1>2 DEF LoaderFail
<1>3. ASSUME NEW g \in LoadGens, LoaderBuild(g) PROVE IInv'
  BY <1>3 DEF LoaderBuild
<1>4. ASSUME NEW g \in LoadGens, LoaderRefused(g) PROVE IInv'
  BY <1>4 DEF LoaderRefused
<1>5. ASSUME NEW g \in LoadGens, LoaderPush(g) PROVE IInv'
  <2>1. CASE HasRoom(queue)
    <3>1. ~In(queue, g) /\ queue' = Append(queue, g)
      BY <1>5, <2>1 DEF LoaderPush
    <3>2. Distinct(queue') /\ \A x : In(queue', x) <=> In(queue, x) \/ x = g
      BY <3>1, <1>A
    <3> QED
      BY <1>5, <2>1, <3>1, <3>2 DEF LoaderPush
  <2>2. CASE ~HasRoom(queue)
    BY <1>5, <2>2 DEF LoaderPush
  <2> QED
    BY <2>1, <2>2
<1>6. ASSUME NEW g \in LoadGens, LoaderReadLatest(g) PROVE IInv'
  BY <1>6 DEF LoaderReadLatest
<1>7. ASSUME NEW g \in LoadGens, LoaderCoalesce(g) PROVE IInv'
  BY <1>7, <1>P DEF LoaderCoalesce
<1>8. ASSUME NEW g \in LoadGens, LoaderYield(g) PROVE IInv'
  BY <1>8, <1>P DEF LoaderYield
<1>9. ASSUME NEW g \in LoadGens, LoaderPutBack(g) PROVE IInv'
  <2>1. CASE HasRoom(queue)
    <3>1. popped[g] \in LoadGens /\ ~In(queue, popped[g]) /\ queue' = Append(queue, popped[g])
      BY <1>9, <2>1 DEF LoaderPutBack
    <3>2. Distinct(queue') /\ \A x : In(queue', x) <=> In(queue, x) \/ x = popped[g]
      BY <3>1, <1>A
    <3> QED
      BY <1>9, <3>1, <3>2 DEF LoaderPutBack
  <2>2. CASE ~HasRoom(queue)
    BY <1>9, <2>2 DEF LoaderPutBack
  <2> QED
    BY <2>1, <2>2
<1>10. ASSUME NEW g \in LoadGens, LoaderQueueEmptied(g) PROVE IInv'
  BY <1>10 DEF LoaderQueueEmptied
<1>11. ASSUME NEW g \in LoadGens, LoaderFinalPush(g) PROVE IInv'
  <2>1. CASE HasRoom(queue)
    <3>1. ~In(queue, g) /\ queue' = Append(queue, g)
      BY <1>11, <2>1 DEF LoaderFinalPush
    <3>2. Distinct(queue') /\ \A x : In(queue', x) <=> In(queue, x) \/ x = g
      BY <3>1, <1>A
    <3> QED
      BY <1>11, <3>1, <3>2 DEF LoaderFinalPush
  <2>2. CASE ~HasRoom(queue)
    BY <1>11, <2>2 DEF LoaderFinalPush
  <2> QED
    BY <2>1, <2>2
<1>12. CASE SwapBegin
  BY <1>12 DEF SwapBegin
<1>13. CASE SwapPick
  BY <1>13, <1>P DEF SwapPick
<1>14. CASE SwapDiscard
  BY <1>14, <1>P DEF SwapDiscard
<1>15. CASE SwapNothing
  BY <1>15 DEF SwapNothing
<1>16. CASE SwapInstall
  BY <1>16 DEF SwapInstall
<1>17. CASE TakeEvent
  BY <1>17 DEF TakeEvent
<1>18. CASE UNCHANGED engineVars
  BY <1>18 DEF engineVars
<1> QED
  BY <1>1, <1>2, <1>3, <1>4, <1>5, <1>6, <1>7, <1>8, <1>9, <1>10, <1>11, <1>12, <1>13,
     <1>14, <1>15, <1>16, <1>17, <1>18
     DEF EngineNext, Loader, LoaderStep, Callback

(* The boot sequence leaves IInv.                                        *)
LEMMA InvInit == EngineInit => IInv
<1> SUFFICES ASSUME EngineInit PROVE IInv
  OBVIOUS
<1>1. EngineTypeOK
  BY TypeInit
<1>2. \A x : ~In(queue, x)
  BY DEF EngineInit, In
<1>3. Distinct(queue)
  BY DEF EngineInit, Distinct
<1>4. /\ generation = 0 /\ swapPC = "idle" /\ swapGen = 0 /\ selected = 0 /\ installed = 0
      /\ \A g \in LoadGens : loader[g] = "unborn" /\ popped[g] = 0 /\ g \in Nat /\ 0 < g
  BY DEF EngineInit, LoadGens, None
<1> QED
  BY <1>1, <1>2, <1>3, <1>4 DEF IInv, PutBackHolds, Owned, Requested, Current, InLoader, None

(* The invariant that carries the others.                                *)
LEMMA Invariance == EngineSpec => []IInv
  BY InvInit, InvStep, PTL DEF EngineSpec

(***************************************************************************)
(* The queues keep to their capacities, and every cursor to its set: the *)
(* loaders' pushes, the put-back included, and the audio callback.       *)
(***************************************************************************)
THEOREM TypeCorrect == EngineSpec => []EngineTypeOK
<1>1. IInv => EngineTypeOK
  BY DEF IInv
<1> QED
  BY <1>1, Invariance, PTL

(***************************************************************************)
(* However loaders coalesce a full queue while the callback drains it, no*)
(* backend is ever in two hands.                                         *)
(***************************************************************************)
THEOREM BackendsHaveOneOwner == EngineSpec => []OneOwner
<1>1. IInv => OneOwner
  BY OwnedIsOneOwner DEF IInv
<1> QED
  BY <1>1, Invariance, PTL

(***************************************************************************)
(* swap_pending_backend picks only the backend of the generation it read,*)
(* and that one is newer than the backend that sounds.                   *)
(***************************************************************************)
THEOREM OnlyCurrentPicked == EngineSpec => []PicksAreCurrent
<1>1. IInv => PicksAreCurrent
  <2> SUFFICES ASSUME IInv PROVE PicksAreCurrent
    OBVIOUS
  <2>1. ASSUME NEW i \in 1 .. Len(queue) PROVE queue[i] <= generation
    <3>1. queue[i] \in LoadGens /\ In(queue, queue[i])
      BY DEF IInv, EngineTypeOK, In
    <3> QED
      BY <3>1 DEF IInv, Requested
  <2> QED
    BY <2>1 DEF IInv, Current, PicksAreCurrent
<1> QED
  BY <1>1, Invariance, PTL

-----------------------------------------------------------------------------
(* The promise.                                                          *)

(* InFlight, in terms of In.                                             *)
Pending(x) ==
  InLoader(x) \/ In(queue, x) \/ (\E h \in LoadGens : popped[h] = x) \/ selected = x

(* A load is in flight when it is pending, before a step and after it.   *)
LEMMA PendingInFlight == \A x : (InFlight(x) <=> Pending(x)) /\ (InFlight(x) <=> Pending(x))'
  BY DEF InFlight, Pending, Queued, In, PoppedBy

(* A step after which the same loads are pending keeps every outcome.    *)
LEMMA Keeps ==
  ASSUME generation' = generation, installed' = installed,
         \A x \in LoadGens : Pending(x)' <=> Pending(x)
  PROVE  UNCHANGED <<generation, [g \in Gens |-> Outcome(g)]>>
<1>1. ASSUME NEW x \in Gens PROVE Outcome(x)' = Outcome(x)
  <2>1. x > 0 => x \in LoadGens
    BY DEF Gens, LoadGens
  <2> QED
    BY <2>1, PendingInFlight DEF Outcome
<1> QED
  BY <1>1

(* A step after which one load is not pending any more drops that load.  *)
LEMMA Settles ==
  ASSUME EngineTypeOK,
         generation' = generation, installed' = installed, NEW h \in LoadGens,
         h <= generation, h # installed, Pending(h), ~Pending(h)',
         \A x \in LoadGens \ {h} : Pending(x)' <=> Pending(x)
  PROVE  Promise!OutcomeNext
<1> DEFINE out == [g \in Gens |-> Outcome(g)]
<1>0. h \in Gens /\ h > 0 /\ ~(h > generation)
  BY DEF LoadGens, Gens, EngineTypeOK
<1>1. out[h] = "pending"
  BY <1>0, PendingInFlight DEF Outcome
<1>2. ASSUME NEW x \in Gens PROVE Outcome(x)' = IF x = h THEN "gone" ELSE Outcome(x)
  <2>1. x > 0 => x \in LoadGens
    BY DEF Gens, LoadGens
  <2>2. CASE x = h
    BY <2>2, <1>0, PendingInFlight DEF Outcome
  <2>3. CASE x # h
    BY <2>1, <2>3, PendingInFlight DEF Outcome
  <2> QED
    BY <2>2, <2>3
<1>3. [g \in Gens |-> Outcome(g)]' = [out EXCEPT ![h] = "gone"]
  BY <1>2
<1>4. Promise!Drop(h)
  BY <1>1, <1>3 DEF Promise!Drop
<1> QED
  BY <1>0, <1>4 DEF Promise!OutcomeNext, Promise!Gens, Gens

(* A load request makes one more load pending.                           *)
LEMMA RequestRequests == IInv /\ RequestLoad => Promise!Request
<1> SUFFICES ASSUME IInv, RequestLoad PROVE Promise!Request
  OBVIOUS
<1> DEFINE out == [g \in Gens |-> Outcome(g)]
<1>0. PICK n \in LoadGens : n = generation + 1
  BY DEF RequestLoad, LoadGens, Gens, IInv, EngineTypeOK
<1>1. /\ n \in Gens /\ n \in Nat /\ n > 0 /\ generation \in Nat /\ generation < MaxGen
      /\ generation' = n /\ installed' = installed /\ n > generation
  BY <1>0 DEF RequestLoad, LoadGens, Gens, IInv, EngineTypeOK
<1>2. /\ \A g \in LoadGens : loader'[g] = IF g = n THEN "loading" ELSE loader[g]
      /\ UNCHANGED <<popped, queue, selected>>
  BY <1>0 DEF RequestLoad, IInv, EngineTypeOK
<1>3. Pending(n)' /\ installed # n
  <2>1. installed # n
    BY <1>1 DEF IInv, Current, EngineTypeOK, Gens
  <2> QED
    BY <1>1, <1>2, <2>1 DEF Pending, InLoader
<1>4. ASSUME NEW x \in Gens PROVE Outcome(x)' = IF x = n THEN "pending" ELSE Outcome(x)
  <2>1. x > 0 => x \in LoadGens
    BY DEF Gens, LoadGens
  <2>2. CASE x = n
    <3>1. ~(n > generation') /\ n # installed' /\ InFlight(n)'
      BY <1>1, <1>3, PendingInFlight
    <3> QED
      BY <2>2, <3>1, <1>1 DEF Outcome
  <2>3. CASE x # n
    <3>1. x > generation <=> x > n
      BY <2>3, <1>0, <1>1 DEF Gens
    <3>2. x > 0 => (Pending(x)' <=> Pending(x))
      BY <1>2, <2>1, <2>3 DEF Pending, InLoader
    <3> QED
      BY <2>3, <1>1, <3>1, <3>2, PendingInFlight DEF Outcome
  <2> QED
    BY <2>2, <2>3
<1>5. [g \in Gens |-> Outcome(g)]' = [out EXCEPT ![n] = "pending"]
  BY <1>4
<1> QED
  BY <1>0, <1>1, <1>5 DEF Promise!Request

(* The install replaces the sounding load by a later one.                *)
LEMMA InstallReplaces == IInv /\ SwapInstall => Promise!OutcomeNext
<1> SUFFICES ASSUME IInv, SwapInstall PROVE Promise!OutcomeNext
  OBVIOUS
<1> DEFINE out == [g \in Gens |-> Outcome(g)]
<1>0. PICK old \in Gens, new \in Gens : old = installed /\ new = selected
  BY DEF IInv, EngineTypeOK
<1>1. /\ new \in LoadGens /\ new > 0 /\ ~(new > generation) /\ ~(old > generation)
      /\ old < new /\ old # new
      /\ installed = old /\ selected = new /\ installed' = new /\ selected' = None
      /\ UNCHANGED <<generation, loader, popped, queue>>
  BY <1>0 DEF SwapInstall, IInv, EngineTypeOK, Current, LoadGens, Gens, None
<1>2. out[old] = "sounding" /\ out[new] = "pending"
  BY <1>1, PendingInFlight DEF Outcome, Pending
<1>3. old > 0 => ~Pending(old)'
  <2> SUFFICES ASSUME old > 0 PROVE ~Pending(old)'
    OBVIOUS
  <2>1. old \in LoadGens /\ old # None
    BY <1>1 DEF LoadGens, Gens, None
  <2>2. /\ ~InLoader(old) /\ ~In(queue, old)
        /\ \A h \in LoadGens : popped[h] # old
    BY <1>1, <2>1 DEF IInv, Owned
  <2> QED
    BY <1>1, <2>1, <2>2 DEF Pending, InLoader
<1>4. ASSUME NEW x \in Gens
      PROVE  Outcome(x)' = IF x = new THEN "sounding"
                           ELSE IF x = old THEN "gone" ELSE Outcome(x)
  <2>1. CASE x = new
    BY <2>1, <1>1 DEF Outcome
  <2>2. CASE x = old
    BY <2>2, <1>1, <1>3, PendingInFlight DEF Outcome
  <2>3. CASE x # new /\ x # old
    <3>1. x > 0 => x \in LoadGens /\ x # None
      BY DEF Gens, LoadGens, None
    <3>2. x > 0 => (Pending(x)' <=> Pending(x))
      BY <1>1, <2>3, <3>1 DEF Pending, InLoader
    <3> QED
      BY <1>1, <2>3, <3>2, PendingInFlight DEF Outcome
  <2> QED
    BY <2>1, <2>2, <2>3
<1>5. [g \in Gens |-> Outcome(g)]' = [out EXCEPT ![old] = "gone", ![new] = "sounding"]
  BY <1>1, <1>4
<1>6. Promise!Replace(old, new)
  BY <1>1, <1>2, <1>5 DEF Promise!Replace
<1> QED
  BY <1>1, <1>6 DEF Promise!OutcomeNext, Promise!Gens, Gens

(* Every step of the engine is one of the promise's steps, or none.      *)
LEMMA StepKeepsPromise ==
  IInv /\ [EngineNext]_engineVars =>
    [Promise!OutcomeNext]_<<generation, [g \in Gens |-> Outcome(g)]>>
<1> DEFINE Kept == UNCHANGED <<generation, [g \in Gens |-> Outcome(g)]>>
           Promised == Promise!OutcomeNext \/ Kept
<1> SUFFICES ASSUME IInv, [EngineNext]_engineVars PROVE Promised
  OBVIOUS
<1>T. EngineTypeOK
  BY DEF IInv
<1>H. queue # <<>> => /\ Head(queue) \in LoadGens
                      /\ In(queue, Head(queue))
                      /\ \A x : In(Tail(queue), x) <=> In(queue, x) /\ x # Head(queue)
  BY PopTakesHead, PopShifts DEF IInv, EngineTypeOK, Owned
<1>A. ASSUME NEW y \in LoadGens, ~In(queue, y), NEW x
      PROVE  In(Append(queue, y), x) <=> In(queue, x) \/ x = y
  BY PushAddsOne, <1>A DEF IInv, EngineTypeOK, Owned
<1>N. None \notin LoadGens
  BY DEF LoadGens, None
<1>R. \A x \in LoadGens : Pending(x) => x <= generation /\ x # installed
  <2> SUFFICES ASSUME NEW x \in LoadGens, Pending(x) PROVE x <= generation /\ x # installed
    OBVIOUS
  <2>1. x \in Nat /\ generation \in Nat /\ x # None
    BY DEF LoadGens, IInv, EngineTypeOK, Gens, None
  <2>2. CASE InLoader(x)
    BY <2>1, <2>2 DEF IInv, Owned, Requested, InLoader
  <2>3. CASE In(queue, x)
    BY <2>3 DEF IInv, Owned, Requested
  <2>4. ASSUME NEW h \in LoadGens, popped[h] = x PROVE x <= generation /\ x # installed
    BY <2>1, <2>4 DEF IInv, Owned, Requested
  <2>5. CASE selected = x
    BY <2>1, <2>5 DEF IInv, Owned, Current
  <2> QED
    BY <2>2, <2>3, <2>4, <2>5 DEF Pending
<1>S. ASSUME generation' = generation, installed' = installed, NEW h \in LoadGens,
             Pending(h), ~Pending(h)',
             \A x \in LoadGens \ {h} : Pending(x)' <=> Pending(x)
      PROVE  Promised
  BY <1>S, <1>T, <1>R, Settles
<1>K. ASSUME generation' = generation, installed' = installed,
             \A x \in LoadGens : Pending(x)' <=> Pending(x)
      PROVE  Promised
  BY <1>K, Keeps
<1> HIDE DEF Promised
<1> USE DEF Pending, InLoader
<1>1. CASE RequestLoad
  BY <1>1, RequestRequests DEF Promise!OutcomeNext, Promised
<1>2. ASSUME NEW g \in LoadGens, LoaderFail(g) \/ LoaderRefused(g) PROVE Promised
  <2>1. /\ Pending(g) /\ ~Pending(g)'
        /\ \A x \in LoadGens \ {g} : Pending(x)' <=> Pending(x)
    BY <1>2 DEF LoaderFail, LoaderRefused, IInv, EngineTypeOK, Owned
  <2> QED
    BY <1>2, <2>1, <1>S DEF LoaderFail, LoaderRefused
<1>3. ASSUME NEW g \in LoadGens, LoaderBuild(g) \/ LoaderReadLatest(g) \/ LoaderQueueEmptied(g)
      PROVE  Promised
  <2>1. \A x \in LoadGens : Pending(x)' <=> Pending(x)
    BY <1>3 DEF LoaderBuild, LoaderReadLatest, LoaderQueueEmptied, IInv, EngineTypeOK
  <2> QED
    BY <1>3, <2>1, <1>K DEF LoaderBuild, LoaderReadLatest, LoaderQueueEmptied
<1>4. ASSUME NEW g \in LoadGens, LoaderPush(g) PROVE Promised
  <2>0. ~In(queue, g)
    BY <1>4 DEF LoaderPush, IInv, Owned
  <2>1. \A x \in LoadGens : Pending(x)' <=> Pending(x)
    <3>1. CASE HasRoom(queue)
      <4>1. /\ queue' = Append(queue, g)
            /\ \A x \in LoadGens : loader'[x] = IF x = g THEN "done" ELSE loader[x]
            /\ popped' = popped /\ selected' = selected /\ loader[g] = "push"
        BY <1>4, <3>1 DEF LoaderPush, IInv, EngineTypeOK
      <4>2. \A x : In(queue', x) <=> In(queue, x) \/ x = g
        BY <4>1, <2>0, <1>A
      <4> QED
        BY <4>1, <4>2
    <3>2. CASE ~HasRoom(queue)
      BY <1>4, <3>2 DEF LoaderPush, IInv, EngineTypeOK
    <3> QED
      BY <3>1, <3>2
  <2> QED
    BY <1>4, <2>1, <1>K DEF LoaderPush
<1>5. ASSUME NEW g \in LoadGens, LoaderCoalesce(g) PROVE Promised
  <2>0. PICK h \in LoadGens : h = Head(queue)
    BY <1>5, <1>H DEF LoaderCoalesce
  <2>1. /\ Pending(h) /\ ~Pending(h)'
        /\ \A x \in LoadGens \ {h} : Pending(x)' <=> Pending(x)
    BY <1>5, <1>H, <2>0 DEF LoaderCoalesce, IInv, Owned
  <2> QED
    BY <1>5, <2>1, <1>S DEF LoaderCoalesce
<1>6. ASSUME NEW g \in LoadGens, LoaderYield(g) PROVE Promised
  <2>1. /\ Pending(g) /\ ~Pending(g)'
        /\ \A x \in LoadGens \ {g} : Pending(x)' <=> Pending(x)
    BY <1>6, <1>H, <1>N DEF LoaderYield, IInv, EngineTypeOK, Owned, PutBackHolds
  <2> QED
    BY <1>6, <2>1, <1>S DEF LoaderYield
<1>7. ASSUME NEW g \in LoadGens, LoaderPutBack(g) PROVE Promised
  <2>T. popped[g] \in LoadGens
    BY <1>7 DEF LoaderPutBack, PutBackHolds, IInv, EngineTypeOK, None, Gens, LoadGens
  <2>0. PICK h \in LoadGens : h = popped[g]
    BY <2>T
  <2>3. ~In(queue, h) /\ loader[g] = "putback" /\ h # None
    BY <1>7, <1>N, <2>0 DEF LoaderPutBack, IInv, Owned
  <2>1. CASE HasRoom(queue)
    <3>1. \A x \in LoadGens : Pending(x)' <=> Pending(x)
      BY <1>7, <2>0, <2>3, <2>1, <1>A, <1>N DEF LoaderPutBack, IInv, EngineTypeOK, Owned
    <3> QED
      BY <1>7, <3>1, <1>K DEF LoaderPutBack
  <2>2. CASE ~HasRoom(queue)
    <3>1. /\ Pending(h) /\ ~Pending(h)'
          /\ \A x \in LoadGens \ {h} : Pending(x)' <=> Pending(x)
      BY <1>7, <2>0, <2>3, <2>2, <1>N DEF LoaderPutBack, IInv, EngineTypeOK, Owned
    <3> QED
      BY <1>7, <2>0, <2>3, <3>1, <1>S DEF LoaderPutBack
  <2> QED
    BY <2>1, <2>2
<1>8. ASSUME NEW g \in LoadGens, LoaderFinalPush(g) PROVE Promised
  <2>1. CASE HasRoom(queue)
    <3>1. \A x \in LoadGens : Pending(x)' <=> Pending(x)
      BY <1>8, <2>1, <1>A DEF LoaderFinalPush, IInv, EngineTypeOK, Owned
    <3> QED
      BY <1>8, <3>1, <1>K DEF LoaderFinalPush
  <2>2. CASE ~HasRoom(queue)
    <3>1. /\ Pending(g) /\ ~Pending(g)'
          /\ \A x \in LoadGens \ {g} : Pending(x)' <=> Pending(x)
      BY <1>8, <2>2 DEF LoaderFinalPush, IInv, EngineTypeOK, Owned
    <3> QED
      BY <1>8, <3>1, <1>S DEF LoaderFinalPush
  <2> QED
    BY <2>1, <2>2
<1>9. CASE SwapBegin \/ SwapNothing
  <2>1. \A x \in LoadGens : Pending(x)' <=> Pending(x)
    BY <1>9, <1>N DEF SwapBegin, SwapNothing, IInv, Current
  <2> QED
    BY <1>9, <2>1, <1>K DEF SwapBegin, SwapNothing
<1>10. CASE SwapPick
  <2>1. selected = None
    BY <1>10, <1>H DEF SwapPick, IInv, Owned, Current
  <2>2. \A x \in LoadGens : Pending(x)' <=> Pending(x)
    BY <1>10, <2>1, <1>H, <1>N DEF SwapPick
  <2> QED
    BY <1>10, <2>2, <1>K DEF SwapPick
<1>11. CASE SwapDiscard
  <2>0. PICK h \in LoadGens : h = Head(queue)
    BY <1>11, <1>H DEF SwapDiscard
  <2>1. /\ Pending(h) /\ ~Pending(h)'
        /\ \A x \in LoadGens \ {h} : Pending(x)' <=> Pending(x)
    BY <1>11, <1>H, <2>0 DEF SwapDiscard, IInv, Owned
  <2> QED
    BY <1>11, <2>1, <1>S DEF SwapDiscard
<1>12. CASE SwapInstall
  BY <1>12, InstallReplaces DEF Promised
<1>13. CASE TakeEvent \/ UNCHANGED engineVars
  <2>1. \A x \in LoadGens : Pending(x)' <=> Pending(x)
    BY <1>13 DEF TakeEvent, engineVars
  <2> QED
    BY <1>13, <2>1, <1>K DEF TakeEvent, engineVars
<1> QED
  BY <1>1, <1>2, <1>3, <1>4, <1>5, <1>6, <1>7, <1>8, <1>9, <1>10, <1>11, <1>12, <1>13
     DEF EngineNext, Loader, LoaderStep, Callback

(* The boot backend sounds and nothing is requested yet.                 *)
LEMMA InitKeepsPromise == EngineInit => Promise!OutcomeInit
<1> SUFFICES ASSUME EngineInit PROVE Promise!OutcomeInit
  OBVIOUS
<1>1. ASSUME NEW g \in Gens PROVE Outcome(g) = IF g = 0 THEN "sounding" ELSE "unrequested"
  BY DEF EngineInit, Outcome, Gens
<1> QED
  BY <1>1 DEF EngineInit, Promise!OutcomeInit, Promise!Gens, Gens

(***************************************************************************)
(* The engine implements the promise: a load that failed, went stale or  *)
(* was lost never sounds, and the sounding backend is only ever replaced *)
(* by that of a later request.                                           *)
(***************************************************************************)
THEOREM EngineKeepsPromise == EngineSpec => ImplementsPromise
<1> QED
  BY Invariance, InitKeepsPromise, StepKeepsPromise, PTL
     DEF EngineSpec, ImplementsPromise, Promise!OutcomeSpec

-----------------------------------------------------------------------------
(* Events.                                                               *)

EventHolds(e) ==
  IF e.kind = "active" THEN e.gen <= installed
                       ELSE e.gen \in LoadGens /\ Outcome(e.gen) = "gone"

OnQueue(q) == {q[i] : i \in 1 .. Len(q)}

EventsHold == \A e \in OnQueue(events) : EventHolds(e)

(* What is gone is neither in flight nor installed.                      *)
LEMMA GoneIsNowhere ==
  ASSUME EngineTypeOK, NEW g \in LoadGens, Outcome(g) = "gone"
  PROVE  ~InFlight(g) /\ installed # g
  BY DEF Outcome, LoadGens

(* push_backend_event drops the oldest event or none, and adds one.      *)
LEMMA WithEventAdds ==
  ASSUME NEW q \in Seq(Events), NEW g, NEW k, [gen |-> g, kind |-> k] \in Events
  PROVE  OnQueue(WithEvent(q, g, k)) \subseteq OnQueue(q) \cup {[gen |-> g, kind |-> k]}
<1> DEFINE r == IF Len(q) < EventCap THEN q ELSE Tail(q)
           e == [gen |-> g, kind |-> k]
<1>1. r \in Seq(Events) /\ \A n \in 1 .. Len(r) : \E j \in 1 .. Len(q) : r[n] = q[j]
  <2>1. CASE Len(q) < EventCap
    BY <2>1
  <2>2. CASE ~(Len(q) < EventCap)
    <3>1. q # <<>> /\ r = Tail(q)
      BY <2>2
    <3>2. /\ Len(q) \in Nat /\ r \in Seq(Events) /\ Len(r) = Len(q) - 1
          /\ \A n \in 1 .. Len(r) : r[n] = q[n + 1]
      BY <3>1, PopShifts
    <3>3. \A n \in 1 .. Len(r) : n + 1 \in 1 .. Len(q)
      BY <3>2
    <3> QED
      BY <3>2, <3>3
  <2> QED
    BY <2>1, <2>2
<1>2. WithEvent(q, g, k) = Append(r, e)
  BY DEF WithEvent
<1> HIDE DEF r, e
<1>3. /\ Len(r) \in Nat /\ Len(Append(r, e)) = Len(r) + 1 /\ Append(r, e)[Len(r) + 1] = e
      /\ \A n \in 1 .. Len(r) : Append(r, e)[n] = r[n]
  BY <1>1, PushExtends DEF e
<1>4. \A i \in 1 .. Len(Append(r, e)) : i \in 1 .. Len(r) \/ i = Len(r) + 1
  BY <1>3
<1>5. ASSUME NEW i \in 1 .. Len(Append(r, e)) PROVE Append(r, e)[i] \in OnQueue(q) \cup {e}
  <2>1. CASE i \in 1 .. Len(r)
    <3>1. PICK j \in 1 .. Len(q) : r[i] = q[j]
      BY <2>1, <1>1
    <3>2. Append(r, e)[i] = q[j]
      BY <2>1, <3>1, <1>3
    <3> QED
      BY <3>2 DEF OnQueue
  <2>2. CASE i = Len(r) + 1
    BY <2>2, <1>3
  <2> QED
    BY <2>1, <2>2, <1>4
<1>6. OnQueue(Append(r, e)) \subseteq OnQueue(q) \cup {e}
  BY <1>5 DEF OnQueue
<1> QED
  BY <1>2, <1>6 DEF e

(* What a step leaves true of the events it keeps: the sounding backend  *)
(* gets no older, and what is gone stays gone.                           *)
LEMMA SettledStays ==
  ASSUME IInv, [EngineNext]_engineVars
  PROVE  /\ installed <= installed'
         /\ \A g \in LoadGens : Outcome(g) = "gone" => Outcome(g)' = "gone"
<1>1. installed <= installed'
  <2>1. installed \in Nat /\ selected \in Nat
    BY DEF IInv, EngineTypeOK, Gens
  <2>2. CASE SwapInstall
    BY <2>1, <2>2 DEF SwapInstall, IInv, Current
  <2>3. installed' = installed \/ SwapInstall
    BY DEF EngineNext, RequestLoad, Loader, LoaderFail, LoaderBuild, LoaderStep, LoaderRefused,
       LoaderPush, LoaderReadLatest, LoaderCoalesce, LoaderYield, LoaderPutBack,
       LoaderQueueEmptied, LoaderFinalPush, Callback, SwapBegin, SwapPick, SwapDiscard,
       SwapNothing, TakeEvent, engineVars
  <2> QED
    BY <2>1, <2>2, <2>3
<1>2. ASSUME NEW g \in LoadGens, Outcome(g) = "gone" PROVE Outcome(g)' = "gone"
  <2> DEFINE out == [h \in Gens |-> Outcome(h)]
  <2>0. /\ g \in Gens /\ out[g] = "gone"
        /\ out \in [Gens -> {"unrequested", "pending", "sounding", "gone"}]
    BY <1>2 DEF LoadGens, Gens, Outcome
  <2>1. [Promise!OutcomeNext]_<<generation, out>>
    BY StepKeepsPromise
  <2>2. out'[g] = Outcome(g)'
    BY <2>0
  <2>3. CASE out' = out
    BY <2>0, <2>2, <2>3
  <2>4. generation + 1 # g
    BY <1>2 DEF Outcome, IInv, EngineTypeOK, Gens, LoadGens
  <2> HIDE DEF out
  <2>5. CASE Promise!OutcomeNext
    <3>1. Promise!Request => out'[g] = "gone"
      BY <2>0, <2>4 DEF Promise!Request, out
    <3>2. ASSUME NEW h, Promise!Drop(h) PROVE out'[g] = "gone"
      BY <2>0, <3>2 DEF Promise!Drop, out
    <3>3. ASSUME NEW h, NEW k, Promise!Replace(h, k) PROVE out'[g] = "gone"
      BY <2>0, <3>3 DEF Promise!Replace, out
    <3> QED
      BY <2>2, <2>5, <3>1, <3>2, <3>3 DEF Promise!OutcomeNext
  <2> QED
    BY <2>1, <2>3, <2>5
<1> QED
  BY <1>1, <1>2

(* The events on the queue stay true, and each new one is true.          *)
LEMMA EventsStep ==
  ASSUME IInv, EventsHold, [EngineNext]_engineVars
  PROVE  EventsHold'
<1>T. EngineTypeOK /\ EngineTypeOK' /\ events \in Seq(Events)
  BY InvStep DEF IInv, EngineTypeOK
<1>1. ASSUME NEW e \in Events, EventHolds(e) PROVE EventHolds(e)'
  <2>1. e.gen \in Nat /\ installed \in Nat /\ installed' \in Nat
    BY <1>T DEF Events, EngineTypeOK, Gens
  <2>2. CASE e.kind = "active"
    BY <1>1, <2>1, <2>2, SettledStays DEF EventHolds
  <2>3. CASE e.kind # "active"
    BY <1>1, <2>3, SettledStays DEF EventHolds
  <2> QED
    BY <2>2, <2>3
<1>2. ASSUME NEW e \in OnQueue(events) PROVE EventHolds(e)'
  BY <1>1, <1>2, <1>T DEF EventsHold, OnQueue
<1>3. ASSUME NEW g \in Gens, NEW k \in EventKinds, Report(g, k),
             EventHolds([gen |-> g, kind |-> k])'
      PROVE  EventsHold'
  <2> DEFINE e == [gen |-> g, kind |-> k]
  <2>1. e \in Events
    BY DEF Events
  <2>2. OnQueue(events') \subseteq OnQueue(events) \cup {e}
    BY <1>3, <1>T, <2>1, WithEventAdds DEF Report
  <2> HIDE DEF e
  <2>3. ASSUME NEW d \in OnQueue(events') PROVE EventHolds(d)'
    BY <1>2, <1>3, <2>2, <2>3 DEF e
  <2> QED
    BY <2>3 DEF EventsHold
<1>4. ASSUME OnQueue(events') \subseteq OnQueue(events) PROVE EventsHold'
  BY <1>2, <1>4 DEF EventsHold
<1>5. CASE TakeEvent
  <2>1. events # <<>> /\ events' = Tail(events)
    BY <1>5 DEF TakeEvent
  <2>2. /\ Len(events) \in Nat /\ Len(events') = Len(events) - 1
        /\ \A i \in 1 .. Len(events') : events'[i] = events[i + 1]
    BY <2>1, <1>T, PopShifts
  <2>3. \A i \in 1 .. Len(events') : i + 1 \in 1 .. Len(events)
    BY <2>2
  <2> QED
    BY <1>4, <2>2, <2>3 DEF OnQueue
<1>6. ASSUME NEW g \in LoadGens, ~Pending(g)', installed' # g, g <= generation'
      PROVE  Outcome(g)' = "gone"
  <2>1. g \in Nat /\ generation' \in Nat
    BY <1>T DEF LoadGens, EngineTypeOK, Gens
  <2> QED
    BY <1>6, <2>1, PendingInFlight DEF Outcome
<1>7. ASSUME NEW g \in LoadGens, LoaderFail(g) PROVE EventsHold'
  <2>0. g \in Nat /\ generation \in Nat
    BY <1>T DEF LoadGens, EngineTypeOK, Gens
  <2>1. /\ ~Pending(g)' /\ installed' # g /\ g <= generation'
    BY <1>7, <2>0 DEF LoaderFail, Pending, InLoader, IInv, EngineTypeOK, Owned, Requested
  <2>2. EventHolds([gen |-> g, kind |-> "failed"])'
    BY <1>6, <2>1 DEF EventHolds
  <2>3. g \in Gens /\ "failed" \in EventKinds
    BY DEF Gens, LoadGens, EventKinds
  <2> QED
    BY <1>3, <1>7, <2>2, <2>3 DEF LoaderFail
<1>8. CASE SwapDiscard
  <2>0. PICK h \in LoadGens : h = Head(queue)
    BY <1>8, PopShifts, <1>T DEF SwapDiscard, EngineTypeOK
  <2>1. In(queue, h) /\ ~In(queue', h)
    BY <1>8, <2>0, PopTakesHead DEF SwapDiscard, IInv, EngineTypeOK, Owned
  <2>2. ~Pending(h)' /\ installed' # h /\ h <= generation'
    BY <1>8, <2>1 DEF SwapDiscard, Pending, InLoader, IInv, Owned, Requested
  <2>3. EventHolds([gen |-> h, kind |-> "stale"])'
    BY <1>6, <2>2 DEF EventHolds
  <2>4. h \in Gens /\ "stale" \in EventKinds
    BY DEF Gens, LoadGens, EventKinds
  <2> QED
    BY <1>3, <1>8, <2>0, <2>3, <2>4 DEF SwapDiscard
<1>9. CASE SwapInstall
  <2>0. PICK h \in Gens : h = selected
    BY <1>T DEF EngineTypeOK
  <2>1. EventHolds([gen |-> h, kind |-> "active"])' /\ "active" \in EventKinds
    BY <1>9, <2>0 DEF SwapInstall, EventHolds, Gens, EventKinds
  <2> QED
    BY <1>3, <1>9, <2>0, <2>1 DEF SwapInstall
<1>10. CASE events' = events
  BY <1>4, <1>10
<1> QED
  BY <1>5, <1>7, <1>8, <1>9, <1>10
     DEF EngineNext, RequestLoad, Loader, LoaderBuild, LoaderStep, LoaderRefused,
         LoaderPush, LoaderReadLatest, LoaderCoalesce, LoaderYield, LoaderPutBack,
         LoaderQueueEmptied, LoaderFinalPush, Callback, SwapBegin, SwapPick, SwapNothing,
         engineVars

(***************************************************************************)
(* What the engine reports of a load stays the truth for as long as the  *)
(* event waits for the daemon's poll.                                    *)
(***************************************************************************)
THEOREM EventsStayTrue == EngineSpec => []EventsTruthful
<1>1. EngineInit => IInv /\ EventsHold
  BY InvInit DEF EngineInit, EventsHold, OnQueue
<1>2. IInv /\ EventsHold /\ [EngineNext]_engineVars => IInv' /\ EventsHold'
  BY InvStep, EventsStep
<1>3. IInv /\ EventsHold => EventsTruthful
  BY GoneIsNowhere DEF IInv, EventsHold, EventHolds, EventsTruthful, OnQueue
<1> QED
  BY <1>1, <1>2, <1>3, PTL DEF EngineSpec

=============================================================================
