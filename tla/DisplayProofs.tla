----------------------------- MODULE DisplayProofs -----------------------------
(***************************************************************************)
(* Proofs about Display and the arbiter it shares, for any number of       *)
(* popups, switches and releases of the limiter and any capacity of the    *)
(* follower's subscription: a popup has a timer (PopupHasTimer), the       *)
(* screen is what the arbiter takes it for (ScreenMatchesArbiter), and     *)
(* dropped events lose nothing (FollowerCaughtUp).                         *)
(***************************************************************************)
EXTENDS Display, TLAPS

ArbiterShape ==
    /\ timers = [k \in Popups |-> timers[k]] /\ epochOf = [k \in Popups |-> epochOf[k]]
    /\ popups \in Nat

\* What is about to be written is so: between writes nothing moves the base,
\* and no popup is taken down or replaced without a write.
WritingIsTrue ==
    /\ writing.layer = "patch" => writing.text = base
    /\ writing.layer = "popup" => busy /\ writing.text = popups

ArbiterInv == ArbiterShape /\ PopupHasTimer /\ WritingIsTrue /\ ScreenMatchesArbiter

FollowerShape ==
    /\ unpublished \in Nat /\ pending \in Nat
    /\ want = Text(want.name, want.line) /\ last = Text(last.name, last.line)

\* With no event to come, what the follower has read so far is current, and
\* was read after the last change.
ReadsAreCurrent ==
    unpublished = 0 /\ pending = 0 =>
        /\ followPC = "status" => want.name = version
        /\ followPC \in {"show", "writing"} => want = Text(version, version)

FollowerInv == FollowerShape /\ ReadsAreCurrent /\ FollowerCaughtUp

----------------------------------------------------------------------------
(***************************************************************************)
(* The arbiter's operations.                                               *)
(***************************************************************************)

LEMMA StoppedShape ==
    ASSUME ArbiterShape
    PROVE  Stopped = [k \in Popups |-> Stopped[k]]
<1>1. CASE timer # NoTimer /\ timers[timer] = "armed"
  BY <1>1 DEF ArbiterShape, Stopped
<1>2. CASE ~(timer # NoTimer /\ timers[timer] = "armed")
  BY <1>2 DEF ArbiterShape, Stopped
<1> QED
  BY <1>1, <1>2

LEMMA ArbiterQuiet ==
    ASSUME ArbiterInv, UNCHANGED <<arbiterVars, writeFailed>>
    PROVE  ArbiterInv'
  BY DEF ArbiterInv, ArbiterShape, PopupHasTimer, WritingIsTrue, ScreenMatchesArbiter, ScreenFree,
         arbiterVars

LEMMA ShowPatchKept ==
    ASSUME ArbiterInv, NEW text, ShowPatch(text), UNCHANGED writeFailed
    PROVE  ArbiterInv'
<1>1. /\ busy' = FALSE /\ base' = text /\ writing' = Line("patch", text) /\ timers' = Stopped
      /\ UNCHANGED <<popups, epochOf>>
  BY DEF ShowPatch
<1>2. ArbiterShape'
  BY <1>1, StoppedShape DEF ArbiterInv, ArbiterShape
<1>3. writing'.layer = "patch" /\ writing'.text = base'
  BY <1>1 DEF Line
<1>4. WritingIsTrue'
  BY <1>3 DEF WritingIsTrue
<1>5. ~ScreenFree'
  BY <1>3 DEF ScreenFree, Nothing
<1> QED
  BY <1>1, <1>2, <1>4, <1>5 DEF ArbiterInv, PopupHasTimer, ScreenMatchesArbiter

\* The popup's own timer is armed, of the epoch it is shown in.
LEMMA ShowPopupKept ==
    ASSUME ArbiterInv, ShowPopup, UNCHANGED writeFailed
    PROVE  ArbiterInv'
<1> DEFINE k == popups + 1
<1>1. /\ busy' = TRUE /\ popups' = k /\ writing' = Line("popup", k)
      /\ timers' = [Stopped EXCEPT ![k] = "armed"] /\ epochOf' = [epochOf EXCEPT ![k] = epoch]
      /\ UNCHANGED <<epoch, base>>
  BY DEF ShowPopup
<1>2. k \in Popups /\ k \in Nat
  BY ArbiterAssumption DEF ShowPopup, ArbiterInv, ArbiterShape, Popups
<1> HIDE DEF k
<1>3. DOMAIN Stopped = Popups
  BY StoppedShape DEF ArbiterInv
<1>4. ArbiterShape'
  BY <1>1, <1>2, <1>3 DEF ArbiterInv, ArbiterShape
<1>5. timers'[k] = "armed" /\ epochOf'[k] = epoch'
  BY <1>1, <1>2, <1>3 DEF ArbiterInv, ArbiterShape
<1>6. writing'.layer = "popup" /\ writing'.text = popups'
  BY <1>1 DEF Line
<1>7. PopupHasTimer'
  BY <1>2, <1>5 DEF PopupHasTimer
<1>8. WritingIsTrue'
  BY <1>1, <1>6 DEF WritingIsTrue
<1>9. ~ScreenFree'
  BY <1>6 DEF ScreenFree, Nothing
<1> QED
  BY <1>4, <1>7, <1>8, <1>9 DEF ArbiterInv, ScreenMatchesArbiter

LEMMA TimerFiresKept ==
    ASSUME ArbiterInv, NEW k \in Popups, TimerFires(k), UNCHANGED writeFailed
    PROVE  ArbiterInv'
<1>1. /\ timers' = [timers EXCEPT ![k] = "fired"]
      /\ UNCHANGED <<screen, writing, busy, epoch, base, popups, epochOf>>
  BY DEF TimerFires
<1>2. ArbiterShape'
  BY <1>1 DEF ArbiterInv, ArbiterShape
<1>3. PopupHasTimer'
  <2> SUFFICES ASSUME busy PROVE \E j \in Popups : /\ timers'[j] \in {"armed", "fired"}
                                                   /\ epochOf'[j] = epoch'
    BY <1>1 DEF PopupHasTimer
  <2>1. PICK j \in Popups : timers[j] \in {"armed", "fired"} /\ epochOf[j] = epoch
    BY DEF ArbiterInv, PopupHasTimer
  <2>2. timers'[j] \in {"armed", "fired"}
    BY <1>1, <2>1 DEF ArbiterInv, ArbiterShape
  <2> QED
    BY <1>1, <2>1, <2>2
<1> QED
  BY <1>1, <1>2, <1>3 DEF ArbiterInv, WritingIsTrue, ScreenMatchesArbiter, ScreenFree

\* A timer superseded by a patch display is not the one the popup counts on;
\* one that is not takes the popup down.
LEMMA ExpirePopupKept ==
    ASSUME ArbiterInv, NEW k \in Popups, ExpirePopup(k), UNCHANGED writeFailed
    PROVE  ArbiterInv'
<1>1. timers' = [timers EXCEPT ![k] = "ended"] /\ UNCHANGED <<screen, epoch, base, popups, epochOf>>
  BY DEF ExpirePopup
<1>2. ArbiterShape'
  BY <1>1 DEF ArbiterInv, ArbiterShape
<1>3. CASE Superseded(k)
  <2>1. UNCHANGED <<busy, writing>>
    BY <1>3 DEF ExpirePopup
  <2>2. PopupHasTimer'
    <3> SUFFICES ASSUME busy PROVE \E j \in Popups : /\ timers'[j] \in {"armed", "fired"}
                                                     /\ epochOf'[j] = epoch'
      BY <2>1 DEF PopupHasTimer
    <3>1. PICK j \in Popups : timers[j] \in {"armed", "fired"} /\ epochOf[j] = epoch
      BY DEF ArbiterInv, PopupHasTimer
    <3>2. j # k
      BY <1>3, <3>1 DEF Superseded
    <3>3. timers'[j] = timers[j]
      BY <1>1, <3>1, <3>2 DEF ArbiterInv, ArbiterShape
    <3> QED
      BY <1>1, <3>1, <3>3
  <2> QED
    BY <1>1, <1>2, <2>1, <2>2 DEF ArbiterInv, WritingIsTrue, ScreenMatchesArbiter, ScreenFree
<1>4. CASE ~Superseded(k)
  <2>1. busy' = FALSE /\ writing' = Line("patch", base)
    BY <1>4 DEF ExpirePopup
  <2>2. writing'.layer = "patch" /\ writing'.text = base'
    BY <1>1, <2>1 DEF Line
  <2>3. ~ScreenFree'
    BY <2>2 DEF ScreenFree, Nothing
  <2>4. WritingIsTrue'
    BY <2>2 DEF WritingIsTrue
  <2> QED
    BY <1>2, <2>1, <2>3, <2>4 DEF ArbiterInv, PopupHasTimer, ScreenMatchesArbiter
<1> QED
  BY <1>3, <1>4

LEMMA WriteDirectKept ==
    ASSUME ArbiterInv, NEW text, WriteDirect(text), UNCHANGED writeFailed
    PROVE  ArbiterInv'
<1>1. /\ writing' = Line("limiter", text)
      /\ UNCHANGED <<busy, epoch, base, popups, timers, epochOf>>
  BY DEF WriteDirect
<1>2. writing'.layer = "limiter"
  BY <1>1 DEF Line
<1>3. WritingIsTrue' /\ ~ScreenFree'
  BY <1>2 DEF WritingIsTrue, ScreenFree, Nothing
<1> QED
  BY <1>1, <1>3 DEF ArbiterInv, ArbiterShape, PopupHasTimer, ScreenMatchesArbiter

LEMMA DeviceKept ==
    ASSUME ArbiterInv, Device
    PROVE  ArbiterInv'
<1>1. writing' = Nothing /\ UNCHANGED <<busy, epoch, base, popups, timers, epochOf>>
  BY DEF Device, WriteSucceeds, WriteFails, DeviceWrites, DeviceFails
<1>2. writing'.layer = "nothing"
  BY <1>1 DEF Nothing
<1>3. WritingIsTrue'
  BY <1>2 DEF WritingIsTrue
<1>4. ScreenMatchesArbiter'
  <2>1. writeFailed' \/ screen' = writing
    BY DEF Device, WriteSucceeds, WriteFails, DeviceWrites
  <2> QED
    BY <1>1, <2>1 DEF ArbiterInv, WritingIsTrue, ScreenMatchesArbiter
<1> QED
  BY <1>1, <1>3, <1>4 DEF ArbiterInv, ArbiterShape, PopupHasTimer

LEMMA ArbiterKept == ArbiterInv /\ [Next]_vars => ArbiterInv'
<1> SUFFICES ASSUME ArbiterInv, [Next]_vars PROVE ArbiterInv'
  OBVIOUS
<1>1. ASSUME \/ Switch \/ Publish \/ FollowRead \/ LimiterLooks \/ LimiterReads
             \/ LimiterReleases \/ LimiterAsks \/ UNCHANGED vars
      PROVE  UNCHANGED <<arbiterVars, writeFailed>>
  BY <1>1 DEF Switch, Publish, FollowRead, FollowReceive, FollowName, FollowStatus, LimiterLooks,
              LimiterReads, LimiterReleases, LimiterAsks, vars
<1>2. ASSUME FollowShow \/ LimiterClears PROVE ArbiterInv'
  BY <1>2, ShowPatchKept DEF FollowShow, LimiterClears
<1>3. ASSUME Popup PROVE ArbiterInv'
  BY <1>3, ShowPopupKept DEF Popup
<1>4. ASSUME NEW k \in Popups, Expiry(k) PROVE ArbiterInv'
  BY <1>4, TimerFiresKept, ExpirePopupKept DEF Expiry
<1>5. ASSUME LimiterLabels PROVE ArbiterInv'
  BY <1>5, WriteDirectKept DEF LimiterLabels
<1> QED
  BY <1>1, <1>2, <1>3, <1>4, <1>5, ArbiterQuiet, DeviceKept DEF Next, Limiter

----------------------------------------------------------------------------
(***************************************************************************)
(* The follower: a change is followed by an event of its own, and an event *)
(* that is dropped is older than one that is not.                          *)
(***************************************************************************)

\* Drop-oldest never empties a subscription.
LEMMA DeliverLeavesOne ==
    ASSUME NEW n \in Nat PROVE Deliver(n) \in Nat \ {0}
  BY DisplayAssumption DEF Deliver

LEMMA TextShape == \A n, l : Text(n, l).name = n /\ Text(n, l).line = l
  BY DEF Text

LEMMA FollowerKept == FollowerInv /\ [Next]_vars => FollowerInv'
<1> SUFFICES ASSUME FollowerInv, [Next]_vars PROVE FollowerInv'
  OBVIOUS
<1> USE DEF FollowerInv, FollowerShape
<1>1. CASE Switch
  <2>1. unpublished' = unpublished + 1 /\ UNCHANGED <<pending, want, last>>
    BY <1>1 DEF Switch, followVars
  <2>2. unpublished' \in Nat \ {0}
    BY <2>1
  <2> QED
    BY <2>1, <2>2 DEF ReadsAreCurrent, FollowerCaughtUp
<1>2. CASE Publish
  <2>1. /\ unpublished > 0 /\ unpublished' = unpublished - 1 /\ pending' = Deliver(pending)
        /\ UNCHANGED <<want, last>>
    BY <1>2 DEF Publish, followVars
  <2>2. unpublished' \in Nat /\ pending' \in Nat \ {0}
    BY <2>1, DeliverLeavesOne
  <2> QED
    BY <2>1, <2>2 DEF ReadsAreCurrent, FollowerCaughtUp
<1>3. CASE FollowReceive
  <2>1. /\ pending > 0 /\ pending' = pending - 1 /\ followPC' = "name"
        /\ UNCHANGED <<unpublished, want, last>>
    BY <1>3 DEF FollowReceive, registryVars
  <2>2. pending' \in Nat
    BY <2>1
  <2> QED
    BY <2>1, <2>2 DEF ReadsAreCurrent, FollowerCaughtUp
<1>4. CASE FollowName
  <2>1. /\ want' = [want EXCEPT !.name = version] /\ followPC' = "status"
        /\ UNCHANGED <<version, unpublished, pending, last>>
    BY <1>4 DEF FollowName, registryVars
  <2>2. want' = Text(version, want.line)
    BY <2>1 DEF Text
  <2>3. want' = Text(want'.name, want'.line) /\ want'.name = version'
    BY <2>1, <2>2, TextShape
  <2> QED
    BY <2>1, <2>3 DEF ReadsAreCurrent, FollowerCaughtUp
<1>5. CASE FollowStatus
  <2>1. /\ want' = [want EXCEPT !.line = version] /\ followPC = "status"
        /\ followPC' = IF want' = last THEN "idle" ELSE "show"
        /\ UNCHANGED <<version, unpublished, pending, last, missed>>
    BY <1>5 DEF FollowStatus, registryVars
  <2>2. want' = Text(want.name, version)
    BY <2>1 DEF Text
  <2>3. want' = Text(want'.name, want'.line)
    BY <2>2, TextShape
  <2>4. unpublished = 0 /\ pending = 0 => want' = Text(version, version)
    BY <2>1, <2>2 DEF ReadsAreCurrent
  <2> QED
    BY <2>1, <2>3, <2>4 DEF ReadsAreCurrent, FollowerCaughtUp
<1>6. CASE FollowShow
  <2>1. followPC = "show" /\ followPC' = "writing"
        /\ UNCHANGED <<version, unpublished, pending, want, last, missed>>
    BY <1>6 DEF FollowShow, registryVars
  <2> QED
    BY <2>1 DEF ReadsAreCurrent, FollowerCaughtUp
<1>7. CASE Device
  <2>1. UNCHANGED <<version, unpublished, pending, want>>
    BY <1>7 DEF Device, WriteSucceeds, WriteFails, registryVars
  <2>2. CASE followPC = "writing"
    <3>1. CASE WriteSucceeds
      <4>1. followPC' = "idle" /\ last' = want
        BY <2>2, <3>1 DEF WriteSucceeds
      <4> QED
        BY <2>1, <2>2, <4>1 DEF ReadsAreCurrent, FollowerCaughtUp
    <3>2. CASE WriteFails
      <4>1. followPC' = "idle" /\ last' = last /\ missed' = TRUE
        BY <2>2, <3>2 DEF WriteFails
      <4>2. missed'
        BY <4>1
      <4> QED
        BY <2>1, <4>1, <4>2 DEF ReadsAreCurrent, FollowerCaughtUp
    <3> QED
      BY <1>7, <3>1, <3>2 DEF Device
  <2>3. CASE followPC # "writing"
    <3>1. UNCHANGED <<followPC, last, missed>>
      BY <1>7, <2>3 DEF Device, WriteSucceeds, WriteFails
    <3> QED
      BY <2>1, <3>1 DEF ReadsAreCurrent, FollowerCaughtUp
  <2> QED
    BY <2>2, <2>3
<1>8. CASE Popup \/ (\E k \in Popups : Expiry(k)) \/ Limiter \/ UNCHANGED vars
  <2>1. UNCHANGED <<version, unpublished, pending, followPC, want, last, missed>>
    BY <1>8 DEF Popup, Expiry, Limiter, LimiterLooks, LimiterReads, LimiterLabels, LimiterReleases,
                LimiterAsks, LimiterClears, vars, registryVars, followVars
  <2> QED
    BY <2>1 DEF ReadsAreCurrent, FollowerCaughtUp
<1> QED
  BY <1>1, <1>2, <1>3, <1>4, <1>5, <1>6, <1>7, <1>8 DEF Next, FollowRead

----------------------------------------------------------------------------
LEMMA DisplayInitially == Init => ArbiterInv /\ FollowerInv
<1> SUFFICES ASSUME Init PROVE ArbiterInv /\ FollowerInv
  OBVIOUS
<1>1. ArbiterInit(Text(0, 0))
  BY DEF Init
<1>2. ArbiterShape /\ ~busy
  BY <1>1 DEF ArbiterInit, ArbiterShape
<1>3. writing.layer = "nothing" /\ screen.layer = "patch" /\ screen.text = base
  BY <1>1 DEF ArbiterInit, Nothing, Line
<1>4. ArbiterInv
  BY <1>2, <1>3 DEF ArbiterInv, PopupHasTimer, WritingIsTrue, ScreenMatchesArbiter
<1>5. FollowerInv
  BY DEF Init, FollowerInv, FollowerShape, ReadsAreCurrent, FollowerCaughtUp, Text
<1> QED
  BY <1>4, <1>5

\* While a popup is up a timer of its epoch is to expire, however many were
\* stopped, lost the race with Stop or were superseded (screen_arbiter.go:68-95).
THEOREM PopupsGoAway == Spec => []PopupHasTimer
<1>1. ArbiterInv => PopupHasTimer
  BY DEF ArbiterInv
<1> QED
  BY <1>1, DisplayInitially, ArbiterKept, PTL DEF Spec

\* The text on the screen and the arbiter's idea of it cannot drift apart
\* unless the device refuses a write (screen_arbiter.go:28-30).
THEOREM ScreenIsKnown == Spec => []ScreenMatchesArbiter
<1>1. ArbiterInv => ScreenMatchesArbiter
  BY DEF ArbiterInv
<1> QED
  BY <1>1, DisplayInitially, ArbiterKept, PTL DEF Spec

\* Once its events are handled the follower has shown the registry's patch and
\* status, whatever the hub has dropped (main.go, newPatchLoadFollower).
THEOREM DropsLoseNothing == Spec => []FollowerCaughtUp
<1>1. FollowerInv => FollowerCaughtUp
  BY DEF FollowerInv
<1> QED
  BY <1>1, DisplayInitially, FollowerKept, PTL DEF Spec
=============================================================================
