------------------------------- MODULE Display -------------------------------
(***************************************************************************)
(* How a patch switch reaches the Launchkey's screen: the registry's       *)
(* state changes and is announced on the hub (internal/controls/hub.go),   *)
(* whose subscription drops its oldest event when full; the follower       *)
(* goroutine re-reads the registry on every event and shows what changed   *)
(* (newPatchLoadFollower, cmd/polyclav/main.go); popups and the limiter    *)
(* indicator share the screen with it (ScreenArbiter).                     *)
(*                                                                         *)
(* The registry's Current and Status are read one after the other, so the  *)
(* model keeps the version each read returned: a text is a name of one     *)
(* version and a status line of another, or blank.                         *)
(***************************************************************************)
EXTENDS ScreenArbiter

CONSTANTS
  MaxSwitches,  \* bound of the model: changes of the registry's state
  MaxClears,    \* bound of the model: times the limiter's label is cleared
  HubCap        \* capacity of the follower's subscription (64 in the code)

ASSUME DisplayAssumption ==
  /\ MaxSwitches \in Nat \ {0}
  /\ MaxClears \in Nat
  /\ HubCap \in Nat \ {0}

VARIABLES
  version,      \* version of the registry's (Current, Status)
  unpublished,  \* changes whose Publish is still to come
  pending,      \* events in the follower's subscription
  followPC,     \* the follower goroutine, and its locals:
  want,         \*   the text it has read
  last,         \*   lastName, lastStatus
  missed,       \* history: the follower's latest display attempt failed
  limiterPC,    \* the poll goroutine's limiter indicator, and its locals:
  limiterText,  \*   the patch it read
  labelUp,      \*   limiterLabel is not empty
  clears,       \* bound of the model
  writeFailed   \* history: the latest device write failed

registryVars == <<version, unpublished>>
followVars == <<followPC, want, last, missed>>
limiterVars == <<limiterPC, limiterText, labelUp, clears>>
vars == <<arbiterVars, registryVars, pending, followVars, limiterVars, writeFailed>>

Versions == 0 .. MaxSwitches
Blank == MaxSwitches + 1

Text(name, line) == [name |-> name, line |-> line]
AllTexts == [name : Versions, line : Versions \cup {Blank}]
\* The follower is seeded with the boot patch, which the screen shows.
Init ==
  /\ ArbiterInit(Text(0, 0))
  /\ version = 0 /\ unpublished = 0 /\ pending = 0
  /\ followPC = "idle" /\ want = Text(0, 0) /\ last = Text(0, 0)
  /\ missed = FALSE
  /\ limiterPC = "idle" /\ limiterText = Text(0, 0) /\ labelUp = FALSE
  /\ clears = 0
  /\ writeFailed = FALSE

-----------------------------------------------------------------------------
(* The registry and the hub.                                               *)

\* A select, a MarkActive or a MarkFailed; its publisher announces it after.
Switch ==
  /\ version < MaxSwitches
  /\ version' = version + 1
  /\ unpublished' = unpublished + 1
  /\ UNCHANGED <<arbiterVars, pending, followVars, limiterVars, writeFailed>>

\* Drop-oldest: a full subscription keeps its length.
Deliver(n) == IF n < HubCap THEN n + 1 ELSE HubCap

Publish ==
  /\ unpublished > 0
  /\ unpublished' = unpublished - 1
  /\ pending' = Deliver(pending)
  /\ UNCHANGED <<arbiterVars, version, followVars, limiterVars, writeFailed>>

-----------------------------------------------------------------------------
(* The follower goroutine.                                                 *)

FollowReceive ==
  /\ followPC = "idle"
  /\ pending > 0
  /\ pending' = pending - 1
  /\ followPC' = "name"
  /\ UNCHANGED <<arbiterVars, registryVars, want, last, missed, limiterVars,
                 writeFailed>>

FollowName ==
  /\ followPC = "name"
  /\ want' = [want EXCEPT !.name = version]
  /\ followPC' = "status"
  /\ UNCHANGED <<arbiterVars, registryVars, pending, last, missed, limiterVars,
                 writeFailed>>

\* Mutant: only the status is compared with what was shown.
FollowStatus_StatusOnly ==
  /\ followPC = "status"
  /\ want' = [want EXCEPT !.line = version]
  /\ followPC' = IF version = last.line THEN "idle" ELSE "show"
  /\ UNCHANGED <<arbiterVars, registryVars, pending, last, missed, limiterVars,
                 writeFailed>>

FollowStatus ==
  /\ followPC = "status"
  /\ want' = [want EXCEPT !.line = version]
  /\ followPC' = IF want' = last THEN "idle" ELSE "show"
  /\ UNCHANGED <<arbiterVars, registryVars, pending, last, missed, limiterVars,
                 writeFailed>>

FollowShow ==
  /\ followPC = "show"
  /\ ShowPatch(want)
  /\ followPC' = "writing"
  /\ UNCHANGED <<registryVars, pending, want, last, missed, limiterVars, writeFailed>>

-----------------------------------------------------------------------------
(* Popups, the limiter indicator, and the device.                          *)

Popup ==
  /\ ShowPopup
  /\ UNCHANGED <<registryVars, pending, followVars, limiterVars, writeFailed>>

Expiry(k) ==
  /\ TimerFires(k) \/ ExpirePopup(k)
  /\ UNCHANGED <<registryVars, pending, followVars, limiterVars, writeFailed>>

\* The limiter engages, or still is and its label is due again: the poll loop
\* asks whether the screen is idle ...
LimiterLooks ==
  /\ limiterPC = "idle"
  /\ Idle
  /\ limiterPC' = "read"
  /\ UNCHANGED <<arbiterVars, registryVars, pending, followVars, limiterText,
                 labelUp, clears, writeFailed>>

\* ... and which patch is current ...
LimiterReads ==
  /\ limiterPC = "read"
  /\ limiterText' = Text(version, Blank)
  /\ labelUp' = TRUE
  /\ limiterPC' = "label"
  /\ UNCHANGED <<arbiterVars, registryVars, pending, followVars, clears, writeFailed>>

\* ... and writes, whatever came up meanwhile.
LimiterLabels ==
  /\ limiterPC = "label"
  /\ WriteDirect(limiterText)
  /\ limiterPC' = "idle"
  /\ UNCHANGED <<registryVars, pending, followVars, limiterText, labelUp, clears,
                 writeFailed>>

\* The limiter disengages: the label is forgotten, and the current patch read ...
LimiterReleases ==
  /\ limiterPC = "idle"
  /\ labelUp
  /\ clears < MaxClears
  /\ clears' = clears + 1
  /\ labelUp' = FALSE
  /\ limiterText' = Text(version, Blank)
  /\ limiterPC' = "asks"
  /\ UNCHANGED <<arbiterVars, registryVars, pending, followVars, writeFailed>>

\* ... to be shown in its place if the screen is idle.
LimiterAsks ==
  /\ limiterPC = "asks"
  /\ limiterPC' = IF Idle THEN "clear" ELSE "idle"
  /\ UNCHANGED <<arbiterVars, registryVars, pending, followVars, limiterText,
                 labelUp, clears, writeFailed>>

LimiterClears ==
  /\ limiterPC = "clear"
  /\ ShowPatch(limiterText)
  /\ limiterPC' = "idle"
  /\ UNCHANGED <<registryVars, pending, followVars, limiterText, labelUp, clears,
                 writeFailed>>

\* A write that is the follower's tells it whether to remember the text.
WriteSucceeds ==
  /\ DeviceWrites
  /\ writeFailed' = FALSE
  /\ IF followPC = "writing"
       THEN followPC' = "idle" /\ last' = want /\ missed' = FALSE
       ELSE UNCHANGED <<followPC, last, missed>>
  /\ UNCHANGED <<registryVars, pending, want, limiterVars>>

WriteFails ==
  /\ DeviceFails
  /\ writeFailed' = TRUE
  /\ IF followPC = "writing"
       THEN followPC' = "idle" /\ missed' = TRUE
       ELSE UNCHANGED <<followPC, missed>>
  /\ UNCHANGED <<registryVars, pending, want, last, limiterVars>>

FollowRead == FollowReceive \/ FollowName \/ FollowStatus
Device == WriteSucceeds \/ WriteFails
Limiter ==
  \/ LimiterLooks \/ LimiterReads \/ LimiterLabels
  \/ LimiterReleases \/ LimiterAsks \/ LimiterClears

Next ==
  \/ Switch \/ Publish
  \/ FollowRead \/ FollowShow
  \/ Popup
  \/ \E k \in Popups : Expiry(k)
  \/ Limiter
  \/ Device

Spec == Init /\ [][Next]_vars

-----------------------------------------------------------------------------
(* Properties.                                                             *)

(***************************************************************************)
(* A popup never outstays its welcome for want of a timer: while one is    *)
(* up, a timer of this epoch is still to expire, however many timers were  *)
(* stopped, lost the race with Stop, or were superseded.                   *)
(***************************************************************************)
PopupHasTimer ==
  busy => \E k \in Popups : timers[k] \in {"armed", "fired"} /\ epochOf[k] = epoch

(***************************************************************************)
(* The screen and the arbiter's idea of it do not drift apart: when no     *)
(* write is under way and the last one succeeded, a patch line on the      *)
(* screen is the base, never an older one repainted by a stale timer, and  *)
(* a popup on it is one that will expire.                                  *)
(***************************************************************************)
ScreenMatchesArbiter ==
  ScreenFree /\ ~writeFailed =>
    /\ screen.layer = "patch" => screen.text = base
    /\ screen.layer = "popup" => busy /\ screen.text = popups

(***************************************************************************)
(* Dropped events lose nothing: when every change has been announced and   *)
(* the follower has handled its events, the patch and status it last       *)
(* showed are the registry's, unless the device refused that last text.    *)
(* (newPatchLoadFollower: "The hub's drop-oldest policy is safe here".)    *)
(***************************************************************************)
FollowerCaughtUp ==
  unpublished = 0 /\ pending = 0 /\ followPC = "idle" =>
    last = Text(version, version) \/ missed

=============================================================================
