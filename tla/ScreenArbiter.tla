---------------------------- MODULE ScreenArbiter ----------------------------
(***************************************************************************)
(* The owner of the Launchkey's display (cmd/polyclav/screen_arbiter.go):  *)
(* a base layer that names the patch, popups that expire back to it, and   *)
(* the limiter's line.  Each operation changes the arbiter's state and     *)
(* then writes the device, holding writeMu throughout; Idle is asked       *)
(* without it.  An expiry whose timer has fired waits for writeMu like     *)
(* any other caller, and can no longer be stopped.                         *)
(***************************************************************************)
EXTENDS Naturals

CONSTANTS
  Texts,      \* what the base layer can say
  MaxPopups   \* bound of the model: popups shown

ASSUME ArbiterAssumption == MaxPopups \in Nat \ {0}

VARIABLES
  screen,    \* what the device shows
  writing,   \* what the holder of writeMu is about to write, or Nothing
  busy,      \* screenArbiter.busy
  epoch,     \* screenArbiter.epoch
  base,      \* screenArbiter.base1, base2
  popups,    \* popups shown so far: popup k has timer k
  timer,     \* screenArbiter.timer
  timers,    \* the state of each timer
  epochOf    \* the epoch each timer's function was given

arbiterVars == <<screen, writing, busy, epoch, base, popups, timer, timers, epochOf>>

Popups == 1 .. MaxPopups
NoTimer == 0

Line(layer, text) == [layer |-> layer, text |-> text]
Nothing == [layer |-> "nothing", text |-> 0]

ArbiterInit(text) ==
  /\ screen = Line("patch", text)
  /\ writing = Nothing
  /\ busy = FALSE
  /\ epoch = 0
  /\ base = text
  /\ popups = 0
  /\ timer = NoTimer
  /\ timers = [k \in Popups |-> "unset"]
  /\ epochOf = [k \in Popups |-> 0]

\* No operation holds writeMu.
ScreenFree == writing = Nothing

\* timer.Stop: a timer that has fired is past stopping.
Stopped ==
  IF timer # NoTimer /\ timers[timer] = "armed"
    THEN [timers EXCEPT ![timer] = "stopped"]
    ELSE timers

\* Mutant: the new base is not recorded.
ShowPatch_KeepBase(text) ==
  /\ ScreenFree
  /\ epoch' = epoch + 1
  /\ busy' = FALSE
  /\ timers' = Stopped
  /\ timer' = NoTimer
  /\ writing' = Line("patch", text)
  /\ UNCHANGED <<screen, base, popups, epochOf>>

ShowPatch(text) ==
  /\ ScreenFree
  /\ epoch' = epoch + 1
  /\ busy' = FALSE
  /\ timers' = Stopped
  /\ timer' = NoTimer
  /\ base' = text
  /\ writing' = Line("patch", text)
  /\ UNCHANGED <<screen, popups, epochOf>>

ShowPopup ==
  /\ ScreenFree
  /\ popups < MaxPopups
  /\ popups' = popups + 1
  /\ busy' = TRUE
  /\ timers' = [Stopped EXCEPT ![popups + 1] = "armed"]
  /\ epochOf' = [epochOf EXCEPT ![popups + 1] = epoch]
  /\ timer' = popups + 1
  /\ writing' = Line("popup", popups + 1)
  /\ UNCHANGED <<screen, epoch, base>>

TimerFires(k) ==
  /\ timers[k] = "armed"
  /\ timers' = [timers EXCEPT ![k] = "fired"]
  /\ UNCHANGED <<screen, writing, busy, epoch, base, popups, timer, epochOf>>

\* A patch display, or another popup's expiry, came first.
Superseded(k) == epochOf[k] # epoch \/ ~busy

\* Mutant: an expiry that finds writeMu taken gives up.
ExpirePopup_GiveUp(k) ==
  /\ timers[k] = "fired"
  /\ timers' = [timers EXCEPT ![k] = "ended"]
  /\ IF Superseded(k) \/ ~ScreenFree
       THEN UNCHANGED <<busy, timer, writing>>
       ELSE /\ busy' = FALSE
            /\ timer' = NoTimer
            /\ writing' = Line("patch", base)
  /\ UNCHANGED <<screen, epoch, base, popups, epochOf>>

ExpirePopup(k) ==
  /\ timers[k] = "fired"
  /\ ScreenFree
  /\ timers' = [timers EXCEPT ![k] = "ended"]
  /\ IF Superseded(k)
       THEN UNCHANGED <<busy, timer, writing>>
       ELSE /\ busy' = FALSE
            /\ timer' = NoTimer
            /\ writing' = Line("patch", base)
  /\ UNCHANGED <<screen, epoch, base, popups, epochOf>>

WriteDirect(text) ==
  /\ ScreenFree
  /\ writing' = Line("limiter", text)
  /\ UNCHANGED <<screen, busy, epoch, base, popups, timer, timers, epochOf>>

\* The device takes the text, and writeMu is released.
DeviceWrites ==
  /\ ~ScreenFree
  /\ screen' = writing
  /\ writing' = Nothing
  /\ UNCHANGED <<busy, epoch, base, popups, timer, timers, epochOf>>

\* The write fails; only the caller hears of it.
DeviceFails ==
  /\ ~ScreenFree
  /\ writing' = Nothing
  /\ UNCHANGED <<screen, busy, epoch, base, popups, timer, timers, epochOf>>

Idle == ~busy

=============================================================================
