----------------------------- MODULE MidiDebugger -----------------------------
(***************************************************************************)
(* The Launchkey debugger page (web/app/launchkey-debug/): it shows what   *)
(* is pressed on the keyboard, heard from the browser's own MIDI inputs,   *)
(* from the daemon's event stream, or from a report read from a file.      *)
(***************************************************************************)
EXTENDS LaunchkeyMessages

CONSTANTS
    Played,      \* the controls the player uses, among AllPlayed
    Files,       \* reports of recorded sessions a user may load
    HistoryCap,  \* events the page lists, 80 in the page
    HubCap,      \* events the daemon keeps for a slow page
    DebugOps     \* bound on what the player, the user and the faults do

AllPlayed == {<<"key", 60>>, <<"pad-top", 1>>, <<"shift">>, <<"sustain">>}

ASSUME PlayedAssumption == Played \subseteq AllPlayed
ASSUME CapsAssumption == HistoryCap \in Nat \ {0} /\ HubCap \in Nat \ {0}
ASSUME DebugOpsAssumption == DebugOps \in Nat

VARIABLES
    mounted,       \* the page is open
    activeSource,  \* the source chosen: "browser", "daemon" or "offline"
    token,         \* browserConnectToken, the number of the newest connect
    asks,          \* connects still waiting for the user's permission
    access,        \* accessRef: the connect it was granted to, 0 for none
    heard,         \* the ports a handler of this page listens to
    notice,        \* ports came or went and the page has not looked yet
    air,           \* messages on their way to the page's handlers
    sse,           \* the daemon's stream: "none", "connecting", "open", "retry"
    rawEvents,     \* midi-raw events on the stream
    report,        \* the report being replayed
    cursor,        \* how many of its events were taken
    playing,       \* the replay runs by itself
    replayTimer,   \* the event the armed 35 ms timer will take, if any
    imports,       \* files still being read
    dirty,         \* state was set that the page's effects have not seen
    heldDown,      \* controls shown as held
    pressure,      \* pads with a pressure to show
    history,       \* sources of the newest events
    plugged,       \* the keyboard's ports that are there
    down,          \* what is down on the keyboard
    squeezed,      \* pads that were pressed harder since they went down
    unsure,        \* controls of which the page missed something
    debugOps

chosen == <<mounted, activeSource, token, asks>>
browserIn == <<access, heard, notice, air>>
daemonIn == <<sse, rawEvents>>
replay == <<report, cursor, playing, replayTimer, imports>>
surface == <<heldDown, pressure, history>>
keyboard == <<plugged, down, squeezed>>
debugVars == <<chosen, browserIn, daemonIn, replay, dirty, surface, keyboard,
               unsure, debugOps>>

----------------------------------------------------------------------------
DebugInit ==
    /\ mounted = TRUE /\ activeSource = "browser" /\ token = 0 /\ asks = {}
    /\ access = 0 /\ heard = {} /\ notice = FALSE /\ air = <<>>
    /\ sse = "none" /\ rawEvents = <<>>
    /\ report = <<>> /\ cursor = 0 /\ playing = FALSE
    /\ replayTimer = <<>> /\ imports = {} /\ dirty = FALSE
    /\ heldDown = {} /\ pressure = {} /\ history = <<>>
    /\ plugged = {"DAW", "MIDI"} /\ down = {} /\ squeezed = {}
    /\ unsure = {}
    /\ debugOps = 0

DebugSpend == debugOps < DebugOps /\ debugOps' = debugOps + 1

\* The controls whose messages tell that they are held: notes, and switches.
IsSwitch(c) ==
    c[1] \in {"fader-button", "sustain", "stop", "loop", "play", "record",
              "track-left", "track-right", "encoder-up", "encoder-down",
              "shift", "settings", "function", "pad-up", "pad-down",
              "pad-right", "capture", "undo", "quantise", "metronome"}
IsPad(c) == c[1] \in {"pad-top", "pad-bottom"}

\* What one event does to the surface.
ShowEvent(mode, e) ==
    LET c == e.control
        switched == e.kind = "cc" /\ IsSwitch(c)
        on == e.kind = "note-on" \/ (switched /\ e.value >= 64)
        off == e.kind = "note-off" \/ (switched /\ e.value < 64)
        listed == <<mode>> \o history
    IN  /\ history' = IF Len(listed) > HistoryCap
                      THEN SubSeq(listed, 1, HistoryCap) ELSE listed
        /\ heldDown' = IF c # None /\ on THEN heldDown \cup {c}
                       ELSE IF off THEN heldDown \ {c} ELSE heldDown
        /\ pressure' = IF IsPad(c) /\ e.kind = "poly-aftertouch"
                       THEN pressure \cup {c}
                       ELSE IF IsPad(c) /\ e.kind \in Notes
                       THEN pressure \ {c} ELSE pressure

Ingest(mode, e) ==
    IF mode = activeSource THEN ShowEvent(mode, e) ELSE UNCHANGED surface

UnderWay == {air[i].of : i \in DOMAIN air}
               \cup {rawEvents[i].of : i \in DOMAIN rawEvents}

\* After it, what is down is not known to be.
ResetSurface ==
    /\ heldDown' = {} /\ pressure' = {} /\ history' = <<>>
    /\ unsure' = down \cup (unsure \cap UnderWay)

\* The source is changed on the page. Only for another source than the browser
\* its handlers go, and its pending connects with them.
SetSourceMode(mode) ==
    /\ activeSource' = mode
    /\ ResetSurface
    /\ dirty' = TRUE

DisconnectBrowser ==
    /\ token' = token + 1
    /\ access' = 0 /\ heard' = {}

----------------------------------------------------------------------------
\* The keyboard. It sends on a port that is there; a message reaches the page
\* by the handlers of the browser's ports and by the daemon's stream.

PortOf(c) == IF c[1] \in {"key", "sustain"} THEN "MIDI" ELSE "DAW"

OnMessage(c) ==
    CASE c[1] = "key"     -> Message("MIDI", 144, 0, c[2], 100)
      [] c[1] = "pad-top" -> Message("DAW", 144, 0, 95 + c[2], 100)
      [] c[1] = "shift"   -> Message("DAW", 176, 6, 63, 127)
      [] c[1] = "sustain" -> Message("MIDI", 176, 0, 64, 127)

\* A note ends with a note-off, or with a note-on without velocity.
OffMessages(c) ==
    {[OnMessage(c) EXCEPT !.value = 0]}
    \cup IF c[1] \in {"key", "pad-top"}
         THEN {[OnMessage(c) EXCEPT !.family = 128]} ELSE {}

SqueezeMessage(c) == [OnMessage(c) EXCEPT !.family = 160]

\* What is under way of a control is not the last word on it any more once a
\* later message is missed.
NotLast(queue, c) ==
    [i \in DOMAIN queue |->
        [queue[i] EXCEPT !.last = queue[i].last /\ queue[i].of # c]]

\* The daemon drops the oldest event of a page that is slow to take them.
Emit(c, m) ==
    LET there == m.port \in plugged
        listened == there /\ m.port \in heard
        streamed == there /\ sse = "open"
        full == streamed /\ Len(rawEvents) = HubCap
    IN  /\ air' = IF listened
                  THEN Append(air, [of |-> c, msg |-> m, last |-> TRUE,
                                    via |-> access])
                  ELSE NotLast(air, c)
        /\ rawEvents' = IF ~streamed THEN NotLast(rawEvents, c)
                        ELSE Append(IF full THEN Tail(rawEvents) ELSE rawEvents,
                                    [of |-> c, msg |-> m, last |-> TRUE])
        /\ unsure' = unsure \cup
              CASE activeSource = "browser" /\ ~listened -> {c}
                [] activeSource # "browser" /\ ~streamed -> {c}
                [] activeSource = "daemon" /\ full -> {Head(rawEvents).of}
                [] OTHER -> {}

KeyboardStep ==
    /\ mounted /\ DebugSpend
    /\ UNCHANGED <<chosen, access, heard, notice, sse, replay, dirty, surface,
                   plugged>>

Press(c) ==
    /\ c \notin down
    /\ Emit(c, OnMessage(c))
    /\ down' = down \cup {c} /\ UNCHANGED squeezed
    /\ KeyboardStep

Release(c) ==
    /\ c \in down
    /\ \E m \in OffMessages(c) : Emit(c, m)
    /\ down' = down \ {c} /\ squeezed' = squeezed \ {c}
    /\ KeyboardStep

Squeeze(c) ==
    /\ c \in down \ squeezed /\ IsPad(c)
    /\ Emit(c, SqueezeMessage(c))
    /\ squeezed' = squeezed \cup {c} /\ UNCHANGED down
    /\ KeyboardStep

\* A port goes or comes back, and the browser tells a page that has access.
PortChanges(p) ==
    /\ mounted /\ DebugSpend
    /\ plugged' = (plugged \ {p}) \cup ({p} \ plugged)
    /\ notice' = (notice \/ access # 0)
    /\ UNCHANGED <<chosen, access, heard, air, daemonIn, replay, dirty, surface,
                   down, squeezed, unsure>>
----------------------------------------------------------------------------
\* The browser's own inputs.

\* The page listens to all the ports that are there, through the access it has.
Refresh == heard' = IF access' = 0 THEN heard ELSE plugged

StateChange ==
    /\ notice
    /\ notice' = FALSE
    /\ UNCHANGED access /\ Refresh
    /\ UNCHANGED <<chosen, air, daemonIn, replay, dirty, surface, keyboard,
                   unsure, debugOps>>

\* The browser button: the page asks anew, listening meanwhile if it did.
ConnectBrowser ==
    /\ mounted /\ DebugSpend
    /\ SetSourceMode("browser") /\ playing' = FALSE
    /\ token' = token + 1 /\ asks' = asks \cup {token + 1}
    /\ UNCHANGED <<mounted, browserIn, daemonIn, report, cursor, replayTimer,
                   imports, keyboard>>

\* A Granted that takes whatever access it gets.
Granted_Any(t) ==
    /\ t \in asks /\ asks' = asks \ {t}
    /\ access' = t /\ Refresh
    /\ UNCHANGED <<mounted, activeSource, token, notice, air, daemonIn, replay,
                   dirty, surface, keyboard, unsure, debugOps>>

\* Permission comes when the user gives it, maybe after another choice.
Granted(t) ==
    /\ t \in asks /\ asks' = asks \ {t}
    /\ IF t = token /\ activeSource = "browser"
       THEN access' = t /\ Refresh
       ELSE UNCHANGED <<access, heard>>
    /\ UNCHANGED <<mounted, activeSource, token, notice, air, daemonIn, replay,
                   dirty, surface, keyboard, unsure, debugOps>>

Refused(t) ==
    /\ t \in asks /\ asks' = asks \ {t}
    /\ UNCHANGED <<mounted, activeSource, token, browserIn, daemonIn, replay,
                   dirty, surface, keyboard, unsure, debugOps>>

\* A page that takes the last word on a control has made up for what it missed
\* of it before; a pad's pressure is not all there is to say.
Hear(mode, sent, e) ==
    /\ Ingest(mode, e)
    /\ unsure' = IF mode = activeSource /\ sent.last
                    /\ e.kind # "poly-aftertouch"
                 THEN unsure \ {sent.of} ELSE unsure

\* A message whose handler was removed meanwhile reaches nobody.
BrowserMessage ==
    LET a == Head(air) IN
    /\ air # <<>> /\ air' = Tail(air)
    /\ IF a.via = access /\ a.msg.port \in heard
       THEN Hear("browser", a, decodeMessage(a.msg))
       ELSE unsure' = unsure \cup {a.of} /\ UNCHANGED surface
    /\ UNCHANGED <<chosen, access, heard, notice, daemonIn, replay, dirty,
                   keyboard, debugOps>>

----------------------------------------------------------------------------
\* The daemon's stream, opened and closed by an effect of the page.

DaemonEvent ==
    LET d == Head(rawEvents) IN
    /\ sse = "open" /\ rawEvents # <<>> /\ rawEvents' = Tail(rawEvents)
    /\ Hear("daemon", d, decodeBackendRaw(midiRaw(d.msg)))
    /\ UNCHANGED <<chosen, browserIn, sse, replay, dirty, keyboard, debugOps>>

SseOpens ==
    /\ sse = "connecting" /\ sse' = "open"
    /\ UNCHANGED <<chosen, browserIn, rawEvents, replay, dirty, surface,
                   keyboard, unsure, debugOps>>

\* The browser connects again by itself, or gives up and leaves it to a timer.
SseFails ==
    /\ sse \in {"connecting", "open"} /\ DebugSpend
    /\ sse' \in {"connecting", "retry"} /\ rawEvents' = <<>>
    /\ unsure' = unsure \cup {rawEvents[i].of : i \in DOMAIN rawEvents}
    /\ UNCHANGED <<chosen, browserIn, replay, dirty, surface, keyboard>>

SseRetry ==
    /\ sse = "retry" /\ sse' = "connecting"
    /\ UNCHANGED <<chosen, browserIn, rawEvents, replay, dirty, surface,
                   keyboard, unsure, debugOps>>

\* The daemon and the offline button, and Disconnect, which goes offline.
ChooseSource(mode) ==
    /\ mounted /\ DebugSpend
    /\ SetSourceMode(mode) /\ playing' = FALSE
    /\ DisconnectBrowser
    /\ UNCHANGED <<mounted, asks, notice, air, daemonIn, report, cursor,
                   replayTimer, imports, keyboard>>

\* A page that is closed lets go of its handlers, its stream and its timers.
Unmount ==
    /\ mounted /\ mounted' = FALSE
    /\ DisconnectBrowser
    /\ sse' = "none" /\ rawEvents' = <<>> /\ replayTimer' = <<>>
    /\ dirty' = FALSE
    /\ UNCHANGED <<activeSource, asks, notice, air, report, cursor, playing,
                   imports, surface, keyboard, unsure, debugOps>>
----------------------------------------------------------------------------
\* Replay of a report.

ImportReport(f) ==
    /\ mounted /\ DebugSpend
    /\ imports' = imports \cup {f}
    /\ UNCHANGED <<chosen, browserIn, daemonIn, report, cursor, playing,
                   replayTimer, dirty, surface, keyboard, unsure>>

\* The file is read: the page goes offline, whatever was chosen since.
ImportDone(f) ==
    /\ mounted /\ f \in imports /\ imports' = imports \ {f}
    /\ SetSourceMode("offline") /\ playing' = FALSE
    /\ DisconnectBrowser
    /\ report' = flattenInventory(f) /\ cursor' = 0
    /\ UNCHANGED <<mounted, asks, notice, air, daemonIn, replayTimer, keyboard,
                   debugOps>>

\* Not a report: only an error is shown.
ImportFails(f) ==
    /\ f \in imports /\ imports' = imports \ {f}
    /\ UNCHANGED <<chosen, browserIn, daemonIn, report, cursor, playing,
                   replayTimer, dirty, surface, keyboard, unsure, debugOps>>

More == cursor < Len(report)

\* Next event: it counts as taken, also when another source is chosen.
Step ==
    /\ mounted /\ DebugSpend /\ More /\ ~playing
    /\ Ingest("offline", report[cursor + 1])
    /\ cursor' = cursor + 1 /\ dirty' = TRUE
    /\ UNCHANGED <<chosen, browserIn, daemonIn, report, playing, replayTimer,
                   imports, keyboard, unsure>>

\* Play or Pause: going offline ends the replay first, so what is toggled is
\* always a replay at rest.
PlayPause ==
    /\ mounted /\ DebugSpend /\ More
    /\ SetSourceMode("offline")
    /\ DisconnectBrowser
    /\ playing' = TRUE
    /\ UNCHANGED <<mounted, asks, notice, air, daemonIn, report, cursor,
                   replayTimer, imports, keyboard>>

\* The timer takes the event that was next when it was armed.
ReplayTick ==
    /\ replayTimer # <<>> /\ replayTimer' = <<>>
    /\ Ingest("offline", replayTimer[1])
    /\ cursor' = cursor + 1 /\ dirty' = TRUE
    /\ UNCHANGED <<chosen, browserIn, daemonIn, report, playing, imports,
                   keyboard, unsure, debugOps>>

\* What the page does after it has drawn itself anew: the stream is there for
\* the daemon only, the timer for a replay that runs and has more to take.
Effects ==
    /\ dirty /\ dirty' = FALSE
    /\ IF activeSource = "daemon"
       THEN /\ sse' = IF sse = "none" THEN "connecting" ELSE sse
            /\ UNCHANGED rawEvents
       ELSE sse' = "none" /\ rawEvents' = <<>>
    /\ playing' = (playing /\ More)
    /\ replayTimer' = IF playing /\ More /\ activeSource = "offline"
                      THEN <<report[cursor + 1]>> ELSE <<>>
    /\ UNCHANGED <<chosen, browserIn, report, cursor, imports, surface,
                   keyboard, unsure, debugOps>>

----------------------------------------------------------------------------
DebugNext ==
    \/ \E c \in Played : Press(c) \/ Release(c) \/ Squeeze(c)
    \/ \E p \in {"DAW", "MIDI"} : PortChanges(p)
    \/ StateChange \/ ConnectBrowser \/ BrowserMessage
    \/ \E t \in asks : Granted(t) \/ Refused(t)
    \/ DaemonEvent \/ SseOpens \/ SseFails \/ SseRetry
    \/ (\E mode \in {"daemon", "offline"} : ChooseSource(mode)) \/ Unmount
    \/ (\E f \in Files : ImportReport(f))
    \/ \E f \in imports : ImportDone(f) \/ ImportFails(f)
    \/ Step \/ PlayPause \/ ReplayTick \/ Effects

DebugSpec == DebugInit /\ [][DebugNext]_debugVars

----------------------------------------------------------------------------
\* The page listens to the source chosen and to no other: through the browser
\* only with an access asked for since it was chosen, to the daemon and to the
\* replay's timer only until its effects have seen a change; closed, it does
\* not listen at all; and what it lists all came from the source chosen.
OneSourceHeard ==
    /\ heard # {} => access # 0
    /\ access # 0 => mounted /\ activeSource = "browser"
    /\ sse # "none" => mounted /\ (activeSource = "daemon" \/ dirty)
    /\ replayTimer # <<>> => mounted /\ (activeSource = "offline" \/ dirty)
    /\ \A i \in DOMAIN history : history[i] = activeSource

\* What the page shows as held is what is down on the keyboard, whichever of
\* the live sources it listens to, once all that was sent has come in and
\* unless it missed something of that control; so with a pad's pressure.
ShownIsPlayed ==
    (mounted /\ activeSource # "offline" /\ air = <<>> /\ rawEvents = <<>>) =>
        \A c \in Played \ unsure :
            /\ c \in heldDown <=> c \in down
            /\ c \in heldDown /\ c \in pressure <=> c \in squeezed
=============================================================================
