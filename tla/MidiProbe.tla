------------------------------- MODULE MidiProbe -------------------------------
(***************************************************************************)
(* The MIDI probe: one session that records what an unknown device sends   *)
(* (internal/midiprobe/session.go), driven over HTTP (internal/web/        *)
(* probe.go) by the probe page (web/app/midi-probe/page.tsx and its        *)
(* cards) and by any other page that is open. Handlers run at once; each   *)
(* holds the session's lock for a part of its work only.                   *)
(***************************************************************************)
EXTENDS Integers, Sequences, FiniteSets

CONSTANTS
    BufferCap,   \* messages a session keeps
    ProbeHubCap, \* changes the hub keeps for one slow page
    ProbeOps     \* bound on what users ask for, disconnecting apart

ASSUME BufferCapAssumption == BufferCap \in Nat \ {0}
ASSUME ProbeHubCapAssumption == ProbeHubCap \in Nat \ {0}
ASSUME ProbeOpsAssumption == ProbeOps \in Nat

VARIABLES
    active, conn,   \* the session is connected, and over which connection
    events,         \* the messages kept: connection and label
    labeling,       \* the label window as last looked at, and its label
    windowOver,     \* the window's time is over
    identityCh,     \* the identity request that gets the next reply, or 0
    lastIdentity,   \* the last result: over which connection asked and answered
    handlers,       \* handlers between two holds of the lock
    open,           \* connections open, each with its listener
    opened,         \* connections opened so far: names them
    hub,            \* changes on their way to the page
    live,           \* the page's stream: "closed" with the page, "up" or "down"
    status,         \* the page's copy of the session's status
    version,        \* changes of the session's status so far
    newest,         \* the newest version the page was told of
    missed,         \* versions of statuses the page was never told of
    capture,        \* the connection the record is of
    straddled,      \* another connection or question overlapped its start
    probeOps

session == <<active, conn, events, labeling, windowOver, identityCh, lastIdentity>>
probePage == <<live, status, newest>>
connections == <<open, opened>>
probeGhosts == <<version, missed, capture, straddled>>
probeVars == <<session, handlers, connections, hub, probePage, probeGhosts, probeOps>>

NoConn == 0
NoLabel == 0
NoOne == 0
NoIdentity == [asked |-> NoConn, from |-> NoConn]

\* The status names the label by the connection it was asked for.
StatusOf(isActive, over, label, v) ==
    [active |-> isActive, inPort |-> over, label |-> label, version |-> v]

\* Expired windows are closed whenever the session is looked at.
ExpiredLabel == IF windowOver THEN NoLabel ELSE labeling
Status == StatusOf(active, capture, ExpiredLabel, version)

Recording(c, label) == [conn |-> c, label |-> label]
Event == [kind |-> "probe-event"]
StatusEvent(s) == [kind |-> "probe-status", status |-> s]

NoStatus == StatusOf(FALSE, NoConn, NoLabel, 0)

\* A handler: its request, what it does next, whether the page waits for it,
\* and the connection or the status it holds. One that has "answered" is its
\* answer, on its way to the page.
Handler(step, mine, over, st) ==
    [id |-> probeOps', step |-> step, mine |-> mine, conn |-> over, status |-> st]
Arrives(h) == handlers' = handlers \cup {h}
Ends(h) == handlers' = handlers \ {h}
Goes(h, step, over, st) ==
    handlers' = (handlers \ {h}) \cup
                    {[h EXCEPT !.step = step, !.conn = over, !.status = st]}

\* The versions some changes tell of.
VersionsOf(changes) ==
    {c.status.version : c \in {d \in changes : d.kind = "probe-status"}}

\* Publish: a page that is away hears nothing, a full queue loses its oldest.
Publish(change) ==
    LET full == Len(hub) = ProbeHubCap
        kept == IF full THEN Tail(hub) ELSE hub
        lost == IF live = "up" THEN IF full THEN {Head(hub)} ELSE {} ELSE {change}
    IN  /\ hub' = IF live = "up" THEN Append(kept, change) ELSE hub
        /\ missed' = missed \cup VersionsOf(lost)

----------------------------------------------------------------------------
ProbeInit ==
    /\ active = FALSE /\ conn = NoConn /\ events = <<>>
    /\ labeling = NoLabel /\ windowOver = FALSE
    /\ identityCh = NoOne /\ lastIdentity = NoIdentity
    /\ handlers = {} /\ open = {} /\ opened = 0
    /\ hub = <<>> /\ live = "closed" /\ status = NoStatus
    /\ version = 0 /\ newest = 0 /\ missed = {}
    /\ capture = NoConn /\ straddled = FALSE
    /\ probeOps = 0

ProbeTurn == probeOps < ProbeOps /\ probeOps' = probeOps + 1

\* What the page lets its user do.
CanConnect == live # "closed" /\ ~status.active
CanDisconnect == status.active
Capturing == status.label # NoLabel /\ ~windowOver
CanCapture == status.active /\ ~Capturing
CanAsk == status.active /\ \A h \in handlers : h.step = "asking" => ~h.mine

----------------------------------------------------------------------------
\* Start looks at the session, opens the ports without the lock, and looks
\* again. A Start that is refused changes nothing.
StartLooks(mine) ==
    /\ ProbeTurn
    /\ mine => CanConnect
    /\ ~active
    /\ Arrives(Handler("open", mine, NoConn, NoStatus))
    /\ UNCHANGED <<session, connections, hub, probePage, probeGhosts>>

\* openConn and Listen: from here on the device's messages are recorded.
StartOpens(h) ==
    /\ h.step = "open"
    /\ opened' = opened + 1
    /\ open' = open \cup {opened'}
    /\ Goes(h, "begin", opened', NoStatus)
    /\ straddled' = (straddled \/ active)
    /\ UNCHANGED <<session, hub, probePage, version, missed, capture, probeOps>>

PortNotFound(h) ==
    /\ h.step = "open"
    /\ Ends(h)
    /\ UNCHANGED <<session, connections, hub, probePage, probeGhosts, probeOps>>

Overlapped(h) == open # {h.conn} \/ \E g \in handlers : g.step = "asking"

Begins(h) ==
    /\ active' = TRUE /\ conn' = h.conn /\ capture' = h.conn
    /\ events' = <<>> /\ labeling' = NoLabel /\ lastIdentity' = NoIdentity
    /\ version' = version + 1
    /\ straddled' = Overlapped(h)
    /\ Goes(h, "publish", NoConn, StatusOf(TRUE, h.conn, NoLabel, version'))
    /\ UNCHANGED <<windowOver, identityCh>>

ComesSecond(h) ==
    /\ Goes(h, "close", h.conn, NoStatus)
    /\ UNCHANGED <<session, version, capture, straddled>>

\* A StartBegins that keeps the last device's label window open.
StartBegins_KeepsLabel(h) ==
    /\ h.step = "begin"
    /\ \/ active /\ ComesSecond(h)
       \/ /\ ~active
          /\ active' = TRUE /\ conn' = h.conn /\ capture' = h.conn
          /\ events' = <<>> /\ lastIdentity' = NoIdentity
          /\ version' = version + 1
          /\ straddled' = Overlapped(h)
          /\ Goes(h, "publish", NoConn, StatusOf(TRUE, h.conn, labeling, version'))
          /\ UNCHANGED <<labeling, windowOver, identityCh>>
    /\ UNCHANGED <<connections, hub, probePage, missed, probeOps>>

\* A StartBegins that does not look a second time.
StartBegins_Unchecked(h) ==
    /\ h.step = "begin"
    /\ Begins(h)
    /\ UNCHANGED <<connections, hub, probePage, missed, probeOps>>

StartBegins(h) ==
    /\ h.step = "begin"
    /\ \/ active /\ ComesSecond(h)
       \/ ~active /\ Begins(h)
    /\ UNCHANGED <<connections, hub, probePage, missed, probeOps>>

\* Stop lets go of the connection under the lock and closes it after. The
\* record stays.
StopLetsGo(mine) ==
    /\ UNCHANGED probeOps
    /\ mine => CanDisconnect
    /\ active
    /\ active' = FALSE /\ conn' = NoConn
    /\ version' = version + 1
    /\ Arrives(Handler("close", mine, conn, StatusOf(FALSE, capture, labeling, version')))
    /\ UNCHANGED <<events, labeling, windowOver, identityCh, lastIdentity, connections, hub,
                   probePage, missed, capture, straddled>>

\* A Closes that says nothing.
Closes_Silently(h) ==
    /\ h.step = "close"
    /\ open' = open \ {h.conn}
    /\ Ends(h)
    /\ UNCHANGED <<session, opened, hub, probePage, probeGhosts, probeOps>>

\* Without a status to publish it is a Start that came second.
Closes(h) ==
    /\ h.step = "close"
    /\ open' = open \ {h.conn}
    /\ IF h.status = NoStatus THEN Ends(h) ELSE Goes(h, "publish", NoConn, h.status)
    /\ UNCHANGED <<session, opened, hub, probePage, probeGhosts, probeOps>>

\* What is published is the status as it was under the lock.
Publishes(h) ==
    /\ h.step = "publish"
    /\ Publish(StatusEvent(h.status))
    /\ IF h.mine THEN Goes(h, "answer", NoConn, h.status) ELSE Ends(h)
    /\ UNCHANGED <<session, connections, probePage, version, capture, straddled, probeOps>>

\* The answer to a capture is not used; its status comes over the stream.
BeginLabel(mine) ==
    /\ ProbeTurn
    /\ mine => CanCapture
    /\ active /\ ExpiredLabel = NoLabel
    /\ labeling' = capture /\ windowOver' = FALSE
    /\ version' = version + 1
    /\ Arrives(Handler("publish", FALSE, NoConn, StatusOf(TRUE, capture, capture, version')))
    /\ UNCHANGED <<active, conn, events, identityCh, lastIdentity, connections, hub, probePage,
                   missed, capture, straddled>>

WindowEnds ==
    /\ labeling # NoLabel /\ ~windowOver
    /\ windowOver' = TRUE
    /\ UNCHANGED <<active, conn, events, labeling, identityCh, lastIdentity, handlers, connections,
                   hub, probePage, probeGhosts, probeOps>>

----------------------------------------------------------------------------
\* A message comes in over a connection, the session's or not. The first
\* identity reply goes to the last request that waits.

Recorded(c) ==
    LET all == Append(events, Recording(c, ExpiredLabel)) IN
    /\ events' = IF Len(all) > BufferCap THEN Tail(all) ELSE all
    /\ labeling' = ExpiredLabel
    /\ Publish(Event)
    /\ UNCHANGED <<active, conn, windowOver, lastIdentity, connections, probePage, version, capture,
                   straddled, probeOps>>

Ingests(c) == Recorded(c) /\ UNCHANGED <<identityCh, handlers>>

IngestsReply(c) ==
    /\ identityCh # NoOne
    /\ Recorded(c)
    /\ identityCh' = NoOne
    /\ handlers' = {IF h.step = "asking" /\ h.id = identityCh THEN [h EXCEPT !.from = c]
                    ELSE h : h \in handlers}

IdentityRequest(mine) ==
    /\ ProbeTurn
    /\ mine => CanAsk
    /\ active
    /\ identityCh' = probeOps'
    /\ Arrives([id |-> identityCh', step |-> "asking", mine |-> mine, conn |-> conn,
                from |-> NoConn])
    /\ UNCHANGED <<active, conn, events, labeling, windowOver, lastIdentity, connections, hub,
                   probePage, probeGhosts>>

\* A request that times out says so; one that cannot be sent says nothing.
IdentityResult(h) ==
    /\ h.step = "asking"
    /\ Ends(h)
    /\ \/ lastIdentity' = [asked |-> h.conn, from |-> h.from]
       \/ h.from = NoConn /\ UNCHANGED lastIdentity
    /\ identityCh' = IF identityCh = h.id THEN NoOne ELSE identityCh
    /\ UNCHANGED <<active, conn, events, labeling, windowOver, connections, hub, probePage,
                   probeGhosts, probeOps>>

----------------------------------------------------------------------------
\* The page takes a status as it comes, from the stream or from an answer.

Take(s) ==
    /\ status' = s
    /\ newest' = IF s.version > newest THEN s.version ELSE newest

HearChange ==
    /\ live = "up" /\ hub # <<>>
    /\ hub' = Tail(hub)
    /\ IF Head(hub).kind = "probe-status" THEN Take(Head(hub).status)
       ELSE UNCHANGED <<status, newest>>
    /\ UNCHANGED <<session, handlers, connections, live, probeGhosts, probeOps>>

\* The answer to the page's own connect or disconnect, or to its first
\* question, is the status of its moment. Only looking closes a window.
AnswerReads(h) ==
    /\ h.step = "answer"
    /\ labeling' = ExpiredLabel
    /\ Goes(h, "answered", NoConn, Status)
    /\ UNCHANGED <<active, conn, events, windowOver, identityCh, lastIdentity, connections,
                   hub, probePage, probeGhosts, probeOps>>

HearAnswer(h) ==
    /\ h.step = "answered"
    /\ Take(h.status)
    /\ Ends(h)
    /\ UNCHANGED <<session, connections, hub, live, probeGhosts, probeOps>>

\* The request or its answer fails: the page has nothing from it, and asks
\* no second time.
AnswerLost(h) ==
    /\ h.step \in {"answer", "answered"}
    /\ Ends(h)
    /\ UNCHANGED <<session, connections, hub, probePage, probeGhosts, probeOps>>

\* The stream comes back by itself, without a word about the probe.
PageStreamLost ==
    /\ live = "up"
    /\ live' = "down" /\ hub' = <<>>
    /\ missed' = missed \cup VersionsOf({hub[i] : i \in DOMAIN hub})
    /\ UNCHANGED <<session, handlers, connections, status, newest, version, capture,
                   straddled, probeOps>>

PageStreamBack ==
    /\ live = "down"
    /\ live' = "up"
    /\ UNCHANGED <<session, handlers, connections, hub, status, newest, probeGhosts,
                   probeOps>>

\* The page is loaded: it asks for the status, and its stream is on its way. It
\* was told of nothing so far. What the page before it waited for nobody waits
\* for now.
LoadPage ==
    /\ ProbeTurn
    /\ live' = "down" /\ hub' = <<>>
    /\ status' = NoStatus /\ newest' = 0 /\ missed' = {version}
    /\ handlers' = {[h EXCEPT !.mine = FALSE] :
                        h \in {g \in handlers : g.step \notin {"answer", "answered"}}}
                       \cup {Handler("answer", TRUE, NoConn, NoStatus)}
    /\ UNCHANGED <<session, connections, version, capture, straddled>>

\* The daemon starts again, with nothing recorded and no port open; whoever
\* waited for an answer gets none. The stream of a page that is open comes
\* back, and its status stays what it was.
DaemonRestarts ==
    /\ ProbeTurn
    /\ active' = FALSE /\ conn' = NoConn /\ capture' = NoConn /\ events' = <<>>
    /\ labeling' = NoLabel /\ windowOver' = FALSE
    /\ identityCh' = NoOne /\ lastIdentity' = NoIdentity
    /\ handlers' = {} /\ open' = {} /\ hub' = <<>>
    /\ live' = IF live = "up" THEN "down" ELSE live
    /\ version' = version + 1 /\ missed' = missed \cup {version'}
    /\ straddled' = FALSE
    /\ UNCHANGED <<opened, status, newest>>

ProbeNext ==
    \/ \E mine \in BOOLEAN : \/ StartLooks(mine) \/ StopLetsGo(mine)
                             \/ BeginLabel(mine) \/ IdentityRequest(mine)
    \/ \E h \in handlers :
          \/ StartOpens(h) \/ PortNotFound(h) \/ StartBegins(h) \/ Closes(h)
          \/ Publishes(h) \/ AnswerReads(h) \/ HearAnswer(h) \/ AnswerLost(h)
          \/ IdentityResult(h)
    \/ \E c \in open : Ingests(c) \/ IngestsReply(c)
    \/ WindowEnds
    \/ HearChange
    \/ PageStreamLost \/ PageStreamBack \/ LoadPage
    \/ DaemonRestarts

ProbeSpec == ProbeInit /\ [][ProbeNext]_probeVars

----------------------------------------------------------------------------
\* No port stays open by the way: when no Start or Stop is under way, what is
\* open is the session's connection, also after two Starts raced between the
\* two looks, or a Stop ran between them (session.go:118-139).
NoPortLeaks ==
    (\A h \in handlers : h.step \notin {"begin", "close"}) =>
        open = IF active THEN {conn} ELSE {}

\* A profile is of one device: unless another connection or an identity
\* request overlapped the session's start, its messages, their labels and the
\* identity all belong to the connection it names (session.go:106-108, 141-153).
ProfileIsOfOneDevice ==
    (~straddled /\ open \subseteq {capture}) =>
        /\ \A i \in DOMAIN events : events[i].conn = capture
                                    /\ events[i].label \in {NoLabel, capture}
        /\ lastIdentity = NoIdentity \/ lastIdentity.asked = capture
        /\ lastIdentity.from \in {NoConn, capture}

\* At rest the page shows the session as it is, provided that it was told of the
\* newest status there is, by an event or by an answer, and of no older one after
\* that: statuses are published and answered outside the lock, in any order
\* (session.go:159, 186; ProbePortPicker.tsx:37-51). It is not told where its only
\* question failed (page.tsx:39-41), where the stream lost the last status, and
\* where the daemon started again since (useSSE.ts:12-15).
PageKnowsProbe ==
    (/\ handlers = {} /\ hub = <<>> /\ live = "up"
     /\ \A v \in missed : v <= newest
     /\ status.version = newest) =>
        /\ status.active = active
        /\ active => status.inPort = conn
        /\ labeling # NoLabel /\ active => status.label = labeling
=============================================================================
