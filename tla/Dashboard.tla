------------------------------ MODULE Dashboard ------------------------------
(***************************************************************************)
(* The web dashboard's live copy of the daemon's settings                  *)
(* (web/app/usePolyclav.ts over web/lib/useSSE.ts): knobs are shown at     *)
(* once and sent later, the daemon's answers come back on an event stream  *)
(* that may drop, and an edit in progress hides them for a while.          *)
(***************************************************************************)
EXTENDS PedalWiring, Sequences

CONSTANTS
    Knobs,      \* the knobs of the instance, ids of PARAM_WIRING
    Patches,    \* names of patches
    Levels,     \* the engine values a knob takes, 0 among them
    SubCap,     \* events the hub keeps for one slow subscriber
    MaxOps,     \* bound on what users and other clients do
    Faults      \* what may go wrong, among AllFaults

AllFaults == {"request lost", "select refused", "load failed", "stream lost",
              "other client", "hasty user"}

NoPatch == "no patch"

ASSUME KnobsAssumption == Knobs \subseteq WiredIds
ASSUME PatchesAssumption == Patches # {} /\ NoPatch \notin Patches
ASSUME LevelsAssumption == Levels \subseteq Nat /\ 0 \in Levels
ASSUME BoundsAssumption == SubCap \in Nat \ {0} /\ MaxOps \in Nat
ASSUME FaultsAssumption == Faults \subseteq AllFaults

VARIABLES
    shown,      \* chainValues: what each knob shows, in display units
    enabled,    \* the bypass map of the pedals
    current,    \* the patch the page shows as selected
    guard,      \* knobs whose echoes are ignored for now
    pending,    \* edits waiting for the debounce: value, and patch edited
    timer,      \* the debounce timer is armed
    conn,       \* the event stream: "down", "subscribed" or "live"
    stream,     \* events on their way to the page
    seed,       \* GET /api/chain: "idle", "asked" or "read", and its answer
    net,        \* requests on their way to the daemon, in no order
    reg,        \* the daemon's registry: current, active, loading
    stored,     \* the daemon's values, per patch; a global one is in each
    stageOn,    \* the daemon's stage enables, per patch
    behind,     \* what the page was never told, or was told and ignored
    overtaken,  \* knobs and pedals told of since seed was read
    reseeded,   \* a snapshot moved current under a queued edit
    ops

page == <<shown, enabled, current, guard, pending, timer>>
link == <<conn, stream, seed>>
daemon == <<reg, stored, stageOn>>
told == <<behind, overtaken, reseeded>>
dashVars == <<page, link, net, daemon, told, ops>>

Endpoint(i) == PARAM_WIRING[i].endpoint
GlobalKnobs == {i \in Knobs : Endpoint(i) = "mastering"}
PatchKnobs == Knobs \ GlobalKnobs
ChainKnobs == {i \in Knobs : Endpoint(i) = "chain"}
StatusKnobs == Knobs \ ChainKnobs

Pedals == {PedalOf(i) : i \in Knobs} \cap DOMAIN ORDER_STAGE
StagePedals == Pedals \cap DOMAIN STAGE_ENABLE
SoftOnes == Pedals \cap SoftPedals

Nothing == [i \in {} |-> 0]
Empty == pending = Nothing

NoSeed == [state |-> "idle", values |-> Nothing, stages |-> Nothing]

\* A pedal without an enable that is stomped off: its knobs are at 0 in the
\* engine, and the page keeps what they were.
Parked == {i \in Knobs : PedalOf(i) \in SoftOnes /\ ~enabled[PedalOf(i)]}

Everything == Knobs \cup StagePedals \cup {"current"}

Live(i) == stored[reg.current][i]

----------------------------------------------------------------------------
\* Requests and events.

SetRequest(i, v) == [kind |-> "set", knob |-> i, value |-> v]
EnableRequest(p, on) == [kind |-> "enable", pedal |-> p, on |-> on]
SelectRequest(q) == [kind |-> "select", name |-> q]

ValueEvent(i, v) == [kind |-> "value", values |-> [j \in {i} |-> v]]
EnableEvent(p, on) == [kind |-> "enable", stages |-> [s \in {p} |-> on]]
\* What a select publishes: the new patch and all that is stored for it.
PatchEvent(q) ==
    [kind |-> "patch", name |-> q,
     values |-> [i \in PatchKnobs |-> stored[q][i]], stages |-> stageOn[q]]
\* What the end of a load publishes: a patch event without any data. Only the
\* bookkeeping of this module knows what it is about.
BareEvent(about) == [kind |-> "bare", about |-> about]
Snapshot ==
    [kind |-> "snapshot", name |-> reg.current,
     values |-> [i \in StatusKnobs |-> Live(i)], about |-> {}]

Subject(e) ==
    CASE e.kind = "value"  -> DOMAIN e.values
      [] e.kind = "enable" -> DOMAIN e.stages
      [] e.kind = "patch"  -> PatchKnobs \cup StagePedals \cup {"current"}
      [] e.kind = "bare"   -> e.about

\* The snapshot is already written to the stream: the hub only holds and
\* drops the events behind it.
Seeded == stream # <<>> /\ Head(stream).kind = "snapshot"
Queue == IF Seeded THEN Tail(stream) ELSE stream
Full == Len(Queue) = SubCap

\* What the subscription loses when an event is published: the event itself
\* without a stream, the oldest one when it is full.
Unheard(e) ==
    IF conn = "down" THEN Subject(e)
    ELSE IF Full THEN Subject(Head(Queue)) ELSE {}

\* Anything told of after the seed was read makes the seed old for it.
Overtake(items) ==
    overtaken' = IF seed.state = "read" THEN overtaken \cup items ELSE {}

\* Publish drops the oldest event of a full subscription. A snapshot not yet
\* taken is older than what was dropped behind it.
Announce(e) ==
    LET kept == IF Full THEN Tail(Queue) ELSE Queue
        snapshot == IF Seeded
                    THEN <<[Head(stream) EXCEPT !.about = @ \cup Unheard(e)]>>
                    ELSE <<>>
    IN  /\ stream' = IF conn = "down" THEN stream
                     ELSE snapshot \o Append(kept, e)
        /\ behind' = behind \cup Unheard(e)
        /\ Overtake(Unheard(e))

----------------------------------------------------------------------------
DashInit ==
    /\ shown = [i \in Knobs |-> 0]
    /\ enabled = [p \in Pedals |-> TRUE]
    /\ current = NoPatch
    /\ guard = {} /\ pending = Nothing /\ timer = FALSE
    /\ conn = "down" /\ stream = <<>> /\ seed = NoSeed
    /\ net = {}
    /\ \E first \in Patches :
          /\ reg = [current |-> first, active |-> first, loading |-> FALSE]
          /\ stored = [q \in Patches |-> [i \in Knobs |->
                IF q = first \/ i \in GlobalKnobs
                THEN CHOOSE v \in Levels : \A w \in Levels : w <= v ELSE 0]]
          /\ stageOn = [q \in Patches |-> [p \in StagePedals |-> q = first]]
    /\ behind = Everything /\ overtaken = {} /\ reseeded = FALSE
    /\ ops = 0

Spend == ops < MaxOps /\ ops' = ops + 1

----------------------------------------------------------------------------
\* The user's hands on the page.

\* A knob is turned: shown at once, guarded, and queued under a fresh timer.
SetParam(i, v) ==
    /\ Spend
    /\ guard' = guard \cup {i}
    /\ shown' = [shown EXCEPT ![i] = v]
    /\ pending' = [j \in DOMAIN pending \cup {i} |->
                      IF j = i THEN [value |-> v, of |-> current] ELSE pending[j]]
    /\ timer' = TRUE
    /\ UNCHANGED <<enabled, current, link, net, daemon, told>>

\* The debounce ends: one request a knob, except for knobs of a pedal that is
\* bypassed by the page, whose edits are dropped.
Flush ==
    /\ timer
    /\ net' = net \cup {SetRequest(i, ToEngine(i, pending[i].value)) :
                           i \in DOMAIN pending \ Parked}
    /\ behind' = behind \cup (DOMAIN pending \cap Parked)
    /\ pending' = Nothing /\ timer' = FALSE
    /\ reseeded' = FALSE
    /\ UNCHANGED <<shown, enabled, current, guard, link, daemon, overtaken,
                   ops>>

\* A CancelPending that stops the timer only.
CancelPending_TimerOnly == UNCHANGED pending /\ timer' = FALSE

\* Edits still queued at a switch are dropped with their timer.
CancelPending == pending' = Nothing /\ timer' = FALSE

\* A SelectPatch that leaves the queued edits to the timer.
SelectPatch_KeepEdits(q) ==
    /\ Spend
    /\ current' = q
    /\ net' = net \cup {SelectRequest(q)}
    /\ reseeded' = FALSE
    /\ UNCHANGED <<shown, enabled, guard, pending, timer, link, daemon, behind,
                   overtaken>>

SelectPatch(q) ==
    /\ Spend
    /\ CancelPending
    /\ current' = q
    /\ net' = net \cup {SelectRequest(q)}
    /\ behind' = behind \cup DOMAIN pending
    /\ reseeded' = FALSE
    /\ UNCHANGED <<shown, enabled, guard, link, daemon, overtaken>>

\* A stomp. The engine bypasses a stage itself; for the others the page sends
\* zeros, and what the knobs show when the pedal is engaged again.
TogglePedal(p) ==
    LET on == ~enabled[p] IN
    /\ Spend
    /\ enabled' = [enabled EXCEPT ![p] = on]
    /\ net' = net \cup
          IF p \in StagePedals THEN {EnableRequest(p, on)}
          ELSE {IF on THEN SetRequest(i, ToEngine(i, shown[i])) ELSE SetRequest(i, 0) :
                   i \in SOFT_BYPASS_PARAMS[p] \cap Knobs}
    /\ UNCHANGED <<shown, current, guard, pending, timer, link, daemon, told>>

\* The guard of a knob ends half a second after its last edit.
GuardExpires(i) ==
    /\ guard' = guard \ {i}
    /\ UNCHANGED <<shown, enabled, current, pending, timer, link, net, daemon,
                   told, ops>>

----------------------------------------------------------------------------
\* What the page makes of the values it is told: those in skip are ignored.

Take(values, skip) ==
    shown' = [i \in Knobs |->
                 IF i \in DOMAIN values \ skip
                 THEN FromEngine(i, values[i]) ELSE shown[i]]

Ignored(values, skip) ==
    {i \in DOMAIN values \cap skip : FromEngine(i, values[i]) # shown[i]}

Stages(stages) ==
    [p \in Pedals |-> IF p \in DOMAIN stages THEN stages[p] ELSE enabled[p]]

Receive(kind) ==
    /\ conn = "live" /\ stream # <<>> /\ Head(stream).kind = kind
    /\ stream' = Tail(stream)
    /\ UNCHANGED <<conn, seed, net, daemon, ops>>

ReceiveValue ==
    LET values == Head(stream).values
        skip == guard \cup Parked
    IN  /\ Receive("value")
        /\ Take(values, skip)
        /\ behind' = (behind \ DOMAIN values) \cup Ignored(values, skip)
        /\ Overtake(DOMAIN values)
        /\ UNCHANGED <<enabled, current, guard, pending, timer, reseeded>>

ReceiveEnable ==
    /\ Receive("enable")
    /\ enabled' = Stages(Head(stream).stages)
    /\ behind' = behind \ DOMAIN Head(stream).stages
    /\ Overtake(DOMAIN Head(stream).stages)
    /\ UNCHANGED <<shown, current, guard, pending, timer, reseeded>>

\* A ReceivePatch that still spares the knobs being turned.
ReceivePatch_Guarded ==
    LET e == Head(stream) IN
    /\ Receive("patch")
    /\ current' = e.name
    /\ guard' = {}
    /\ CancelPending
    /\ enabled' = [p \in Pedals |->
                      IF p \in SoftOnes THEN TRUE ELSE Stages(e.stages)[p]]
    /\ Take(e.values, guard)
    /\ behind' = (behind \cup DOMAIN pending) \ Subject(e)
    /\ Overtake(Subject(e))
    /\ reseeded' = FALSE

\* A switch: queued edits and guards go, the pedals the page had bypassed are
\* engaged again, and everything the event carries is taken.
ReceivePatch ==
    LET e == Head(stream) IN
    /\ Receive("patch")
    /\ current' = e.name
    /\ guard' = {}
    /\ CancelPending
    /\ enabled' = [p \in Pedals |->
                      IF p \in SoftOnes THEN TRUE ELSE Stages(e.stages)[p]]
    /\ Take(e.values, {})
    /\ behind' = (behind \cup DOMAIN pending) \ Subject(e)
    /\ Overtake(Subject(e))
    /\ reseeded' = FALSE

\* The handler fails on an event without data before it has done anything.
ReceiveBare ==
    /\ Receive("bare")
    /\ behind' = behind \cup Head(stream).about
    /\ Overtake(Head(stream).about)
    /\ UNCHANGED <<page, reseeded>>

ReceiveSnapshot ==
    LET e == Head(stream) IN
    /\ Receive("snapshot")
    /\ current' = e.name
    /\ Take(e.values, guard)
    /\ behind' = (behind \ (DOMAIN e.values \cup {"current"}))
                    \cup Ignored(e.values, guard) \cup e.about
    /\ Overtake(DOMAIN e.values)
    /\ reseeded' = (reseeded \/ (current # e.name /\ ~Empty))
    /\ UNCHANGED <<enabled, guard, pending, timer>>

----------------------------------------------------------------------------
\* The stream and the seed of the chain.

\* EventSource reconnects by itself, or is made anew two seconds after it gave
\* up; the daemon subscribes first and then writes the snapshot.
Connect ==
    /\ conn = "down"
    /\ conn' = "subscribed"
    /\ UNCHANGED <<page, stream, seed, net, daemon, told, ops>>

\* The page learns that it is connected and asks for the chain.
SendSnapshot ==
    /\ conn = "subscribed"
    /\ conn' = "live"
    /\ stream' = <<Snapshot>> \o stream
    /\ seed' = [NoSeed EXCEPT !.state = "asked"]
    /\ UNCHANGED <<page, net, daemon, told, ops>>

\* What is said while the stream is down is not heard, and an answer to the
\* chain's question is no longer waited for.
StreamLost ==
    /\ "stream lost" \in Faults /\ Spend
    /\ conn # "down"
    /\ conn' = "down" /\ stream' = <<>> /\ seed' = NoSeed
    /\ behind' = Everything /\ overtaken' = {}
    /\ UNCHANGED <<page, net, daemon, reseeded>>

SeedRead ==
    /\ seed.state = "asked"
    /\ seed' = [state |-> "read", values |-> [i \in ChainKnobs |-> Live(i)],
                stages |-> stageOn[reg.current]]
    /\ UNCHANGED <<page, conn, stream, net, daemon, told, ops>>

SeedApply ==
    LET about == ChainKnobs \cup StagePedals IN
    /\ seed.state = "read"
    /\ Take(seed.values, guard)
    /\ enabled' = Stages(seed.stages)
    /\ behind' = (behind \ about) \cup Ignored(seed.values, guard)
                    \cup (overtaken \cap about)
    /\ seed' = NoSeed /\ overtaken' = {}
    /\ UNCHANGED <<current, guard, pending, timer, conn, stream, net, daemon,
                   reseeded, ops>>

\* A question without an answer, from an older daemon or on an error, leaves
\* the page with what it shows.
SeedFails ==
    /\ "request lost" \in Faults
    /\ seed.state = "asked"
    /\ seed' = NoSeed
    /\ UNCHANGED <<page, conn, stream, net, daemon, told, ops>>

----------------------------------------------------------------------------
\* The daemon: what any client asks for is stored, and told to all.

Put(table, i, v) ==
    [q \in Patches |-> IF q = reg.current \/ i \in GlobalKnobs
                       THEN [table[q] EXCEPT ![i] = v] ELSE table[q]]

DaemonSet(i, v) ==
    /\ stored' = Put(stored, i, v)
    /\ Announce(ValueEvent(i, v))
    /\ UNCHANGED <<reg, stageOn>>

DaemonEnable(p, on) ==
    /\ stageOn' = [stageOn EXCEPT ![reg.current][p] = on]
    /\ Announce(EnableEvent(p, on))
    /\ UNCHANGED <<reg, stored>>

DaemonSelect(q) ==
    /\ reg' = [reg EXCEPT !.current = q, !.loading = TRUE]
    /\ Announce(PatchEvent(q))
    /\ UNCHANGED <<stored, stageOn>>

DaemonStep == UNCHANGED <<page, conn, seed, reseeded>>

Serve(m) ==
    /\ net' = net \ {m}
    /\ \/ m.kind = "set" /\ DaemonSet(m.knob, m.value)
       \/ m.kind = "enable" /\ DaemonEnable(m.pedal, m.on)
       \/ m.kind = "select" /\ DaemonSelect(m.name)
    /\ DaemonStep /\ UNCHANGED ops

\* Neither a failed fetch nor an error answer changes what the page shows.
Unserved(m) ==
    /\ net' = net \ {m}
    /\ \/ "request lost" \in Faults
       \/ "select refused" \in Faults /\ m.kind = "select"
    /\ behind' = behind \cup
          CASE m.kind = "set" -> {m.knob}
            [] m.kind = "enable" -> {m.pedal}
            [] m.kind = "select" -> {"current"}
    /\ UNCHANGED <<stream, daemon, overtaken, ops>> /\ DaemonStep

LoadActive ==
    /\ reg.loading
    /\ reg' = [reg EXCEPT !.active = reg.current, !.loading = FALSE]
    /\ Announce(BareEvent({}))
    /\ UNCHANGED <<net, stored, stageOn, ops>> /\ DaemonStep

\* The registry goes back to the patch that sounds; the event does not say so.
LoadFails ==
    /\ "load failed" \in Faults
    /\ reg.loading
    /\ reg' = [reg EXCEPT !.current = reg.active, !.loading = FALSE]
    /\ Announce(BareEvent(PatchKnobs \cup StagePedals \cup {"current"}))
    /\ UNCHANGED <<net, stored, stageOn, ops>> /\ DaemonStep

\* Another browser, or the keyboard's own knobs and pads.
OtherClient ==
    /\ "other client" \in Faults /\ Spend
    /\ \/ \E i \in Knobs, v \in Levels : DaemonSet(i, v)
       \/ \E p \in StagePedals, on \in BOOLEAN : DaemonEnable(p, on)
       \/ \E q \in Patches : DaemonSelect(q)
    /\ UNCHANGED net /\ DaemonStep

----------------------------------------------------------------------------
\* Nothing is under way between the page and the daemon.
Settled ==
    /\ Empty /\ net = {} /\ stream = <<>> /\ conn = "live"
    /\ seed.state = "idle" /\ ~reg.loading

\* Only a hasty user acts before what was done last has settled.
User ==
    /\ "hasty user" \in Faults \/ Settled
    /\ \/ \E i \in Knobs, v \in Levels : SetParam(i, FromEngine(i, v))
       \/ \E q \in Patches : SelectPatch(q)
       \/ \E p \in Pedals : TogglePedal(p)

HandleEvent ==
    \/ ReceiveValue \/ ReceiveEnable \/ ReceivePatch
    \/ ReceiveBare \/ ReceiveSnapshot

ServeSome == \E m \in net : Serve(m)

GuardExpiresSome == \E i \in guard : GuardExpires(i)

LoadEnds == LoadActive \/ LoadFails

SeedStep == SeedRead \/ SeedApply

DashNext ==
    \/ User \/ Flush \/ GuardExpiresSome
    \/ HandleEvent
    \/ Connect \/ SendSnapshot \/ StreamLost \/ SeedStep \/ SeedFails
    \/ ServeSome \/ (\E m \in net : Unserved(m))
    \/ LoadEnds \/ OtherClient

\* Timers fire, the browser delivers and reconnects, and the daemon answers
\* and loads; nobody has to touch a knob.
DashFairness ==
    /\ WF_dashVars(Flush) /\ WF_dashVars(HandleEvent)
    /\ WF_dashVars(Connect) /\ WF_dashVars(SendSnapshot)
    /\ WF_dashVars(SeedStep) /\ WF_dashVars(ServeSome)
    /\ WF_dashVars(LoadEnds) /\ WF_dashVars(GuardExpiresSome)

DashSpec == DashInit /\ [][DashNext]_dashVars /\ DashFairness

----------------------------------------------------------------------------
\* A queued edit was made under the patch the page shows: a switch, the user's
\* or anyone's, never leaves an edit of the old patch to be sent to the new
\* one. (A snapshot after a reconnect may; it drops nothing.)
PendingIsCurrent ==
    \A i \in DOMAIN pending : pending[i].of = current \/ reseeded

\* Once nothing is under way, the page shows what the daemon has, knob by knob
\* and pedal by pedal, except for what was lost, or ignored while a guard or a
\* bypass hid it, or read before something newer was told.
DashboardAgrees ==
    Settled =>
        /\ \A i \in Knobs \ behind : shown[i] = FromEngine(i, Live(i))
        /\ \A p \in StagePedals \ behind : enabled[p] = stageOn[reg.current][p]
        /\ "current" \in behind \/ current = reg.current

\* When everyone leaves the page alone it comes to rest: every queued edit is
\* sent or dropped, a lost stream is found again, every event is taken.
PageSettles == <>[]Settled

----------------------------------------------------------------------------
\* What the page is said to do, and does not.

\* At rest the page names the patch the daemon has selected, also after a
\* load that failed.
CurrentAgrees == Settled => current = reg.current

=============================================================================
