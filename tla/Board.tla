-------------------------------- MODULE Board --------------------------------
(***************************************************************************)
(* The pedalboard screen (web/components/pedalboard/): pedals are dragged  *)
(* or nudged into an order that the daemon applies to the signal chain,    *)
(* knobs are dragged, wheeled and stepped, a strip folds or opens in the   *)
(* editor.                                                                 *)
(***************************************************************************)
EXTENDS ParamModel, PedalWiring

CONSTANTS
    BoardPedals,  \* the pedals of the instance, in their default order
    BoardKnobs,   \* the knobs of the instance, ids of SPECS
    Heights,      \* how far a pointer is above where it pressed, in px
    Foreign,      \* texts that something dragged in from elsewhere may carry,
                  \* no pedal's id among them
    BoardOps      \* bound on what the user does

NoPedal == "no pedal"

ASSUME BoardPedalsAssumption ==
    /\ BoardPedals \in Seq(DOMAIN ORDER_STAGE)
    /\ \A i, j \in DOMAIN BoardPedals : BoardPedals[i] = BoardPedals[j] => i = j
ASSUME BoardKnobsAssumption == BoardKnobs \subseteq DOMAIN SPECS
ASSUME ForeignAssumption == Foreign \cap DOMAIN ORDER_STAGE = {}
ASSUME HeightsAssumption == Heights \subseteq Int /\ 0 \in Heights
ASSUME BoardOpsAssumption == BoardOps \in Nat

VARIABLES
    order,       \* the pedals from left to right, as the page has them
    dragId,      \* the strip whose top bar is dragged, or NoPedal
    over,        \* the strip the pointer is over, and on its right half?
    fxOrder,     \* the daemon's stored order, in the engine's names
    orderNet,    \* orders on their way to the daemon
    orderEvents, \* orders the daemon has announced, on their way to the page
    orderUp,     \* the page's stream is up
    chainGet,    \* the GET of the connection: "none", "asked", or "read" and its order
    untold,      \* the newest word on the order did not reach the page
    overtaken,   \* the order changed after the answer on its way was read
    collapsed,   \* the strips folded to their names
    editId,      \* the pedal open in the editor, or NoPedal
    knobValue,   \* what the knobs show
    held,        \* the knob being dragged, if any, and from where
    boardOps

strips == <<order, dragId, over>>
orderLink == <<orderNet, orderEvents, orderUp, chainGet>>
sync == <<fxOrder, orderLink, untold, overtaken>>
view == <<collapsed, editId>>
knobs == <<knobValue, held>>
boardVars == <<strips, sync, view, knobs, boardOps>>

Known == {BoardPedals[i] : i \in DOMAIN BoardPedals}
Nowhere == [strip |-> NoPedal, right |-> FALSE]

----------------------------------------------------------------------------
\* Orders of pedals (order.ts).

\* What a filter keeps of ps: its elements at the places I, in their order.
Nth(I, k) == CHOOSE i \in I : Cardinality({j \in I : j < i}) = k - 1
Kept(ps, I) == [k \in 1..Cardinality(I) |-> ps[Nth(I, k)]]

Without(ps, p) == Kept(ps, {i \in DOMAIN ps : ps[i] # p})
Place(ps, p) == CHOOSE i \in DOMAIN ps : ps[i] = p
InsertAt(ps, i, p) == SubSeq(ps, 1, i - 1) \o <<p>> \o SubSeq(ps, i, Len(ps))
Occurs(p, ps) == \E i \in DOMAIN ps : ps[i] = p

\* A moveRelative that looks the target up before the pedal is taken out.
MoveRelative_Stale(ps, p, target, after) ==
    LET at == Place(ps, target) + (IF after THEN 1 ELSE 0) IN
    IF p = target \/ ~Occurs(target, ps) THEN ps
    ELSE InsertAt(Without(ps, p), IF at > Len(ps) THEN Len(ps) ELSE at, p)

MoveRelative(ps, p, target, after) ==
    LET rest == Without(ps, p) IN
    IF p = target \/ ~Occurs(target, rest) THEN ps
    ELSE InsertAt(rest, Place(rest, target) + (IF after THEN 1 ELSE 0), p)

MoveBy(ps, p, delta) ==
    LET from == Place(ps, p)
        to == IF from + delta < 1 THEN 1
              ELSE IF from + delta > Len(ps) THEN Len(ps) ELSE from + delta
    IN  IF to = from THEN ps ELSE InsertAt(Without(ps, p), to, p)

Unmentioned(ps) ==
    Kept(BoardPedals, {i \in DOMAIN BoardPedals : ~Occurs(BoardPedals[i], ps)})

\* A NormalizeOrder that believes whatever names it is given.
NormalizeOrder_Trusting(ps) == ps \o Unmentioned(ps)

\* Known pedals once each, in the order given; those not mentioned at the end.
Firsts(ps) ==
    {i \in DOMAIN ps : ps[i] \in Known /\ \A j \in 1..(i - 1) : ps[j] # ps[i]}

NormalizeOrder(ps) == Kept(ps, Firsts(ps)) \o Unmentioned(ps)

ToStages(ps) ==
    [i \in DOMAIN ps |-> IF ps[i] \in DOMAIN ORDER_STAGE
                         THEN ORDER_STAGE[ps[i]] ELSE ps[i]]
ToPedals(ss) ==
    [i \in DOMAIN ss |-> IF ss[i] \in DOMAIN ORDER_PEDAL
                         THEN ORDER_PEDAL[ss[i]] ELSE ss[i]]

\* The daemon takes nothing but a permutation of its stages.
ValidFxOrder(ss) ==
    /\ Len(ss) = Len(BoardPedals)
    /\ {ss[i] : i \in DOMAIN ss} = {ORDER_STAGE[p] : p \in Known}

FxOrders ==
    {ss \in [DOMAIN BoardPedals -> {ORDER_STAGE[p] : p \in Known}] : ValidFxOrder(ss)}

----------------------------------------------------------------------------
\* Knobs (knobMath.ts), in hundredths.

Clamp(v, min, max) == IF v < min THEN min ELSE IF v > max THEN max ELSE v
Span(k) == SPECS[k].max - SPECS[k].min
InSpec(k, v) == Clamp(v, SPECS[k].min, SPECS[k].max)

\* 200 px sweep the whole range, five times as many with Shift.
DragValue(k, start, dy, fine) ==
    InSpec(k, start + (dy * Span(k)) \div (IF fine THEN 1000 ELSE 200))
WheelStep(k, up, fine) ==
    LET step == Span(k) \div (IF fine THEN 500 ELSE 100)
    IN  InSpec(k, knobValue[k] + (IF up THEN step ELSE -step))
KeyStep(k, dir, fine) ==
    InSpec(k, knobValue[k] + dir * (Span(k) \div (IF fine THEN 500 ELSE 100)))

Turns(k) ==
    {WheelStep(k, up, fine) : up \in BOOLEAN, fine \in BOOLEAN}
    \cup {KeyStep(k, dir, fine) : dir \in {1, -1}, fine \in BOOLEAN}
    \cup {SPECS[k].default}

NotHeld == [knob |-> NoPedal]

ChainGet(step, ss) == [step |-> step, order |-> ss]
NoGet == ChainGet("none", <<>>)

----------------------------------------------------------------------------
BoardInit ==
    /\ order = BoardPedals /\ fxOrder \in FxOrders
    /\ dragId = NoPedal /\ over = Nowhere
    /\ orderNet = {} /\ orderEvents = <<>> /\ orderUp = FALSE /\ chainGet = NoGet
    /\ untold = TRUE /\ overtaken = FALSE
    /\ collapsed = {} /\ editId = NoPedal
    /\ knobValue = [k \in BoardKnobs |-> SPECS[k].default]
    /\ held = NotHeld
    /\ boardOps = 0

BoardSpend == boardOps < BoardOps /\ boardOps' = boardOps + 1

OnBoard == editId = NoPedal

\* The order asked for is shown at once and sent in the engine's names.
Reorder(ps) ==
    /\ order' = NormalizeOrder(ps)
    /\ orderNet' = orderNet \cup {ToStages(NormalizeOrder(ps))}
    /\ UNCHANGED <<fxOrder, orderEvents, orderUp, chainGet, untold, overtaken>>

DragStart(p) ==
    /\ OnBoard /\ BoardSpend
    /\ dragId = NoPedal
    /\ dragId' = p
    /\ UNCHANGED <<order, over, sync, view, knobs>>

\* Also what is dragged in from elsewhere is let over the strips.
DragOver(p, right) ==
    /\ OnBoard /\ over # [strip |-> p, right |-> right]
    /\ over' = [strip |-> p, right |-> right]
    /\ UNCHANGED <<order, dragId, sync, view, knobs, boardOps>>

DragLeave ==
    /\ over # Nowhere
    /\ over' = Nowhere
    /\ UNCHANGED <<order, dragId, sync, view, knobs, boardOps>>

\* What is dropped is the strip that was dragged or, without one, whatever
\* text the drop carries.
Drop ==
    /\ OnBoard /\ over # Nowhere /\ BoardSpend
    /\ \E from \in IF dragId # NoPedal THEN {dragId} ELSE Foreign :
          IF from = "" THEN UNCHANGED <<order, sync>>
          ELSE Reorder(MoveRelative(order, from, over.strip, over.right))
    /\ dragId' = NoPedal /\ over' = Nowhere
    /\ UNCHANGED <<view, knobs>>

DragEnd ==
    /\ dragId # NoPedal
    /\ dragId' = NoPedal /\ over' = Nowhere
    /\ UNCHANGED <<order, sync, view, knobs, boardOps>>

Nudge(p, dir) ==
    /\ OnBoard /\ BoardSpend
    /\ Reorder(MoveBy(order, p, dir))
    /\ UNCHANGED <<dragId, over, view, knobs>>

\* The daemon stores an order, pushes it and announces it, to a page whose
\* stream is up.
Announce(ss) ==
    /\ fxOrder' = ss
    /\ orderEvents' = IF orderUp THEN Append(orderEvents, ss) ELSE orderEvents
    /\ untold' = (untold \/ ~orderUp)
    /\ overtaken' = (chainGet.step = "read")

\* It takes a valid order only; its handlers take turns, in whatever order the
\* requests come in.
TakeOrder(ss) ==
    /\ orderNet' = orderNet \ {ss}
    /\ \/ ValidFxOrder(ss) /\ Announce(ss)
       \/ /\ ~ValidFxOrder(ss)
          /\ untold' = TRUE
          /\ UNCHANGED <<fxOrder, orderEvents, overtaken>>
    /\ UNCHANGED <<strips, orderUp, chainGet, view, knobs, boardOps>>

\* The request fails or is refused: the page goes on showing what it asked for.
OrderLost(ss) ==
    /\ orderNet' = orderNet \ {ss}
    /\ untold' = TRUE
    /\ UNCHANGED <<strips, fxOrder, orderEvents, orderUp, chainGet, overtaken, view, knobs,
                   boardOps>>

\* Another page reorders the pedals.
OtherReorder(ss) ==
    /\ BoardSpend
    /\ Announce(ss)
    /\ UNCHANGED <<strips, orderNet, orderUp, chainGet, view, knobs>>

HearOrder ==
    /\ orderEvents # <<>>
    /\ orderEvents' = Tail(orderEvents)
    /\ order' = NormalizeOrder(ToPedals(Head(orderEvents)))
    /\ untold' = FALSE
    /\ UNCHANGED <<dragId, over, fxOrder, orderNet, orderUp, chainGet, overtaken, view, knobs,
                   boardOps>>

\* Changes of any other kind fill the hub's queue, which drops its oldest.
OrderDropped ==
    /\ orderEvents # <<>>
    /\ orderEvents' = Tail(orderEvents)
    /\ untold' = (untold \/ orderEvents' = <<>>)
    /\ UNCHANGED <<strips, fxOrder, orderNet, orderUp, chainGet, overtaken, view, knobs,
                   boardOps>>

\* The stream is lost with what was on it, and with the answer not yet here.
\* Its snapshot says nothing of the order: when it is back the page asks.
BoardStreamLost ==
    /\ orderUp
    /\ orderUp' = FALSE /\ orderEvents' = <<>> /\ chainGet' = NoGet
    /\ untold' = (untold \/ orderEvents # <<>>) /\ overtaken' = FALSE
    /\ UNCHANGED <<strips, fxOrder, orderNet, view, knobs, boardOps>>

BoardStreamBack ==
    /\ ~orderUp
    /\ orderUp' = TRUE /\ chainGet' = ChainGet("asked", <<>>)
    /\ UNCHANGED <<strips, fxOrder, orderNet, orderEvents, untold, overtaken, view, knobs,
                   boardOps>>

ReadChain ==
    /\ chainGet.step = "asked"
    /\ chainGet' = ChainGet("read", fxOrder)
    /\ UNCHANGED <<strips, fxOrder, orderNet, orderEvents, orderUp, untold, overtaken, view,
                   knobs, boardOps>>

\* The answer overwrites whatever the page shows by then.
HearChain ==
    /\ chainGet.step = "read"
    /\ chainGet' = NoGet
    /\ order' = NormalizeOrder(ToPedals(chainGet.order))
    /\ untold' = overtaken /\ overtaken' = FALSE
    /\ UNCHANGED <<dragId, over, fxOrder, orderNet, orderEvents, orderUp, view, knobs,
                   boardOps>>

ChainFails ==
    /\ chainGet # NoGet
    /\ chainGet' = NoGet /\ overtaken' = FALSE
    /\ UNCHANGED <<strips, fxOrder, orderNet, orderEvents, orderUp, untold, view, knobs,
                   boardOps>>

----------------------------------------------------------------------------
\* A click on a strip, or Enter on it: a folded one unfolds, any other opens
\* in the editor. The board goes, and takes its drags and folds with it.
Activate(p) ==
    /\ OnBoard /\ BoardSpend
    /\ IF p \in collapsed
       THEN /\ collapsed' = collapsed \ {p}
            /\ UNCHANGED <<dragId, over, editId, held>>
       ELSE /\ editId' = p
            /\ collapsed' = {} /\ dragId' = NoPedal /\ over' = Nowhere
            /\ held' = NotHeld
    /\ UNCHANGED <<order, sync, knobValue>>

ToggleCollapse(p) ==
    /\ OnBoard /\ BoardSpend
    /\ collapsed' = (collapsed \ {p}) \cup ({p} \ collapsed)
    /\ UNCHANGED <<strips, sync, editId, knobs>>

GoBoard ==
    /\ editId # NoPedal
    /\ editId' = NoPedal /\ held' = NotHeld
    /\ UNCHANGED <<strips, sync, collapsed, knobValue, boardOps>>

\* The pedal's own knobs, not the global ones its editor may show with them.
ResetPedal ==
    /\ editId # NoPedal /\ BoardSpend
    /\ knobValue' = [k \in BoardKnobs |->
                        IF k \in DOMAIN CHAIN[editId] THEN SPECS[k].default
                        ELSE knobValue[k]]
    /\ held' = IF held # NotHeld THEN [held EXCEPT !.nudged = TRUE] ELSE held
    /\ UNCHANGED <<strips, sync, view>>

\* The knobs within reach: those of the strips that are not folded and of the
\* master card, or those of the pedal in the editor.
InReach(k) ==
    IF OnBoard
    THEN \/ k \in DOMAIN MASTER_PARAMS
         \/ \E p \in Known \ collapsed : k \in DOMAIN CHAIN[p]
    ELSE \/ k \in DOMAIN CHAIN[editId]
         \/ editId = "comp" /\ k \in DOMAIN MASTER_COMP_PARAMS

PointerDown(k) ==
    /\ InReach(k) /\ BoardSpend
    /\ held = NotHeld
    /\ held' = [knob |-> k, start |-> knobValue[k], y |-> 0, nudged |-> FALSE]
    /\ UNCHANGED <<strips, sync, view, knobValue>>

\* A PointerMove that steps from what the knob shows.
PointerMove_Step(y, fine) ==
    /\ held # NotHeld /\ y # held.y
    /\ held' = [held EXCEPT !.y = y]
    /\ knobValue' = [knobValue EXCEPT ![held.knob] =
                        DragValue(held.knob, @, y - held.y, fine)]
    /\ UNCHANGED <<strips, sync, view, boardOps>>

\* The value follows the pointer from where both were at the press.
PointerMove(y, fine) ==
    /\ held # NotHeld /\ y # held.y
    /\ held' = [held EXCEPT !.y = y, !.nudged = FALSE]
    /\ knobValue' = [knobValue EXCEPT ![held.knob] =
                        DragValue(held.knob, held.start, y, fine)]
    /\ UNCHANGED <<strips, sync, view, boardOps>>

PointerUp ==
    /\ held # NotHeld
    /\ held' = NotHeld
    /\ UNCHANGED <<strips, sync, view, knobValue, boardOps>>

\* The wheel, an arrow key or a double click, on any knob at any time.
Turn(k) ==
    /\ InReach(k) /\ BoardSpend
    /\ \E v \in Turns(k) : knobValue' = [knobValue EXCEPT ![k] = v]
    /\ held' = IF held.knob = k THEN [held EXCEPT !.nudged = TRUE] ELSE held
    /\ UNCHANGED <<strips, sync, view>>

----------------------------------------------------------------------------
BoardNext ==
    \/ \E p \in Known : DragStart(p) \/ Activate(p) \/ ToggleCollapse(p)
    \/ \E p \in Known, right \in BOOLEAN : DragOver(p, right)
    \/ \E p \in Known, dir \in {1, -1} : Nudge(p, dir)
    \/ DragLeave \/ Drop \/ DragEnd
    \/ (\E ss \in orderNet : TakeOrder(ss) \/ OrderLost(ss)) \/ HearOrder
    \/ (\E ss \in FxOrders : OtherReorder(ss)) \/ OrderDropped
    \/ BoardStreamLost \/ BoardStreamBack \/ ReadChain \/ HearChain \/ ChainFails
    \/ GoBoard \/ ResetPedal
    \/ \E k \in BoardKnobs : PointerDown(k) \/ Turn(k)
    \/ \E y \in Heights, fine \in BOOLEAN : PointerMove(y, fine)
    \/ PointerUp

BoardSpec == BoardInit /\ [][BoardNext]_boardVars

----------------------------------------------------------------------------
Permutation(ps) ==
    Len(ps) = Len(BoardPedals) /\ {ps[i] : i \in DOMAIN ps} = Known

\* The board shows every pedal once, whatever was dropped on it; all it asks
\* of the daemon is valid there; and once requests and events are through, it
\* shows the order the engine plays, also when requests overtook each other or
\* another page's, if the last word on the order reached it. It did not where a
\* request failed, the last announcement was dropped, lost with the stream or
\* made without one, or an answer read before it came after it, and no other
\* announcement or answer since (usePolyclav.ts:178-186, 471-480, 551-557).
BoardOrderAgrees ==
    /\ Permutation(order)
    /\ \A ss \in orderNet : ValidFxOrder(ss)
    /\ (orderNet = {} /\ orderEvents = <<>> /\ ~untold) => ToStages(order) = fxOrder

\* Dropping a strip puts it beside the one under the pointer, on the side of
\* the pointer, and leaves the others in their order; dropped on itself or on
\* another thing's behalf, nothing moves.
DropMovesOne ==
    [][(over # Nowhere /\ over' = Nowhere /\ order' # order) =>
          /\ dragId \in Known \ {over.strip}
          /\ Without(order', dragId) = Without(order, dragId)
          /\ Place(order', dragId) =
                Place(order', over.strip) + (IF over.right THEN 1 ELSE -1)
      ]_boardVars

\* A knob never leaves its range, and a held knob follows the pointer: back
\* where it was pressed it shows what it showed there, however far the pointer
\* went beyond the ends of the range, unless it was turned otherwise meanwhile.
KnobFollowsPointer ==
    /\ \A k \in BoardKnobs : knobValue[k] = InSpec(k, knobValue[k])
    /\ (held # NotHeld /\ held.y = 0 /\ ~held.nudged) =>
           knobValue[held.knob] = held.start
=============================================================================
