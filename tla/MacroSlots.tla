------------------------------ MODULE MacroSlots ------------------------------
(***************************************************************************)
(* The eight macro slots (web/components/MacrosScreen.tsx and the macro    *)
(* half of web/app/usePolyclav.ts): the page edits its copy of the whole   *)
(* array, sends it when typing has rested, and ignores the daemon's echoes *)
(* for a moment. The daemon stores what it gets (controls/macros.go).      *)
(***************************************************************************)
EXTENDS ParamModel, PedalWiring

CONSTANTS
    Slots,       \* the slots in use, among 1 .. 8
    Offered,     \* the targets in use, among MACRO_TARGETS
    Typed,       \* percentages typed for a range
    MacroOps     \* bound on what users do

\* Every control of the board that the engine can drive.
MACRO_TARGETS ==
    ((UNION {DOMAIN CHAIN[p] : p \in DOMAIN CHAIN}) \cup DOMAIN MASTER_PARAMS)
        \cap WiredIds
\* A target the screen does not know; another client stored it.
ForeignTarget == "comp.attack"

ASSUME SlotsAssumption == Slots \subseteq 1 .. 8 /\ Slots # {}
ASSUME OfferedAssumption == Offered \subseteq MACRO_TARGETS
ASSUME MacroBoundsAssumption == Typed \subseteq Int /\ MacroOps \in Nat

VARIABLES
    macros,        \* the page's slots: a function of those assigned
    macrosLatest,  \* what the debounce timer will send, or NoMacros
    macrosGuard,   \* echoes are ignored for now
    screenOpen,       \* the page is open
    targetValue,   \* what the targets show, in hundredths
    macroLink,     \* the event stream is up
    macroPuts,     \* PUTs on their way
    macroEvents,   \* "macros" events on their way
    macroGet,      \* the GET of a connection: "none", "asked" or its answer
    storedMacros,  \* the daemon's slots
    typed,         \* what the user last made of the slots
    contested,     \* a PUT was lost or overtaken, or another client wrote
    outdated,        \* an edit was under way when the GET was asked, or came since
    overruled,     \* and its answer replaced that edit
    macroOps

pageSlots == <<macros, macrosLatest, macrosGuard, screenOpen>>
macroWire == <<macroLink, macroPuts, macroEvents, macroGet>>
macroGhosts == <<typed, contested, outdated, overruled>>
macroVars == <<pageSlots, targetValue, macroWire, storedMacros, macroGhosts, macroOps>>

Unassigned == [s \in {} |-> 0]
NoMacros == [s \in {0} |-> "no such array"]
Get(step) == [step |-> step, answer |-> NoMacros]

safeNum(n) == IF n < 0 THEN 0 ELSE IF n > 100 THEN 100 ELSE n

----------------------------------------------------------------------------
\* The knob of a slot sweeps its target between min and max percent of the
\* target's range.

RangeOf(id) == SPECS[id].max - SPECS[id].min
HasTarget(slot) == slot \in DOMAIN macros /\ macros[slot].target \in Offered

mapped(m, sw) ==
    LET pct == m.min + (sw * (m.max - m.min)) \div 100
    IN  SPECS[m.target].min + (pct * RangeOf(m.target)) \div 100

----------------------------------------------------------------------------
MacroInit ==
    /\ macros = Unassigned /\ macrosLatest = NoMacros
    /\ macrosGuard = FALSE /\ screenOpen = TRUE
    /\ targetValue = [id \in Offered |-> SPECS[id].default]
    /\ macroLink = TRUE /\ macroGet = Get("asked")
    /\ macroPuts = {} /\ macroEvents = <<>>
    /\ storedMacros \in {Unassigned,
           [s \in Slots |-> [target |-> ForeignTarget, named |-> FALSE, min |-> 0, max |-> 100]]}
    /\ typed = NoMacros
    /\ contested = FALSE /\ outdated = FALSE /\ overruled = FALSE
    /\ macroOps = 0

UserActs == screenOpen /\ macroOps < MacroOps /\ macroOps' = macroOps + 1

\* setMacros: shown at once, guarded, sent when 100 ms pass without another.
setMacros(m) ==
    /\ macros' = m /\ macrosLatest' = m /\ macrosGuard' = TRUE
    /\ typed' = m /\ outdated' = TRUE
    /\ UNCHANGED <<screenOpen, targetValue, macroWire, storedMacros, contested, overruled>>

\* commit: the slot's entry replaced, the others sent along as the page has them.
AssignTarget(slot, id) ==
    /\ UserActs
    /\ setMacros(slot :> [target |-> id, min |-> 0, max |-> 100,
                          named |-> slot \in DOMAIN macros /\ macros[slot].named]
                 @@ macros)
Unassign(slot) ==
    /\ UserActs /\ slot \in DOMAIN macros
    /\ setMacros([s \in DOMAIN macros \ {slot} |-> macros[s]])
TypeMin(slot, n) ==
    /\ UserActs /\ HasTarget(slot)
    /\ setMacros([macros EXCEPT ![slot].min = safeNum(n)])
TypeMax(slot, n) ==
    /\ UserActs /\ HasTarget(slot)
    /\ setMacros([macros EXCEPT ![slot].max = safeNum(n)])
TypeName(slot) ==
    /\ UserActs /\ HasTarget(slot)
    /\ setMacros([macros EXCEPT ![slot].named = ~@])

\* drive: the macro knob turns its target.
Drive(slot, sw) ==
    /\ UserActs /\ HasTarget(slot)
    /\ targetValue' = [targetValue EXCEPT ![macros[slot].target] = mapped(macros[slot], sw)]
    /\ UNCHANGED <<pageSlots, macroWire, storedMacros, macroGhosts>>

----------------------------------------------------------------------------
Sent(m) == macroPuts' = IF m = NoMacros THEN macroPuts ELSE macroPuts \cup {m}

flushMacros ==
    /\ screenOpen /\ macrosLatest # NoMacros
    /\ Sent(macrosLatest)
    /\ macrosLatest' = NoMacros
    /\ contested' = (contested \/ macroPuts # {})
    /\ UNCHANGED <<macros, macrosGuard, screenOpen, targetValue, macroLink, macroEvents,
                   macroGet, storedMacros, typed, outdated, overruled, macroOps>>

\* 500 ms after the last edit, which the flush precedes.
GuardEnds ==
    /\ screenOpen /\ macrosGuard /\ macrosLatest = NoMacros
    /\ macrosGuard' = FALSE
    /\ UNCHANGED <<macros, macrosLatest, screenOpen, targetValue, macroWire, storedMacros,
                   macroGhosts, macroOps>>

\* A patch event ends every guard and drops queued knob edits. A macro edit
\* is no patch's: it stays queued.
SwitchPatch_DropsMacros ==
    /\ UserActs
    /\ macrosGuard' = FALSE /\ macrosLatest' = NoMacros
    /\ UNCHANGED <<macros, screenOpen, targetValue, macroWire, storedMacros, macroGhosts>>

SwitchPatch ==
    /\ UserActs
    /\ macrosGuard' = FALSE
    /\ UNCHANGED <<macros, macrosLatest, screenOpen, targetValue, macroWire, storedMacros,
                   macroGhosts>>

\* The page is left: what is queued is sent on the way out.
LeaveScreen ==
    /\ UserActs
    /\ screenOpen' = FALSE
    /\ Sent(macrosLatest) /\ macrosLatest' = NoMacros
    /\ contested' = (contested \/ (macrosLatest # NoMacros /\ macroPuts # {}))
    /\ macroLink' = FALSE /\ macroEvents' = <<>> /\ macroGet' = Get("none")
    /\ UNCHANGED <<macros, macrosGuard, targetValue, storedMacros, typed, outdated, overruled>>

----------------------------------------------------------------------------
\* SetMacros of the daemon: every array the page can send passes its checks.
Accept(m) ==
    /\ storedMacros' = m
    /\ macroEvents' = IF macroLink THEN Append(macroEvents, m) ELSE macroEvents

TakePut(m) ==
    /\ macroPuts' = macroPuts \ {m}
    /\ Accept(m)
    /\ UNCHANGED <<pageSlots, targetValue, macroLink, macroGet, macroGhosts, macroOps>>
PutLost(m) ==
    /\ macroPuts' = macroPuts \ {m}
    /\ contested' = TRUE
    /\ UNCHANGED <<pageSlots, targetValue, macroLink, macroEvents, macroGet, storedMacros,
                   typed, outdated, overruled, macroOps>>
OtherClientPuts ==
    /\ UserActs
    /\ Accept(Unassigned)
    /\ contested' = TRUE
    /\ UNCHANGED <<pageSlots, targetValue, macroLink, macroPuts, macroGet, typed, outdated,
                   overruled>>

HearMacros ==
    /\ macroEvents # <<>>
    /\ macroEvents' = Tail(macroEvents)
    /\ macros' = IF macrosGuard THEN macros ELSE Head(macroEvents)
    /\ overruled' = (overruled /\ macrosGuard)
    /\ UNCHANGED <<macrosLatest, macrosGuard, screenOpen, targetValue, macroLink, macroPuts,
                   macroGet, storedMacros, typed, contested, outdated, macroOps>>

\* GET /api/macros on each connection. Its answer is applied under a guard too.
AnswerGet ==
    /\ macroGet.step = "asked"
    /\ macroGet' = [step |-> "read", answer |-> storedMacros]
    /\ UNCHANGED <<pageSlots, targetValue, macroLink, macroPuts, macroEvents, storedMacros,
                   macroGhosts, macroOps>>
HearGet ==
    /\ macroGet.step = "read"
    /\ macros' = macroGet.answer
    /\ macroGet' = Get("none")
    /\ overruled' = (overruled \/ outdated)
    /\ UNCHANGED <<macrosLatest, macrosGuard, screenOpen, targetValue, macroLink, macroPuts,
                   macroEvents, storedMacros, typed, contested, outdated, macroOps>>

LinkDrops ==
    /\ UserActs /\ macroLink
    /\ macroLink' = FALSE /\ macroEvents' = <<>> /\ macroGet' = Get("none")
    /\ UNCHANGED <<pageSlots, targetValue, macroPuts, storedMacros, macroGhosts>>
LinkOpens ==
    /\ screenOpen /\ ~macroLink
    /\ macroLink' = TRUE /\ macroGet' = Get("asked")
    /\ outdated' = (macrosLatest # NoMacros \/ macroPuts # {})
    /\ UNCHANGED <<pageSlots, targetValue, macroPuts, macroEvents, storedMacros, typed,
                   contested, overruled, macroOps>>

MacroNext ==
    \/ \E slot \in Slots :
          \/ \E id \in Offered : AssignTarget(slot, id)
          \/ Unassign(slot) \/ TypeName(slot)
          \/ \E n \in Typed : TypeMin(slot, n) \/ TypeMax(slot, n)
          \/ \E sw \in {0, 50, 100} : Drive(slot, sw)
    \/ flushMacros \/ GuardEnds \/ SwitchPatch \/ LeaveScreen
    \/ \E m \in macroPuts : TakePut(m) \/ PutLost(m)
    \/ OtherClientPuts
    \/ HearMacros \/ AnswerGet \/ HearGet
    \/ LinkDrops \/ LinkOpens

MacroSpec == MacroInit /\ [][MacroNext]_macroVars

----------------------------------------------------------------------------
\* When nothing is under way the daemon keeps what the user last made of the
\* slots, whatever patch was selected and even if the page was left in the same
\* moment (usePolyclav.ts:339-341, 346-347); and a page still open shows it.
\* Two requests in the air at once may change places, and another client may
\* write: then no one promised which is kept.
MacrosPersist ==
    (macrosLatest = NoMacros /\ macroPuts = {} /\ ~contested /\ typed # NoMacros)
    => /\ storedMacros = typed
       /\ (screenOpen /\ macroLink /\ macroGet.step = "none" /\ macroEvents = <<>> /\ ~overruled)
            => macros = typed
=============================================================================
