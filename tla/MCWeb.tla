-------------------------------- MODULE MCWeb --------------------------------
(***************************************************************************)
(* The cards of the web user interface, checked in one run. They share no  *)
(* state, so a behaviour of the page is an interleaving of behaviours of   *)
(* its cards, and a property of one card holds of it if it holds of that   *)
(* card alone: each behaviour here moves a single one.                     *)
(***************************************************************************)
EXTENDS Board, VelocityEditor, MidiDebugger, SynthForm, MacroSlots, DeviceSettings, MidiProbe

VARIABLE part   \* the card that moves

MCPedals == <<"drive", "trem", "comp">>
MCHeights == {-150, 0, 150}
MCForeign == {"", "x"}

MCPlayed == {<<"pad-top", 1>>, <<"sustain">>}
Item(t, role, kind, number, value) ==
    [time |-> t, role |-> role, kind |-> kind, channel |-> 1, number |-> number,
     value |-> value]
MCFiles ==
    {<<Item(3, "daw", "note-on", 96, 0), Item(1, "daw", "note-on", 96, 90),
       Item(2, "daw", "raw pressure", 96, 50), Item(1, "other", "cc", 1, 1)>>}

MCBlocks ==
    [q \in {"p", "q"} |->
        [voice_mode |-> "poly", amp_env |-> [attack |-> 100],
         osc |-> [i \in 0 .. 1 |-> [level |-> IF q = "p" THEN 0 ELSE 1000]]]]

MCTyped == {-5, 20}

MCPorts == {"keys 20:0", "keys 24:0", "pads 28:0"}
MCMatches ==
    {"keys", "k"} \X {"keys 20:0", "keys 24:0"} \cup {<<"pads", "pads 28:0">>}
MCEntryFor == [p \in MCPorts |-> IF p = "pads 28:0" THEN "pads" ELSE "keys"]
MCPlugged == {{"keys 20:0"}, {"keys 24:0", "pads 28:0"}}

----------------------------------------------------------------------------
\* The cards that stand still do so in one of their initial states.
WebInit ==
    /\ part \in {"board", "knobs", "velocity", "debugger", "synth", "macros", "settings", "probe"}
    /\ BoardInit /\ (part # "board" => fxOrder = ToStages(BoardPedals))
    /\ fxOrder \in {ToStages(BoardPedals), ToStages(<<"trem", "drive", "comp">>)}
    /\ VelInit /\ DebugInit
    /\ SynthInit /\ (part # "synth" => voice = "s" /\ cached = Blocks["p"])
    /\ MacroInit /\ (part # "macros" => storedMacros = Unassigned)
    /\ SettingsInit /\ ProbeInit
    /\ part # "settings" =>
          allowed = {} /\ config.managed /\ ports = CHOOSE s \in Plugged : TRUE

\* The order and the knobs of the board, which meet only in the screen that is
\* open, move in turn; and strips are dragged while no connection is being made.
BoardMoves == part = "board" /\ BoardNext
    /\ UNCHANGED <<view, knobs>>
    /\ (over' # Nowhere => orderUp' /\ chainGet' = NoGet)
    /\ UNCHANGED <<part, velVars, debugVars, synthVars, macroVars, settingsVars, probeVars>>
KnobMoves == part = "knobs" /\ BoardNext
    /\ UNCHANGED <<order, sync>>
    /\ UNCHANGED <<part, velVars, debugVars, synthVars, macroVars, settingsVars, probeVars>>
VelMoves == part = "velocity" /\ VelNext
    /\ UNCHANGED <<part, boardVars, debugVars, synthVars, macroVars, settingsVars, probeVars>>
DebugMoves == part = "debugger" /\ DebugNext
    /\ UNCHANGED <<part, boardVars, velVars, synthVars, macroVars, settingsVars, probeVars>>
SynthMoves == part = "synth" /\ SynthNext
    /\ UNCHANGED <<part, boardVars, velVars, debugVars, macroVars, settingsVars, probeVars>>
MacrosMove == part = "macros" /\ MacroNext
    /\ UNCHANGED <<part, boardVars, velVars, debugVars, synthVars, settingsVars, probeVars>>
SettingsMove == part = "settings" /\ SettingsNext
    /\ UNCHANGED <<part, boardVars, velVars, debugVars, synthVars, macroVars, probeVars>>

\* Two connections of the probe, and two handlers at once while its page is open.
ProbeMoves == part = "probe" /\ ProbeNext
    /\ opened' <= 2 /\ (live' # "closed" => Cardinality(handlers') <= 2)
    /\ UNCHANGED <<part, boardVars, velVars, debugVars, synthVars, macroVars, settingsVars>>

WebNext ==
    \/ BoardMoves \/ KnobMoves \/ VelMoves \/ DebugMoves \/ SynthMoves
    \/ MacrosMove \/ SettingsMove \/ ProbeMoves

webVars ==
    <<part, boardVars, velVars, debugVars, synthVars, macroVars, settingsVars, probeVars>>

WebSpec == WebInit /\ [][WebNext]_webVars
=============================================================================
