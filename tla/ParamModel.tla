------------------------------ MODULE ParamModel ------------------------------
(***************************************************************************)
(* The knobs of the pedalboard and of the synth screen                     *)
(* (web/lib/pedalboard/model.ts): for each, the role that places it and    *)
(* its range and default, in hundredths of the unit it is displayed in.    *)
(***************************************************************************)
EXTENDS Integers, Sequences, TLC

\* A ParamSpec: the role, and min, max and defaultValue in whole units.
Knob(id, role, min, max, default) ==
    id :> [role |-> role, min |-> 100 * min, max |-> 100 * max,
           default |-> 100 * default]
\* The same from hundredths, for ranges that begin or rest between units.
FineKnob(id, role, min, max, default) ==
    id :> [role |-> role, min |-> min, max |-> max, default |-> default]

----------------------------------------------------------------------------
\* CHAIN, a pedal at a time.

DRIVE == Knob("drive.amount", "blend", 0, 100, 15)
CHORUS ==
    FineKnob("chorus.rate", "time", 5, 500, 90)
    @@ Knob("chorus.depth", "shape", 0, 100, 45)
    @@ Knob("chorus.mix", "blend", 0, 100, 30)
TREM ==
    FineKnob("trem.rate", "time", 10, 1500, 520)
    @@ Knob("trem.depth", "shape", 0, 100, 0)
DELAY ==
    Knob("delay.time_ms", "time", 1, 1000, 380)
    @@ Knob("delay.feedback", "shape", 0, 90, 35)
    @@ Knob("delay.mix", "blend", 0, 100, 25)
COMP ==
    Knob("comp.attack", "time", 1, 100, 15)
    @@ Knob("comp.amount", "shape", 0, 100, 35)
    @@ Knob("comp.glue", "blend", 0, 100, 0)
REVERB ==
    Knob("reverb.decay", "time", 200, 8000, 2400)
    @@ Knob("reverb.tone", "shape", 0, 100, 50)
    @@ Knob("reverb.mix", "blend", 0, 100, 26)

CHAIN ==
    "drive" :> DRIVE @@ "chorus" :> CHORUS @@ "trem" :> TREM
    @@ "delay" :> DELAY @@ "comp" :> COMP @@ "reverb" :> REVERB

DEFAULT_PEDAL_ORDER == <<"drive", "chorus", "trem", "delay", "comp", "reverb">>

\* The levels and the ceiling of the master card.
LEVEL_PARAMS ==
    Knob("patch.level", "level", 0, 200, 100)
    @@ Knob("master.level", "level", 0, 400, 80)
MASTER_PARAMS ==
    LEVEL_PARAMS @@ FineKnob("master.ceiling", "level", -1200, 0, -30)

\* The global half of the compressor, edited with the pedal and not in it.
MASTER_COMP_PARAMS ==
    Knob("comp.mstr_ratio", "level", 1, 20, 8)
    @@ Knob("comp.mstr_range", "level", 0, 48, 30)
    @@ Knob("comp.mstr_headroom", "level", 0, 24, 2)
    @@ FineKnob("comp.mstr_attack", "level", 10, 20000, 200)
    @@ Knob("comp.mstr_release", "level", 1, 2000, 100)

----------------------------------------------------------------------------
\* The voice of the synth screen.

Osc(octave, octaveAt, detune, detuneAt, level, levelAt) ==
    Knob(octave, "shape", -2, 2, octaveAt)
    @@ Knob(detune, "shape", -50, 50, detuneAt)
    @@ Knob(level, "level", 0, 100, levelAt)

Env(ids, a, d, s, r) ==
    Knob(ids[1], "time", 1, 10000, a) @@ Knob(ids[2], "time", 1, 10000, d)
    @@ Knob(ids[3], "level", 0, 100, s) @@ Knob(ids[4], "time", 1, 10000, r)

SYNTH_FILTER ==
    Knob("synth.filter.cutoff", "shape", 0, 100, 62)
    @@ Knob("synth.filter.resonance", "shape", 0, 100, 22)
    @@ Knob("synth.filter.envAmount", "shape", -100, 100, 35)
    @@ Knob("synth.filter.kbdTrack", "shape", 0, 100, 50)

SYNTH_LFO ==
    FineKnob("synth.lfo.rate", "time", 5, 3000, 550)
    @@ Knob("synth.lfo.depth", "shape", 0, 100, 25)
    @@ Knob("synth.lfo.toPitch", "shape", 0, 100, 0)
    @@ Knob("synth.lfo.toCutoff", "shape", 0, 100, 40)
    @@ Knob("synth.lfo.toAmp", "shape", 0, 100, 0)

SYNTH ==
    Osc("synth.osc1.octave", 0, "synth.osc1.detune", 0, "synth.osc1.level", 85)
    @@ Osc("synth.osc2.octave", 0, "synth.osc2.detune", 7, "synth.osc2.level", 70)
    @@ Osc("synth.osc3.octave", -1, "synth.osc3.detune", -5, "synth.osc3.level", 45)
    @@ SYNTH_FILTER @@ SYNTH_LFO
    @@ Env(<<"synth.fenv.a", "synth.fenv.d", "synth.fenv.s", "synth.fenv.r">>,
           5, 240, 40, 320)
    @@ Env(<<"synth.aenv.a", "synth.aenv.d", "synth.aenv.s", "synth.aenv.r">>,
           3, 180, 75, 260)

----------------------------------------------------------------------------
\* Every ParamSpec there is.
SPECS ==
    DRIVE @@ CHORUS @@ TREM @@ DELAY @@ COMP @@ REVERB
    @@ MASTER_PARAMS @@ MASTER_COMP_PARAMS @@ SYNTH

ASSUME SpecsAssumption ==
    \A id \in DOMAIN SPECS :
       /\ {SPECS[id].min, SPECS[id].max, SPECS[id].default} \subseteq Int
       /\ SPECS[id].min <= SPECS[id].default /\ SPECS[id].default <= SPECS[id].max

=============================================================================
