----------------------------- MODULE PedalWiring -----------------------------
(***************************************************************************)
(* The seam between the knobs of the web pedalboard and the daemon's API:  *)
(* which REST surface carries a knob, in which unit, and which pedals have *)
(* an enable of their own in the engine (web/lib/pedalboard/wiring.ts).    *)
(***************************************************************************)
EXTENDS Integers, FiniteSets

\* A knob: its id, the pedal whose name its id starts with, the surface that
\* carries it and its field there, and how many display units make one engine
\* unit ("pct" shows 0..1 as 0..100 %, "same" shows the engine's own unit).
Wire(id, pedal, endpoint, field, unit) ==
    [id |-> id, pedal |-> pedal, endpoint |-> endpoint, field |-> field,
     unit |-> unit]

ChainWires ==
    {Wire("drive.amount",   "drive",  "chain", "drive.amount",   "pct"),
     Wire("chorus.rate",    "chorus", "chain", "chorus.rate_hz", "same"),
     Wire("chorus.depth",   "chorus", "chain", "chorus.depth",   "pct"),
     Wire("chorus.mix",     "chorus", "chain", "chorus.mix",     "pct"),
     Wire("trem.rate",      "trem",   "chain", "tremolo.rate_hz", "same"),
     Wire("trem.depth",     "trem",   "chain", "tremolo.depth",  "pct"),
     Wire("delay.time_ms",  "delay",  "chain", "delay.time_ms",  "same"),
     Wire("delay.feedback", "delay",  "chain", "delay.feedback", "pct"),
     Wire("delay.mix",      "delay",  "chain", "delay.mix",      "pct")}

ParamWires ==
    {Wire("comp.amount", "comp",   "params", "compressor", "pct"),
     Wire("reverb.mix",  "reverb", "params", "reverb",     "pct"),
     Wire("patch.level", "patch",  "params", "volume",     "pct")}

MasteringWires ==
    {Wire("comp.glue",          "comp", "mastering", "comp_amount", "pct"),
     Wire("comp.mstr_ratio",    "comp", "mastering", "mastering_ratio", "same"),
     Wire("comp.mstr_range",    "comp", "mastering", "mastering_range_db", "same"),
     Wire("comp.mstr_headroom", "comp", "mastering", "mastering_headroom_db", "same"),
     Wire("comp.mstr_attack",   "comp", "mastering", "mastering_attack_ms", "same"),
     Wire("comp.mstr_release",  "comp", "mastering", "mastering_release_ms", "same"),
     Wire("master.level",       "master", "mastering", "master_volume", "pct"),
     Wire("master.ceiling",     "master", "mastering", "limiter_ceiling_db", "same")}

Wires == ChainWires \cup ParamWires \cup MasteringWires

WiredIds == {w.id : w \in Wires}

PARAM_WIRING == [id \in WiredIds |-> CHOOSE w \in Wires : w.id = id]

\* The reverse index, from a surface and its field to the knob.
WIRE_BY_BACKEND ==
    [f \in {<<w.endpoint, w.field>> : w \in Wires} |->
        (CHOOSE w \in Wires : <<w.endpoint, w.field>> = f).id]

\* No two knobs share a field: an event names a knob by its field.
ASSUME OneKnobPerField ==
    \A w \in Wires : WIRE_BY_BACKEND[<<w.endpoint, w.field>>] = w.id

Unit(id) == IF PARAM_WIRING[id].unit = "pct" THEN 100 ELSE 1

ToEngine(id, display) == display \div Unit(id)

FromEngine(id, engine) == engine * Unit(id)

PedalOf(id) == PARAM_WIRING[id].pedal

\* Pedals with an enable of their own in the engine; a stomp of any other
\* pedal is played by pushing these knobs to 0.
STAGE_ENABLE ==
    [p \in {"drive", "chorus", "trem", "delay"} |->
        IF p = "trem" THEN "tremolo" ELSE p]

SOFT_BYPASS_PARAMS ==
    [p \in {"comp", "reverb"} |->
        IF p = "comp" THEN {"comp.amount", "comp.glue"} ELSE {"reverb.mix"}]

SoftPedals == DOMAIN SOFT_BYPASS_PARAMS

\* The engine's names of the six stages the user can put in order.
ORDER_STAGE ==
    [p \in {"drive", "chorus", "trem", "delay", "comp", "reverb"} |->
        IF p = "trem" THEN "tremolo" ELSE p]

ORDER_PEDAL ==
    [s \in {ORDER_STAGE[p] : p \in DOMAIN ORDER_STAGE} |->
        CHOOSE p \in DOMAIN ORDER_STAGE : ORDER_STAGE[p] = s]
=============================================================================
