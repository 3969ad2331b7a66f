SPECIFICATION DashSpec
CONSTANTS
    Knobs = {"delay.mix", "comp.glue", "reverb.mix"}
    Patches = {p, q}
    Levels = {0, 1}
    SubCap = 2
    MaxOps = 2
    Faults = {"load failed"}
INVARIANT CurrentAgrees
CHECK_DEADLOCK FALSE
