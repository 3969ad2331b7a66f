SPECIFICATION DashSpec
CONSTANTS
    Knobs = {"delay.mix", "comp.glue", "reverb.mix"}
    Patches = {p, q}
    Levels = {0, 1}
    SubCap = 2
    MaxOps = 2
    Faults = {"request lost", "select refused", "load failed", "stream lost", "other client", "hasty user"}
INVARIANTS PendingIsCurrent DashboardAgrees
PROPERTY PageSettles
CHECK_DEADLOCK FALSE
