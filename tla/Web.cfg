SPECIFICATION WebSpec
CONSTANTS
    BoardPedals <- MCPedals
    BoardKnobs = {"trem.rate", "comp.mstr_range"}
    Heights <- MCHeights
    Foreign <- MCForeign
    BoardOps = 3
    Top = 5
    MaxPoints = 4
    Reach = 0
    VelOps = 4
    Played <- MCPlayed
    Files <- MCFiles
    HistoryCap = 2
    HubCap = 2
    DebugOps = 6
    Blocks <- MCBlocks
    Sampled = {"s"}
    SynthOps = 2
    Slots = {1, 2}
    Offered = {"delay.mix"}
    Typed <- MCTyped
    MacroOps = 3
    Ports <- MCPorts
    Entries = {"keys", "pads", "k"}
    Matches <- MCMatches
    EntryFor <- MCEntryFor
    Plugged <- MCPlugged
    SettingsOps = 3
    BufferCap = 1
    ProbeHubCap = 2
    ProbeOps = 3
INVARIANTS BoardOrderAgrees KnobFollowsPointer
    CurveIsAcceptable LabelNamesCurve
    OneSourceHeard ShownIsPlayed
    SynthAgrees MacrosPersist NothingSlips LiveIsSaved
    NoPortLeaks ProfileIsOfOneDevice PageKnowsProbe
PROPERTY DropMovesOne
CHECK_DEADLOCK FALSE
