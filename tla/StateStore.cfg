SPECIFICATION FairSpec
CONSTANTS
  Editors = {e1, e2}
  MaxEdits = 3
  MaxKills = 1
INVARIANTS EditsAccountedFor DirtyIsScheduled FinalFlushCovers
PROPERTIES FileNeverGoesBack EditsReachFile
CHECK_DEADLOCK FALSE
