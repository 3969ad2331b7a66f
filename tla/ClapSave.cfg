SPECIFICATION Spec
CONSTANTS
  Editors = {e1, e2}
  MaxEdits = 3
  MaxKills = 0
INVARIANT ClapSaveSurvives
CHECK_DEADLOCK FALSE
