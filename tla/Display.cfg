SPECIFICATION Spec
CONSTANTS
  Texts <- MCTexts
  MaxPopups = 2
  MaxSwitches = 2
  MaxClears = 1
  HubCap = 1
INVARIANTS PopupHasTimer ScreenMatchesArbiter FollowerCaughtUp
