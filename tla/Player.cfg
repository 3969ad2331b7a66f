SPECIFICATION FairSpec
CONSTANTS
  Callers = {web, pad}
  Notes = {n1, n2}
  Requests = {0, 9}
  MaxRuns = 3
  Nobody = Nobody
INVARIANTS NotesAreOwed NoRunMeansSilence OnlyTheRunPlays ObserversAgree
PROPERTY TransitionsEnd
