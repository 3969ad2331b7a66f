SPECIFICATION FairSpec
CONSTANTS
  Ports = {keys, pads}
  Notes = {n1}
  MaxListeners = 2
  NoPort = NoPort
INVARIANTS NoStuckNotes NoOrphans
PROPERTIES SelectedPortsHeard RunReturns
