SPECIFICATION EngineFairSpec
CONSTANTS
  MaxGen = 3
  ReloadCap = 1
  EventCap = 2
INVARIANTS OneOwner EventsTruthful
PROPERTIES ImplementsPromise LoadsResolve
