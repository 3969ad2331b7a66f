SPECIFICATION Spec
CONSTANTS
  MaxGen = 2
  ReloadCap = 1
  EventCap = 2
  p1 = p1
  p2 = p2
  Patches = {p1, p2}
  ClapPatches = {p1, p2}
  NoPatch = NoPatch
  Values = {0}
  NoValue = NoValue
INVARIANT BlobFromOwnPlugin
SYMMETRY PatchSymmetry
