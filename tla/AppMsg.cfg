CONSTANTS
  MAX_SZ = 9
  MAX_NB = 3
  TLVLens = {0, 1, 5, 6}
SPECIFICATION Spec
INVARIANTS TypeOK FilledPrefix SentWhole SpaceHonest
PROPERTIES SpaceNeverGrows SeenByModules ImplementsUplinkSet
