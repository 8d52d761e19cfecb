\* Two runs of setup, killed anywhere, forced or not, and servers that start meanwhile.
CONSTANTS
  x = x  y = y  ctxY = ctxY
  Symbol <- Names
  Short <- ShortNames
  GroupNames <- ThreeGroups
  Dangerous <- OneDangerous
  Seed <- Seeds
  Missing = Missing  Torn = Torn
  MaxSetups = 2
SPECIFICATION Spec
INVARIANTS TypeOK SeedsNotWhitelisted ManifestMeansComplete FiltersFollowClassification
