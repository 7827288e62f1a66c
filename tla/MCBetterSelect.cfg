SPECIFICATION SelectSpec
CONSTANTS
  Std <- MCStd
  Test <- MCTest
  Junk <- MCJunk
  Level <- MCLevel
  Frames <- MCFrames
  StdMax = 3
  TestMax = 2
  DealMod = 4
INVARIANTS
  SelectTypeOK
  RelationsReal
  SilentCardLeaves
  LoneCardDecides
