SPECIFICATION Spec
CONSTANTS
  Test = {11, 12}
  Quick = {2}
  Levels = {1, 2}
  TestMax = 2
  DealMod = 6
  SeqMod = 3
  PerPoll = 3
INVARIANTS
  TypeOK
  FreshList
  AloneIsListed
PROPERTIES
  ConsecutiveOnAir
