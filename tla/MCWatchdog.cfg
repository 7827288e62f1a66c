SPECIFICATION Spec
CONSTANTS
  IwdgTime = 6
  Period = 4
  Tries = 5
  ConnectTime = 13
  RetrySleep = 1
  Sends = 3
INVARIANTS
  NoFalseAlarm
  NeverBehindConnect
  HangIsSeen
PROPERTIES
  HangEnds
