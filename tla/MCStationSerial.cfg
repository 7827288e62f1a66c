SPECIFICATION Spec
CONSTANTS
  RingSize = 4
  ReadLen = 2
  MaxLen = 2
  AnalyserSize = 1
  BsmacSize = 1
  H = 6
  L = 5
  Payloads <- MCPayloads
  Local <- MCLocal
  MaxFrames = 3
  LossyFrames = 1
  MaxCommands = 1
INVARIANTS
  TypeOK
  NoFrameUnseen
  Resynchronises
PROPERTIES
  IndicationServed
CHECK_DEADLOCK FALSE
