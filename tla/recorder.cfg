SPECIFICATION RecorderFairSpec
CONSTANTS
  r1 = r1
  r2 = r2
  a = a
  b = b
  Readers <- MCReaders
  Payloads <- MCPayloads
  Requested = 2
  MaxEvents = 4
INVARIANTS
  RingAndStreams
PROPERTIES
  EventuallySeen
  NoReplay
  ImplementsLog
