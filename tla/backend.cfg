SPECIFICATION GaugeFairSpec
CONSTANTS
  MaxSamples = 2
  MaxSets = 2
  MaxClock = 2
INVARIANTS
  Conservation
  CloseDelivers
  QuietAfterClose
  GaugeDelivered
  NewestShown
PROPERTY CloseEnds
