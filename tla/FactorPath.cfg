SPECIFICATION FairSpec
CONSTANTS
  d1 = d1
  d2 = d2
  e1 = e1
  x = x
  y = y
  q1 = q1
  q2 = q2
  None = None
  NoSlot = NoSlot
  Deliveries = {d1, e1}
  AsOf <- TheAsOf
  Fixed = {d1}
  Valid = {d1, e1}
  Instruments = {x}
  Eligible <- TheEligible
  Days = 2
  MaxTime = 8
  MaxIncidents = 2
  Content <- AllContents
  Slots = {q1, q2}
  MaxStarts = 1
INVARIANTS
  AcceptedIsPriced
  SignalIsAccepted
PROPERTIES
  AcceptedIsPublished
CHECK_DEADLOCK FALSE
