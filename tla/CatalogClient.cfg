SPECIFICATION FairSpec
CONSTANTS
  q1 = q1
  q2 = q2
  q3 = q3
  c1 = c1
  c2 = c2
  NoSlot = NoSlot
  Slots = {q1, q2, q3}
  Content = {c1}
INVARIANTS
  OneAnswer
PROPERTIES
  KeepsPromise
  RequestsAreAnswered
