CONSTANTS
  Deals <- MCDeals
  Kind <- MCKind
  Deposit = 1
  Slack = 0
  Grace = 1
  Slots = {s1, s2}
  Items = {i1, i2}
  MaxDay = 2
  MaxFaults = 2
  Nowhere = Nowhere
  Empty = Empty
SPECIFICATION MCSpec
INVARIANTS NoHole
PROPERTIES KeepsPromise EventuallyBooked
