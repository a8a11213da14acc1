SPECIFICATION Spec
CONSTANTS
  Capacity = 3
  Data = {d1, d2}
  Junk = junk
  DefaultVal = 1
INVARIANT CursorsOneSlotApart
PROPERTIES ImplementsSlidingWindow
