\* Five masters, three stay, one of them perhaps without slots; lost slots
\* allowed.
CONSTANTS
  Masters = {0, 1, 2, 3, 4}
  Expect = 3
  NumSlots = 8
  Nowhere = Nowhere
  Distributions <- MCRanges
SPECIFICATION Spec
INVARIANT SlotsEndUpOnce
INVARIANT EvenSpread
CHECK_DEADLOCK FALSE
