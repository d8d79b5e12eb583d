SPECIFICATION Spec
CONSTANTS
  b1 = b1
  b2 = b2
  b3 = b3
  Book = {b1, b2, b3}
  MAX_BOOKS = 2
  DAYS = 3
  MAX_MINUTES = 2
  FlushTurns = 2
  None = None
  Torn = Torn
  MaxDay = 4
  MaxTurns = 4
  MaxFaults = 1
SYMMETRY Books
INVARIANTS RingShowsTheDays CountedOnce OpenBookIsListed
