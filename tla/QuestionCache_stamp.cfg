SPECIFICATION Spec
CONSTANTS
  b1 = b1
  b2 = b2
  Book = {b1, b2}
  None = None
  Blank = Blank
  QueueSize = 2
  MaxFaults = 0
SYMMETRY Books
INVARIANT RecordsItsBook
