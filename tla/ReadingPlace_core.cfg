SPECIFICATION Spec
CONSTANTS
  Chapters = 2
  Length <- BookLength
  small = small
  large = large
  Layout = {small, large}
  PageSize <- PageSizes
  None = None
  MaxNotes = 1
  MaxFaults = 1
INVARIANTS TypeOK PlaceOnCard
PROPERTIES ShowsTheAskedPlace
