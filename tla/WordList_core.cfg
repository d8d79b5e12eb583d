SPECIFICATION WordsSpec
CONSTANTS
  a = a
  long = long
  stem = stem
  b = b
  Headword = {a, b, long}
  Cut <- Kept
  BOX_DAYS <- Lags
  MAX_WORDS = 2
  NoReview = NoReview
  Torn = Torn
  MaxDay = 2
  MaxFailures = 1
SYMMETRY Alike
INVARIANTS WordsTypeOK QueueIsWhatIsDue LearnedOverItsIntervals
PROPERTIES RestartKeepsTheList
