SPECIFICATION FairSpec
CONSTANTS
  Act = {a1, a2, a3}
  SleepScreen = SleepScreen
  None = None
  OutOfMemory = TRUE
  MaxCalls = 2
INVARIANTS DrawsTheCurrent
PROPERTIES ResultGoesToItsHandler WaitShowsTheChange ChangesAreDrawn LoopReturns
CHECK_DEADLOCK FALSE
