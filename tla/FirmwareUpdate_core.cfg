SPECIFICATION FairSpec
CONSTANTS
  Good = {g}
  Alien = {x}
  Untagged = {u}
  Broken = {b}
  Blocks = 2
  Touch = TRUE
  RollsBack = TRUE
  MaxUpdates = 3
  MaxFaults = 2
INVARIANTS StillBoots StartsWhatWasSaid
PROPERTIES UpdateEnds
