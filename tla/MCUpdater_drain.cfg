CONSTANTS
  Slots = {s1, s2}
  Containers = {0, 1, 2}
  Images = {0, 1, 2}
  Bad = {1}
  NoImage = NoImage
  NoContainer = NoContainer
  MaxFaults = 1
  MaxRestarts = 1
SPECIFICATION Spec
INVARIANTS DrainIsCancelled
