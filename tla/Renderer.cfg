CONSTANTS
  i1 = i1
  i2 = i2
  None = None
  i3 = i3
  Images = {i1, i2, i3}
  MaxBehind = 2
  MaxResizes = 2
SPECIFICATION FairSpec
INVARIANTS CommandsValid ObjectLifetimes
PROPERTIES ShowsFrames
