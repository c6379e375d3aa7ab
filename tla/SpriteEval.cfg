CONSTANTS
  LastVisible = 0
  LastVblank = 2
  NumSprites = 64
  Oams <- MCOams
  MaxWrites = 3
SPECIFICATION SpritesSpec
INVARIANTS
  FirstSpritesFound
  SlotsInBounds
  DrawListIsFound
PROPERTIES
  OverflowUnlessLast
