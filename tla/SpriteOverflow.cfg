CONSTANTS
  LastVisible = 0
  LastVblank = 2
  NumSprites = 64
  Oams <- MCOams
  MaxWrites = 3
SPECIFICATION SpritesSpec
PROPERTIES
  OverflowOnlyWhenFull
