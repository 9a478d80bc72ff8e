CONSTANTS
  Version = {1, 2}
  MaxLookups = 2
SPECIFICATION ProfileSpec
PROPERTY OnlyMoreRecent
