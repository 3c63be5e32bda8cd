CONSTANTS
  ROWS = 2
  Columns <- MCColumns
  Readings <- MCReadings
  MaxNested = 1
SPECIFICATION FairSpec
INVARIANTS WholePage ShownIsCurrent OutputsInv
PROPERTY ColourOfShown
