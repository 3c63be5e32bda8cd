\* Two of the four parts: what can differ between parts differs between two.
CONSTANTS
  LCD_SHOW_PAGE = 5
  Parts = 2
  MaxAge = 8
  MaxQueued = 2
SPECIFICATION FairSpec
INVARIANTS PageAtRest SampleInv FreshOnceSettled
PROPERTY SampledAgain
