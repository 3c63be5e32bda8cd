CONSTANT Nested = TRUE
SPECIFICATION FairSpec
INVARIANTS OwnReading AdcInv
PROPERTY EndsOrStuck
