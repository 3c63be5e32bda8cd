CONSTANT Nested = FALSE
SPECIFICATION FairSpec
PROPERTY SampleEnds
