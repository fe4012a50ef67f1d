CONSTANTS
  Runs = {r1, r2}
  Writers = {w1, w2}
  Targets = {3, 7, 14, 16}
  Legacies <- SomeLegacies
SPECIFICATION FairSpec
INVARIANT TypeOK
PROPERTIES
  LostOnlyInTheGap
  EndsForAReason
  MigrationEnds
