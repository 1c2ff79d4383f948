SPECIFICATION Spec
CONSTANTS
  Backups = 3
  MaxBytes = 2
  Sizes = {1, 2, 3}
  MaxLines = 6
INVARIANTS
  TypeOK
  FilesBounded
  BackupsHoldLines
PROPERTIES
  OldestGoesFirst
