SPECIFICATION Spec
CONSTANTS
  Final = {200, 404, 500}
  Interim = {100, 103}
  MaxChunks = 3
INVARIANTS
  TypeOK
  StatusWithoutInterim
  BytesPreserved
  Streamed
PROPERTIES
  HeadersPushed
