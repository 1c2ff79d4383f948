SPECIFICATION Spec
CONSTANTS
  Main = main
  Serves = {s1}
  Requests = {r1}
  None = none
INVARIANTS
  TypeOK
  TrayShowsALastStatus
PROPERTIES
  NoListenerAfterStop
  AlarmShown
