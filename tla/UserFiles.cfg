CONSTANTS
  p1 = p1  p2 = p2
  doc1 = doc1  doc2 = doc2  good = good  clashing = clashing  malformed = malformed
  one = one  two = two  three = three  long = long  huge = huge  empty = empty
  padded = padded  twoLines = twoLines  nul = nul  key1 = key1  key2 = key2
  east = east  west = west  unsafe = unsafe
  None = None  User = User  NoEntry = NoEntry
  Text <- MCText
  Empty = empty
  Length <- MCLength
  Padded = {padded}
  Broken = {twoLines}
  Nul = {nul}
  SafeName = {east, west, one, two}
  Candidate <- MCCandidate
  MaxPort = 65535  DefaultPort = 18080
  Instance = {p1, p2}
  Menu = {p1, p2}
  Template <- MCTemplate
  UserDoc = {good, clashing, malformed}
  Meaning <- MCMeaning
SPECIFICATION Spec
INVARIANTS TypeOK CreatedIsValid EntryWhole MenuTellsEntry AcceptedIsRoutable
PROPERTY WholeFileKept
