\* Four slots that are written round and round; three buckets through four ticks; one
\* client under every framing rule, whose messages the network cuts at every place; two
\* parents and two connections, keys counted; a table of two columns through three
\* starts; settings that are empty, sensible or of the wrong type.
CONSTANTS
  Size = 4
  Values = {a, b, c}
  Empty = Empty
  WindowBuckets = 3
  Recorders = {w1, w2}
  MaxTicks = 4
  MaxEvents = 2
  NoBucket = NoBucket
  Clients = {c1}
  Rules <- AllRules
  Payloads <- PayloadsOf
  Capacity = 2
  MaxMessages = 3
  MaxChunk = 4
  ParentNames = {p}
  ConnNames = {n, o}
  MaxParents = 2
  MaxConns = 2
  Unsaved = Unsaved
  Columns = {c, d}
  CellValues = {v, w, u}
  Blanks = {u}
  Unset = u
  Absent = Absent
  NoTable = NoTable
  MaxBoots = 3
  Texts = {x}
  Blank = Blank
  Bad = Bad
  NoConfig = NoConfig
  Malformed = Malformed
  NoRow = NoRow
SPECIFICATION PartsSpec
SYMMETRY Symmetry
CHECK_DEADLOCK FALSE
INVARIANTS
  RatesAreOfTheWindow
  ChunksDoNotMatter
  FramesAreTheMessages
  RunsWhatItsRowSays
  
  NoValueLost
  OneStartIsEnough
  FormKeepsTheRest
PROPERTIES
  ImplementsRecentLog
