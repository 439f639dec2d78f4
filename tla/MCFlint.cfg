SPECIFICATION Spec
CONSTANTS
  CNodes = {c1, c2}
  Slots = {0, 1}
  Types = {"endpoint", "untyped"}
  Badged = {"endpoint"}
  RightBits = {"read", "grant", "bit7"}
  RIGHT_ALL = {"read", "grant"}
  Badges = {0, 1}
  Objects = {1}
  BootCaps <- MCBootCaps
  NO_PARENT = none
  CAP_NULL = null
  Prios <- MCPrios
  Labels = {0, 1, 43690, 65535}
  Lengths = {0, 1, 63, 64, 65, 127, 128}
  NCaps = {0, 3, 4, 5, 8}
  Flags = {0, 1, 42, 63, 64}
  Freq = 3
  NS_PER_S = 10
  PTP_CLOCK_MAX_PPB = 4
  Ppbs <- MCPpbs
  Deltas <- MCDeltas
  MaxCnt = 14
  MaxAnchors = 3
  MINUTE = 2
  HOUR = 4
  DAY = 8
  FirstYears = {1900, 1969, 1970, 2000}
  Days = 430
  UtcOffsets = {37}
  BufSizes = {48, 60, 90, 120}
  Strings <- MCStrings
  Numbers = {0, 12}
  MaxTasks = 3
INVARIANTS Unforgeable HighestIsMax RoundTrip DateIsRight PublishesJson
PROPERTIES Immutable DerivesFromHeld RunsEvenly
CHECK_DEADLOCK FALSE
