SPECIFICATION Spec
CONSTANTS
  RX_RING_SIZE = 4
  Index = 8
  Segments = {1, 3}
  MaxWire = 1
  Pcbs = {p1}
  MaxQueries = 2
  NULL = null
  Clock = 16
  CONNECT_TIMEOUT = 2
  PTP_PERIOD = 1
  STATS_PERIOD = 3
  FIRST_STATS = 1
  BACKOFF_MIN = 2
  BACKOFF_MAX = 5
  PacketBytes = 2
  NET_BUF_SIZE = 3
  MaxLag = 2
INVARIANTS StreamInOrder NoPcbLost RetrySoon CadenceKept AnsweredOnce
PROPERTY Reconnects
