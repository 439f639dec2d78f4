CONSTANTS
  RX_DESCS = 2
  TX_DESCS = 4
  TX_BUFS = 2
  PORT_MAX_IRQS = 4
  INDEX = 8
  MaxFrames = 11
  MaxSends = 6
SPECIFICATION Spec
INVARIANT CopiesItsFrame
CHECK_DEADLOCK FALSE
