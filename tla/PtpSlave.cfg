CONSTANTS
  A = A
  B = B
  Masters = {A, B}
  Best = A
  NoMaster = NoMaster
  OneStep = {A}
  PathDelay <- MCPathDelay
  Times <- MCTimes
  Lates = {0, 30}
  INTERVAL = 1000
  PTP_DELAY_WIN = 1
  PTP_DELAY_MAX = 10
  PTP_SERVO_STEP = 1
  PTP_SERVO_OUTLIERS = 2
  ANNOUNCE_TIMEOUT = 1
  DREQ_MIN = 2
SPECIFICATION Spec
INVARIANTS DelayIsPathDelay LockedOnMaster
PROPERTY Synchronises
