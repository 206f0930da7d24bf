SPECIFICATION FairSpec
CONSTANTS
  Calls = {c1}
  Detectors = {otp, category, spam}
  MaxFaults = 3
INVARIANTS
  TypeOK
  AiNeverFailsCapture
  RedisNeverHalfCaptures
PROPERTIES
  EveryAttemptEnds
  ImplementsContract
CHECK_DEADLOCK FALSE
