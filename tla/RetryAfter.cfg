\* Two threads; a header is always long enough to open a cooldown at once.
SPECIFICATION GovernorSpec
CONSTANTS
  Threads = {t1, t2}
  Interval = 1
  Hour = 20
  Budget = 5
  Retries = 1
  BaseBackoff = 1
  LongWait = 4
  MaxCooldown = 6
  RetryAfters = {5}
  NoHeader = NoHeader
  MaxClock = 8
PROPERTY RetryAfterHonoured
CHECK_DEADLOCK FALSE
