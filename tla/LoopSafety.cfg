SPECIFICATION FairSpec
CONSTANTS
  c1 = c1
  Policy <- OneComponent
  HoldIds = {h1, h2}
  Interval = 1
  Cooldown = 3
  Window = 4
  MaxAttempts = 2
  RecoveryStreak = 2
  HoldTTL = 2
  StaleAfter = 0
  MaxRestarts = 1
  None = None
INVARIANTS
  TypeOK
  OneHoldOfTheLoop
  FlapGuard
PROPERTIES
  CooldownKept
  DownIsReported
  RecoveredIsReleased
