SPECIFICATION FairSpec
CONSTANTS
  Idle = 4
  Hidden = 3
  MemPoll = 2
  SafeIdle = 2
  Cooldown = 5
INVARIANTS
  SleepMissesNothing
  NoNeedlessReset
PROPERTIES
  ResetsHappen
