SPECIFICATION Spec
CONSTANTS
  r1 = r1
  r2 = r2
  Slots = {r1, r2}
  MaxTime = 4
  Flight = 1
  AccessTtl = 1
  LoginTtl = 1
  ExpiresIn = {2}
  Lifetime = 1
  Lifetimes = {1, 2}
  Leeway = 1
  KeyInterval = 2
  RateLimit = 1
  MaxLogins = 2
  MaxGrants = 3
  MaxKids = 2
  Scenes <- MCScenes
SYMMETRY Symmetry
CHECK_DEADLOCK FALSE
INVARIANTS
    SessionSound
    TakesEffect
    LogoutIsFinal
    RevokedIsRefused
