SPECIFICATION FairSpec
CONSTANTS
  Installation = {a1, a2}
  Throttle = 1
  Stale = 3
  MaxTokens = 2
  MaxFaults = 2
INVARIANTS PresenceIsTruthful HealthIsOwn OneAgentPerToken
PROPERTIES FreshTokenEnrolls
