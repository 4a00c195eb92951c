SPECIFICATION FairSpec
CONSTANTS
  Camera = {c1}
  WebRTC = TRUE
  Url = {1, 2}
  Choice <- FewChoices
  MaxEdits = 2
  MaxRestarts = 1
  MaxFlips = 2
  None = None
INVARIANTS NoOrphanWorker RestartKeepsConfig
PROPERTIES FollowsCloud WorksOffline PausesWithoutStorage
