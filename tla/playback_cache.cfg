SPECIFICATION FairSpec
CONSTANTS s1 = s1 r1 = r1 r2 = r2 u1 = u1 u2 = u2 None = None
CONSTANTS
  Site = {s1}
  Recording = {r1, r2}
  Handler = {u1}
  SiteOf <- OneSiteOf
  Checked = {r1}
  CacheMax = 1
  Attempts = 2
  MaxRequests = 2
  MaxRestarts = 1
INVARIANTS SettledWithinLimit CacheHoldsVerified
PROPERTIES KeepsFreshFiles LostOfferRecovers
