SPECIFICATION FairSpec
CONSTANTS s1 = s1 s2 = s2 c1 = c1 c2 = c2 p1 = p1 p2 = p2 None = None
CONSTANTS
  Site = {s1, s2}
  Command = {c1, c2}
  Poller = {p1, p2}
  SiteOf <- OneSiteOf
  PollSite <- OnePollSite
  QueueCap = 2
INVARIANTS SendsNeverBlock AtMostOnce HonestAnswer
PROPERTIES NoMissedWakeup IsMailbox QueueDrains RequestsEnd
