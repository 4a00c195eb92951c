SPECIFICATION FairSpec
CONSTANTS s1 = s1 s2 = s2 e1 = e1 e2 = e2 w1 = w1 w2 = w2 None = None
CONSTANTS
  Site = {s1, s2}
  Exchange = {e1, e2}
  Worker = {w1, w2}
  View = {e1}
  SiteOf <- OneSiteOf
  WorkSite <- OneWorkSite
INVARIANTS ClaimedResponseFits AnswersAreReal
PROPERTIES NoWorkForTheGone IsMailbox ExchangesEnd QueueDrains
