SPECIFICATION FairSpec
CONSTANTS
  h1 = h1
  h2 = h2
  u1 = u1
  u2 = u2
  Hosts = {h1, h2}
  Updates = {u1, u2}
  Reports <- MCReports
  Entered <- MCEntered
  None = None
  MaxOperations = 1
INVARIANTS
  TypeOK
  CatalogueFollows
  CountAgrees
PROPERTIES
  ReviewSurvives
  RevokedFades
