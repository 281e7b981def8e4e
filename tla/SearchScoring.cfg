SPECIFICATION Spec
CONSTANTS
  s1 = s1
  s2 = s2
  s3 = s3
  l1 = l1
  l2 = l2
  p1 = p1
  p2 = p2
  p3 = p3
  Searches = {s1, s2, s3}
  Operators = {s1, s2, s3}
  BriefsOf <- MCBriefs
  Listings = {l1, l2}
  Home <- MCHome
  Photos <- MCPhotos
  All = All
  Budget = 1
  Unsettled = {s1}
  Faulty = {l1}
  TopK = 1
  MaxSearchesPerListing = 1
  Workers = 1
  MaxTries = 2
  MaxCalls = 1
INVARIANTS
  AnalysedIsScored
  EditReachesScores
  SpendBounded
  RemovedIsUnscored
CHECK_DEADLOCK FALSE
