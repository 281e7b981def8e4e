CONSTANTS
  MAX_PAGE_LIMIT = 2
  MAX_PAGES = 3
  NoAgency = "none"
  SOURCE_NAMES = {"auctionhouse", "uklandandfarms"}
  SOURCE_CATALOGUE <- MCCatalogue
  Resolvable = {1, 2, 5}
  BULK = 2
  Junk <- MCJunk
  Nothing = "nothing"
  DefaultName = "HomeRanger"
  Errands <- MCErrands
  Rows <- MCRows
  Variants <- MCVariants
  FirstSearches <- MCSearches
  FirstAgents <- MCAgents
  Sourced <- MCSourced
  Emailed <- MCEmailed
  Brakes = {"ok", "KILL_SWITCH"}
  Spare = "s3"
  Located <- MCLocated
  Inputs <- MCInputs
  Forms <- MCForms
  Profile <- MCProfile
SPECIFICATION Spec
INVARIANTS
  PagesTile
  BucketsMatchServer
  QueuedOnConsent
  SettledTables
  PreviewIsTheEmail
CHECK_DEADLOCK FALSE
