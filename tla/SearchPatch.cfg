CONSTANTS
  s1 = s1
  s2 = s2
  r1 = r1
  Searches = {s1, s2}
  Operator = "operator"
  OwnerOf <- MCOwnerOf
  RECORDS <- MCRecords
  KeyOf <- MCKeyOf
  Located <- MCLocated
  Homes <- MCHomes
  Mails <- MCMails
  search <- MCSearch
  Failures <- MCFailures
  MaxQueries = 3
  FetchMax = 2
  NamesPlace <- MCNamesPlace
  LocalLength <- MCLocalLength
  Switched = {s2}
  Raw <- MCRaw
  Answer <- MCAnswer
  MaxTries = 2
  AtOnce = 1
  Forgotten = {s2}
  MaxIds = 1
  Removals = {r1}
  Begin <- MCBegin
  Edited = {s1}
  Faulty = {s1}
  Unwanted <- MCApproached
  Unsubscribers <- MCUnsubscribers
  Approached <- MCApproached
  Agencies = {"fletcher", "aslets"}
  Published <- MCPublished
  PORTAL_DOMAINS = {"rightmove"}
  FREE_MAIL_DOMAINS = {"gmail"}
  GovDomains = {"conwy.gov.uk"}
  NonAgencyTexts = {"managing agents"}
  SiteOf <- MCSiteOf
SPECIFICATION Spec
INVARIANTS
  TypeOK
  CountsAddUp
  AgencyReached
PROPERTIES
  NeverResourced
  KeptForOthers
CHECK_DEADLOCK FALSE
