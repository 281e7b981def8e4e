\* One thread over two days: the first send, the cadence scan, its follow-up, the
\* warm-up ramp and a crash per job; every job settles under worker fairness.
SPECIFICATION FairSpec
CONSTANTS
  a1 = a1
  a2 = a2
  s1 = s1
  s2 = s2
  r1 = r1
  v1 = v1
  v2 = v2
  Agents = {a1}
  NoAgent = NoAgent
  Emails <- M1
  EmailOf <- Mailboxes
  DomainOf <- OneAgency
  InitialAgents = {a1}
  EventIds = {v1}
  Corporate = {a1}
  SendJobs = {s1}
  SendAgent <- ToEach
  MaxThreads = 1
  MaxDay = 1
  DefaultCap = 1
  BaseCap = 1
  CapStep = 1
  MaxCap = 3
  CooldownDays = 1
  BreakerDays = 0
  BounceMinSample = 1
  ComplaintMinSample = 2
  BouncePermille = 20
  ComplaintPermille = 1
  MaxAttempts = 2
  MaxStalls = 1
  Unsubscribers = {}
  Bouncers = {}
  Erasable = {}
  Probed = {}
  Replies = {}
  ReplyFrom <- FromM1
  Operator = FALSE
  Flaky = FALSE
  CadenceDays = 0
INVARIANTS
  TokensWithinRamp
  FollowupContinuesThread
PROPERTIES
  JobsSettle
CHECK_DEADLOCK FALSE
