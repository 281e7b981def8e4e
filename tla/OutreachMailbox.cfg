\* One mailbox whose agent row is erased in mid-send and rediscovered under a new
\* id, while it opts out, bounces and complains; a crash per job.
SPECIFICATION Spec
SYMMETRY EventSymmetry
CONSTANTS
  a1 = a1
  a2 = a2
  s1 = s1
  s2 = s2
  r1 = r1
  v1 = v1
  v2 = v2
  Agents = {a1, a2}
  NoAgent = NoAgent
  Emails <- M1
  EmailOf <- SameMailbox
  DomainOf <- OneAgency
  InitialAgents = {a1}
  EventIds = {v1, v2}
  Corporate = {a1, a2}
  SendJobs = {s1, s2}
  SendAgent <- ToEach
  MaxThreads = 2
  MaxDay = 0
  DefaultCap = 5
  BaseCap = 5
  CapStep = 1
  MaxCap = 5
  CooldownDays = 1
  BreakerDays = 0
  BounceMinSample = 1
  ComplaintMinSample = 2
  BouncePermille = 20
  ComplaintPermille = 1
  MaxAttempts = 1
  MaxStalls = 1
  Unsubscribers = {"m1"}
  Bouncers = {a1}
  Erasable = {a1}
  Probed = {}
  Replies = {}
  ReplyFrom <- FromM1
  Operator = FALSE
  Flaky = FALSE
  CadenceDays = 0
INVARIANTS
  GuardHoldsBars
  BreakerHolds
  BurnBounded
  FiledUnderRecipient
  CompletedIsRecorded
CHECK_DEADLOCK FALSE
