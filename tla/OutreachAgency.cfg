\* Two mailboxes of one agency, a send job each, worked at once: the operator's
\* kill-switch, a mailbox probe, transient errors, lost answers and one crash per job.
SPECIFICATION Spec
CONSTANTS
  a1 = a1
  a2 = a2
  s1 = s1
  s2 = s2
  r1 = r1
  v1 = v1
  v2 = v2
  Agents = {a1, a2}
  NoAgent = NoAgent
  Emails <- M1M2
  EmailOf <- Mailboxes
  DomainOf <- OneAgency
  InitialAgents = {a1, a2}
  EventIds = {v1}
  Corporate = {a1, a2}
  SendJobs = {s1, s2}
  SendAgent <- ToEach
  MaxThreads = 2
  MaxDay = 0
  DefaultCap = 2
  BaseCap = 2
  CapStep = 1
  MaxCap = 2
  CooldownDays = 1
  BreakerDays = 0
  BounceMinSample = 1
  ComplaintMinSample = 2
  BouncePermille = 20
  ComplaintPermille = 1
  MaxAttempts = 2
  MaxStalls = 1
  Unsubscribers = {}
  Bouncers = {}
  Erasable = {}
  Probed = {a2}
  Replies = {}
  ReplyFrom <- FromM1
  Operator = TRUE
  Flaky = TRUE
  CadenceDays = 0
INVARIANTS
  TypeOK
  GuardHoldsBars
  EveryEmailPaidFor
CHECK_DEADLOCK FALSE
