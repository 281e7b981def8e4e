\* A STOP, delivered twice, and an offer against a send to the same agent; either
\* email may be forged or have no real recipient.
SPECIFICATION ReadSpec
CONSTANTS
  stop = stop
  offer = offer
  a1 = a1
  Named = {}
  Messages = {stop, offer}
  Agents = {a1}
  NoAgent = NoAgent
  SenderOf <- Senders
  Stops <- Asking
  Bare <- Empty
  Addresses = {"street", "postcode", "street postcode"}
  NoAddress = NoAddress
  Readings <- Read
  DailyCap = 1
  MaxAttempts = 2
  MaxStalls = 0
  Faulty = {offer}
  MaxThreads = 2
  MaxDay = 1
  MaxSends = 1
  Deliveries <- Posted
INVARIANTS
  TypeOK
  StopHonoured
  PaidWithinCap
  CompletedIsFiled
  CompletedIsHandedOn
CHECK_DEADLOCK FALSE
