SPECIFICATION FairSpec
CONSTANTS
  v = v
  a = a
  s1 = s1
  Senders = {v, a}
  Shards = {s1}
  ShardOf <- OneShard
  Stake <- OneValidator
  Callers = {1, 2}
  Fees = {1, 3}
  feeMid = 2
  feeHigh = 3
  Rate <- Rates
  Burst <- Bursts
  Unit = 2
  Capacity = 2
  MaxCalls = 3
  MaxTime = 1
INVARIANTS
  TypeOK
  RateIsBounded
  FullBurstFirst
  EveryCallIsCounted
PROPERTIES
  RefinesIngress
  QueuedIsValidated
CHECK_DEADLOCK FALSE
