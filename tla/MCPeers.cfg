SPECIFICATION FairSpec
CONSTANTS
  r = r
  q = q
  t1 = t1
  t2 = t2
  Remotes = {r, q}
  BootPeers = {r}
  Addrs = {"x", "y"}
  Threads = {t1, t2}
  Main = t1
  Torn = Torn
  MaxStarts = 3
  MaxOps = 2
INVARIANTS
  TypeOK
  SavedListIsCurrent
  RegisteredPeersAreKept
PROPERTIES
  CallsReturn
CHECK_DEADLOCK FALSE
