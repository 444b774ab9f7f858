CONSTANTS
  t1 = t1  t2 = t2  o1 = o1  o2 = o2  o3 = o3  i1 = i1  i2 = i2  i3 = i3
  NoId = NoId  Null = Null  Head = Head  Tail = Tail
  Threads <- TwoThreads
  Clients <- OneClient
  Sessions <- ThreeSessions
  Ids <- ThreeIds
  Contexts <- OneSmall
  Renewals = TRUE
SPECIFICATION Spec
INVARIANT LimitHolds
