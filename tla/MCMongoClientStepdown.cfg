SPECIFICATION FairSpec
CONSTANTS
  Task = {k1, k2}
  k1 = k1
  k2 = k2
  Calls <- WriterAndReader
  NoTask = NoTask
  a = a
  b = b
  Server <- MCServer
  HostOf <- TwoHosts
  Seed = a
  NoServer = NoServer
  Address = {x1}
  NULL = NULL
  NoCursor = NoCursor
  MaxRedirects = 3
  MaxFailures = 1
PROPERTY FollowsPrimary
