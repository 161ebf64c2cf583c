SPECIFICATION HostileSpec
CONSTANTS
  Task = {k1, k2}
  k1 = k1
  k2 = k2
  Calls <- AllCalls
  NoTask = NoTask
  a = a
  b = b
  Server <- MCServer
  HostOf <- OneHost
  Seed = a
  NoServer = NoServer
  Address = {x1, x2}
  NULL = NULL
  NoCursor = NoCursor
  MaxRedirects = 2
  MaxFailures = 2
PROPERTY FailedConnectArmsBackoff
