CONSTANTS
  MaxLabel = 2
  LoopGuard = 3
  NameCap = 4
  MaxLabels = 2
  MaxMessage = 7
  Labels <- MCLabels
  Packets <- MCPackets
  Ids = {1, 2}
  MaxHosts = 2
  MaxArrivals = 2
  Texts <- MCTexts
  NULL = NULL
  Uris <- MCUris
  SrvNameOf <- MCSrvNameOf
  Readers = {tel}
  Telemetry = tel
  Wrap = 3
  Epoch = 7
  Word = 4
  MaxClock = 4
  Callers = {task, isr}
  LogQueueLength = 2
  LogLevels = {0, 4}
  ConfiguredLevel = 3
  MaxCalls = 2
  UptimeWrap = 2
  MaxPassed = 3
  Size = 4
  BatchSize = 2
  MaxFinds = 6
  Odd = Odd
  TickRange = 16
  Poll = 2
  MaxDelay = 5
  Timeout = 4
  MaxTicks = 34
  MaxFailures = 3
  Passwords = {"pw", "long", "not ASCII"}
  Stored = {"pw", "old", "long"}
  ServerNonces = {"", "s"}
  MinIterations = 2
  MaxIterations = 3
  Iterations = {1, 2, 3, 4}
  MaxAttempts = 2
  OidTasks = {x, y}
  SeqWrap = 2
  SeqStarts = {0, 7, 40}
  MaxOids = 3
  MaxTime = 1
SPECIFICATION Spec
INVARIANTS
  NamesRead
  CallbackOnLiveFrame
  UriAccepted
  ClockSound
  DocumentsDated
  PrintedInOrder
  CursorSound
  WaitsExact
  AuthSound
  OidsUnique
PROPERTIES
  ReplySettled
CHECK_DEADLOCK FALSE
