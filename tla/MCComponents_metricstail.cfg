\* What the child writes last, when the runner stops reading.
SPECIFICATION SafetySpec
CONSTANTS
  Subjects = {"reader"}
  Lease = 8
  Margin = 2
  Grace = 1
  HeartbeatEvery = 2
  RpcTimeout = 1
  CallTimeout = 1
  Slack = 1
  TimeoutSeconds = 7
  Finalization = 1
  Tries = 2
  Horizon = 8
  Items = 4
  Sizes = {1, 2}
  Limit = 4
  NoticeSize = 1
  BatchMax = 2
  BatchBytes = 3
  PollBytes = 3
  MaxLine = 2
  MaxRecords = 3
  MaxFile = 8
  a1 = a1
  a2 = a2
  s1 = s1
  Jobs = {a1}
  Strays = {s1}
  AgentCount = 2
  MaxFaults = 1
  SubmitKeys = {k1}
  Bodies = {b1, b2}
  Width = 2
  CallTries = 2
  Clients = {q1, q2}
  r1 = r1
  r2 = r2
  Requests = {r1, r2}
  ExecutorSize = 1
  Workers = {t1, t2}
  RpcThreads = {g1}
  PoolSize = 1
  Outcomes = {"ok"}
  MaxAttempts = 2
  MaxStored = 4
  PageLimit = 2
  ViewMax = 2
  EventWriters = {e1, e2, e3}
  Modes = {"events"}
  RunLimit = 6
  ByteLimit = 50
  ParameterBytes = 1
  Parameter <- ParameterLimits
  Bases <- SweepBases
  Dimensions <- GridDimensions
  MaxPath = 5
  GpuCounts = {0, 1, 2}
  MaxDelay = 9
  w1 = w1
  w2 = w2
  Sessions = {s2, s3, s4}
  LockWorkers = {w1, w2}
  LockRuns = {r1, r2}
  PlacedOn <- Placement
  GpusOf <- GpuNumbers
  c1 = c1
  c2 = c2
  c3 = c3
  Paths = {p1}
  Contents = {c1, c2, c3}
  ContentSize <- SizesTo3
  Quota = 2
  MaxCount = 1
  Handlers = {h1, h2}
  Readers = {d1, d2}
  Faults <- ProcessCrash
  UploadTries = 2
INVARIANT DroppedIsMarked
CHECK_DEADLOCK FALSE
