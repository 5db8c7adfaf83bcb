\* One GPU worker whose agent is replaced: with less capacity, or on another engine.
SPECIFICATION DockerSpec
CONSTANTS
  w1 = w1
  e1 = e1
  e2 = e2
  g1 = g1
  g2 = g2
  g3 = g3
  i1 = i1
  m1 = m1
  k8s = k8s
  None = None
  Runs = {1}
  AttemptIds <- TwoAttempts
  Instances = {i1}
  Workers = {w1}
  Kubernetes = k8s
  Specs <- Retried
  Outcomes <- Success
  Servers = {m1}
  MaxSequence = 0
  ScanLimit = 1
  Agents = {g1, g2, g3}
  AgentConfig <- Replaced
  Devices = {1}
  MaxInventories = 1
  Attended = {2}
INVARIANTS GpuExclusive GpuHeldUntilCleanup
PROPERTIES ImplementsAttemptStore EnginePinned NeverOversubscribed
