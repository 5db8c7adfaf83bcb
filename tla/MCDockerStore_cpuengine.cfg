\* A worker without GPU support is moved to another engine.
SPECIFICATION DockerSpec
CONSTANTS
  w1 = w1
  e1 = e1
  e2 = e2
  g1 = g1
  g2 = g2
  g3 = g3
  i1 = i1
  m1 = m1
  k8s = k8s
  None = None
  Runs = {1}
  AttemptIds <- OneAttempt
  Instances = {}
  Workers = {w1}
  Kubernetes = k8s
  Specs <- CpuAndGpu
  Outcomes <- Success
  Servers = {}
  MaxSequence = 0
  ScanLimit = 1
  Agents = {g1, g2}
  AgentConfig <- CpuMoved
  Devices = {1}
  MaxInventories = 1
  Attended = {}
PROPERTIES EnginePinned
