\* The leader's database session ends and a second server takes the lock.
SPECIFICATION KubernetesSpec
CONSTANTS
  i1 = i1
  m1 = m1
  m2 = m2
  k8s = k8s
  None = None
  Runs = {1}
  AttemptIds <- OneAttempt
  Instances = {}
  Workers = {k8s}
  Kubernetes = k8s
  Specs <- OneTry
  Outcomes <- Success
  Servers = {m1, m2}
  MaxSequence = 0
  ScanLimit = 1
  MaxActive = 1
  AdmitBatch = 1
  Late = {}
INVARIANTS OneDispatcher
