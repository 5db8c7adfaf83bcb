\* One server that crashes and loses its database; two runs, one active Job.
SPECIFICATION KubernetesSpec
CONSTANTS
  i1 = i1
  m1 = m1
  m2 = m2
  k8s = k8s
  None = None
  Runs = {1, 2}
  AttemptIds <- TwoAttempts
  Instances = {}
  Workers = {k8s}
  Kubernetes = k8s
  Specs <- TwoTries
  Outcomes <- Success
  Servers = {m1}
  MaxSequence = 0
  ScanLimit = 1
  MaxActive = 1
  AdmitBatch = 1
  Late = {}
INVARIANTS AdmissionBounded LeaderHoldsLock CleanupMeansGone
PROPERTIES LiveJobKept
