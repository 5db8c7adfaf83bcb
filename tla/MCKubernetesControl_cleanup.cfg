\* Crashes, outages, runner calls and a create request that is executed late.
SPECIFICATION FairKubernetesSpec
CONSTANTS
  i1 = i1
  m1 = m1
  m2 = m2
  k8s = k8s
  None = None
  Runs = {1}
  AttemptIds <- OneAttempt
  Instances = {i1}
  Workers = {k8s}
  Kubernetes = k8s
  Specs <- OneTry
  Outcomes <- Success
  Servers = {m1}
  MaxSequence = 0
  ScanLimit = 1
  MaxActive = 1
  AdmitBatch = 1
  Late = {1}
PROPERTIES EndedIsGone LostJobNoticed ImplementsAttemptStore
