\* One run, every policy, two runner instances, two servers.
SPECIFICATION Spec
CONSTANTS
  i1 = i1
  i2 = i2
  k8s = k8s
  w1 = w1
  m1 = m1
  m2 = m2
  None = None
  Runs = {1}
  AttemptIds <- TwoAttempts
  Instances = {i1, i2}
  Workers = {k8s}
  Kubernetes = k8s
  Specs <- AllPolicies
  Outcomes <- RunnerOutcomes
  Servers = {m1, m2}
  MaxSequence = 1
  ScanLimit = 1
SYMMETRY Symmetry
INVARIANTS TypeOK StoreInv SingleClaimant AcceptedIsRecorded
PROPERTIES OutcomeIsFinal ExpiredLeaseIsFinal ImplementsLifecycle
