\* Two runs, possibly reruns, retried and recovered one candidate per scan.
SPECIFICATION FairSpec
CONSTANTS
  i1 = i1
  i2 = i2
  k8s = k8s
  w1 = w1
  m1 = m1
  m2 = m2
  None = None
  Runs = {1, 2}
  AttemptIds <- TwoAttempts
  Instances = {i1}
  Workers = {w1}
  Kubernetes = k8s
  Specs <- OneTryOrAll
  Outcomes <- Exits
  Servers = {m1}
  MaxSequence = 0
  ScanLimit = 1
INVARIANTS EventsTellStatus
PROPERTIES OverdueIsEnded EveryRunEnds
