CONSTANTS
  Threads = {t1, t2, t3}
  t1 = t1
  t2 = t2
  t3 = t3
  Builds = {"fast", "sse", "portable"}
  ProcessOf <- MCProcessOf
  Mortal = {2}
  Pids = {1, 2}
  Deployments <- MCDeployments
  NONE = NONE
SPECIFICATION Spec
INVARIANTS BackendHeld SlowForCause
SYMMETRY Symmetry
