SPECIFICATION HookFairSpec
CONSTANTS
  p1 = p1
  p2 = p2
  w1 = w1
  k1 = k1
  k2 = k2
  k3 = k3
  r1 = r1
  r2 = r2
  r3 = r3
  Pages = {p1, p2}
  Warmers = {w1}
  Hooks = {k1, k2, k3}
  Reads = {r1, r2}
  AtOnce = 1
  KeptHooks = 2
  KeptMs = 2
  RetryMs = 1
  None = None
INVARIANTS
  OneReadPerKey
  KeptAsPromised
PROPERTY
  EveryoneIsAnswered
