\* Any program on two CPUs: two slots, so that a slot is often the last one,
\* is freed under a running environment and is reused; the smallest priority
\* range in which an environment can drop out of the scan; one generation, so
\* that every stale id resolves again.
SPECIFICATION Spec
CONSTANTS
  NENV = 2
  NCPU = 2
  NInit = 2
  GenMax = 1
  MIN_PRIORITY = 1
  BoostPeriod = 2
  Prios = {0, 1}
  Scheduler = "PRIORITIES"
INVARIANTS TypeOK KernelLockInv CurenvInv HaltedInv
