\* Three environments that do not fork on two CPUs, so that one always waits,
\* with priorities below MIN_PRIORITY, which is all that ageing reaches.
SPECIFICATION LibFairSpec
CONSTANTS
  NENV = 4
  NCPU = 2
  NInit = 3
  GenMax = 1
  MIN_PRIORITY = 2
  BoostPeriod = 2
  Prios = {0, 1}
  Scheduler = "PRIORITIES"
  MaxLive = 3
  Forking = FALSE
PROPERTIES RunnableRuns BootEnds
