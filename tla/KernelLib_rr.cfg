\* Library programs on two CPUs under round robin: a parent, a child and a
\* third environment on two CPUs, so that one always waits.
SPECIFICATION LibSpec
CONSTANTS
  NENV = 4
  NCPU = 2
  NInit = 1
  GenMax = 1
  MIN_PRIORITY = 1
  BoostPeriod = 1
  Prios = {0}
  Scheduler = "ROUND_ROBIN"
  MaxLive = 3
  Forking = TRUE
INVARIANTS RunsAlone SlotsRight CpuRecorded NoWorkForZombies ReceiversBlocked KernelSurvives
PROPERTIES LifeSpec
