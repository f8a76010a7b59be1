\* A program that receives with a bad address, and a sender on another CPU.
SPECIFICATION BadReceiveSpec
CONSTANTS
  NENV = 3
  NCPU = 2
  NInit = 1
  GenMax = 1
  MIN_PRIORITY = 1
  BoostPeriod = 1
  Prios = {0}
  Scheduler = "ROUND_ROBIN"
  MaxLive = 2
  Forking = TRUE
PROPERTIES SendNeedsBlockedTarget
