\* Three CPUs: two are enough for every race of holding(), and with the third
\* one CPU spins while the lock passes between the two others.
SPECIFICATION FairSpec
CONSTANTS
  Cpus = {c0, c1, c2}
  NoCpu = NoCpu
INVARIANTS NoFalsePanic
PROPERTIES MutexSpec SomeoneGetsIn
