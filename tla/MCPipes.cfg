\* A line of four commands: one writes for ever, one does as it likes, two read
\* to the end of their input; and the sieve without a prime, with two, and with
\* six, so that seven processes wait for one another, and pipes fill.
SPECIFICATION PipesSpec
CONSTANTS
  N = 4
  Capacity = 1
  Kind <- YesHeadCatCat
  MayFail = TRUE
  Ns = {1, 4, 13}
  Room = 2
INVARIANTS PipesRight
PROPERTIES EveryLineEnds EverySieveEnds
CHECK_DEADLOCK FALSE
