\* As in MCLibrary.cfg; the interrupt that is told here is one of its calls.
SPECIFICATION LibrarySpec
VIEW LibraryView
CONSTANTS
  CONSBUFSIZE = 3
  Keys = {"lctl", "rctl", "lshift", "a"}
  Serial = {"s"}
  PortSize = 2
  Words = 11
  Eips = {1, 2}
  MAX_DATA_SIZE = 6
  Bytes = {0, 1, 2}
  MaxWrite = 2
  NCPU = 3
  bootcpu = 0
  PTSIZE = 20
INVARIANT SpuriousHarmless
