\* Console: a ring of two characters beside the one it never holds; both keys of
\* one modifier, one of which sends an escape first, another modifier and a
\* letter; a port of two bytes, which an interrupt may find half full.
\* Exception stack: eleven words, two frames with their scratch, and locals below
\* both; a third fault overflows.  Two instructions tell a wrong return address
\* from the right.
\* File: six bytes, of two kinds and 0, written up to two at a time.
\* Start-up: three CPUs, of which the MP table may name fewer, or one more.
SPECIFICATION LibrarySpec
VIEW LibraryView
CONSTANTS
  CONSBUFSIZE = 3
  Keys = {"lctl", "rctl", "lshift", "a"}
  Serial = {"s"}
  PortSize = 2
  Words = 11
  Eips = {1, 2}
  MAX_DATA_SIZE = 6
  Bytes = {0, 1, 2}
  MaxWrite = 2
  NCPU = 3
  bootcpu = 0
  PTSIZE = 20
INVARIANTS ConsoleRight StackIntact OutsideRight StringsRight LinesRight BootRight StartRight TrapsRight
PROPERTIES ReturnsToFault FileSpec
