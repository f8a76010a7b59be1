\* One address, so one page table, in each of two environments, and six pages:
\* both directories, both tables, the page that is sent and the one allocated
\* on the way; less when a call has lost a page or pages are in use.
SPECIFICATION TlbSpec
CONSTANTS
  Envs = {e1, e2}
  Pages = {p1, p2, p3, p4, p5, p6}
  NVas = 1
  PerTable = 1
  RefLimit = 4
  NoPage = NoPage
  NoEnv = NoEnv
  Cpus = {c1, c2}
SYMMETRY Symmetry
VIEW View
INVARIANTS PagesAccountedFor TlbRight
PROPERTIES NoWriteGained LostOnlyForLackOfTable PageDelivered
CHECK_DEADLOCK FALSE
