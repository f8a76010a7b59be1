\* Three environments, so that a child forks while its parent writes and forks
\* again; text and stack; four physical pages, so that they run out.
SPECIFICATION Spec
CONSTANTS
  Envs = {e1, e2, e3}
  Frames = {f1, f2, f3, f4}
  Values = {zero, one, two}
  Zero = zero
  NData = 0
  NoEnv = NoEnv
  NoFrame = NoFrame
  Undefined = Undefined
VIEW View
SYMMETRY Symmetry
INVARIANTS SharingSafe
PROPERTIES PrivateSpec
CHECK_DEADLOCK FALSE
