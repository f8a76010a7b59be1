\* Three children: two in the background while one is waited for.
SPECIFICATION Spec
CONSTANTS
  Children = {c1, c2, c3}
  NoChild = NoChild
  Kinds = {"exec", "pipe"}
  Raw = {0, 256, 9}
  Background = TRUE
  MayFail = TRUE
PROPERTIES ReportsOwnStatus PromptReturns
