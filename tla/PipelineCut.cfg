\* A handler is interrupted between two of its statements.
SPECIFICATION Spec
CONSTANTS
  Task = {t1}
  CodeTask = {t1}
  Executor = {e1}
  Sess = {s1}
  MaxDrops = 1
  Cfgs <- Strict
  Cuts = TRUE
  AnyTask = FALSE
  MaxAnswers = 0
  MaxFaults = 0
PROPERTY PrProgress
CHECK_DEADLOCK FALSE
