\* Everything at once: overlapping streams, interruptions, answers to any task, a crash
\* or a failed statement.
SPECIFICATION Spec
CONSTANTS
  Task = {t1}
  CodeTask = {t1}
  Executor = {e1}
  Sess = {s1, s2}
  MaxDrops = 1
  Cfgs <- OneOff
  Cuts = TRUE
  AnyTask = TRUE
  MaxAnswers = 1
  MaxFaults = 1
SYMMETRY Streams
INVARIANTS TypeOK GatedMerge MergedIsReal BlockedHasPr
PROPERTIES ImplementsTaskLife
CHECK_DEADLOCK FALSE
