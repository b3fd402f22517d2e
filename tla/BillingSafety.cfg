\* Two requests at a time, one of them cut off, one statement failing.
SPECIFICATION Spec
CONSTANTS
  Org = {o1}
  Plan = {"free", "pro"}
  SubId = {r1, r2}
  Hook = {h1, h2}
  MaxEvents = 3
  MaxCuts = 1
  MaxErrs = 1
SYMMETRY Alike
INVARIANTS TypeOK PlansAgree InvoicesArePaid
PROPERTY DowngradeHasCause
