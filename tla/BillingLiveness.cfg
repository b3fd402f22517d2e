\* Two requests at a time, one of them cut off; the database works.
SPECIFICATION Spec
CONSTANTS
  Org = {o1}
  Plan = {"free", "pro"}
  SubId = {r1, r2}
  Hook = {h1}
  MaxEvents = 3
  MaxCuts = 1
  MaxErrs = 0
PROPERTIES DunningResolves CancelReachesFree
