\* Two streams of a Free org ask at the same time.
SPECIFICATION Spec
CONSTANTS
  o1 = o1  d1 = d1
  Org = {o1}
  Device = {d1}
  Conn = {c1, c2}
  OrgOf <- OneOrg
  DevOf <- OneDevice
  Slot = {s1, s2}
  Plan = {"free"}
  MaxWorkers <- SeedMax
  TopCap = 1
  TtlPlan <- SeedTtl
  CapTicks <- SeedCap
  MaxTicks = 1
  PoolCfgs <- PoolOnly
  Requests = 1
  MaxFaults = 0
INVARIANT NeverOverMaxWorkers
