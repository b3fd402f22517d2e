\* One stream, opened again and again, plans, pool and pinned limits changing, a
\* plan whose leases renew; two crashes or failed statements.
SPECIFICATION Spec
CONSTANTS
  o1 = o1  d1 = d1
  Org = {o1}
  Device = {d1}
  Conn = {c1}
  OrgOf <- OneOrg
  DevOf <- OneDevice
  Slot = {s1}
  Plan = {"free", "team"}
  MaxWorkers <- TeamMax
  TopCap = 1
  TtlPlan <- AllTtl
  CapTicks <- SeedCap
  MaxTicks = 1
  PoolCfgs <- PoolModes
  Requests = 1
  MaxFaults = 2
PROPERTY LeasesEnd
