\* A device with an old and a new stream, plans changing, one crash or failed
\* statement.
SPECIFICATION Spec
CONSTANTS
  o1 = o1  d1 = d1
  Org = {o1}
  Device = {d1}
  Conn = {c1, c2}
  OrgOf <- OneOrg
  DevOf <- OneDevice
  Slot = {s1, s2}
  Plan = {"free", "pro"}
  MaxWorkers <- SeedMax
  TopCap = 2
  TtlPlan <- AllTtl
  CapTicks <- NoCap
  MaxTicks = 0
  PoolCfgs <- PoolOnly
  Requests = 1
  MaxFaults = 1
SYMMETRY Slots
INVARIANTS TypeOK Bookkeeping OvershootBounded
PROPERTIES ImplementsLife GrantWithinCap
