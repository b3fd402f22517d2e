\* Two or three actors in each service, and two failures.
SPECIFICATION FairSpec
CONSTANTS
  Served = {"hub", "routines", "rate", "vault"}
  Stream = {s1, s2}
  NoStream = NoStream
  Pusher = {p1, p2}
  Rest = {p1}
  Cap = 2
  MaxFalls = 2
  Routine = {r1, r2}
  NoRoutine = NoRoutine
  MaxTurns = 2
  MaxMisses = 2
  Plan = {"free", "enterprise"}
  Rpm <- SmallRpm
  Free = "free"
  TopRpm = 1
  Minute = 2
  CacheTime = 1
  Req = {q1, q2}
  MaxTime = 2
  MaxRequests = 4
  Name = {n1, n2}
  Secret = {v1, v2}
  NoSecret = NoSecret
  Client = {c1, c2}
  MaxPuts = 3
  MaxStops = 1
INVARIANTS TypeOK ClosedOnce OncePerTurn WindowBounded LimitIsRecent SecretsKept
PROPERTY DeadStreamEnds
CHECK_DEADLOCK FALSE
