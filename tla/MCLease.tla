------------------------------ MODULE MCLease ------------------------------
(* Small instances of Lease for TLC. *)
EXTENDS Lease, TLC

CONSTANTS o1, d1

OneOrg == [d \in Device |-> o1]
\* Every stream is of one device: with two, an executor that reconnects while
\* its old handler is still running.
OneDevice == [c \in Conn |-> d1]

\* plan_catalog scaled down: Free has one worker, a TTL and a weekly cap.
SeedMax == [p \in Plan |-> IF p = "free" THEN 1 ELSE 2]
SeedTtl == {"free"}
SeedCap == [p \in Plan |-> IF p = "free" THEN 1 ELSE 0]
\* A catalogue without weekly hours.
NoCap == [p \in Plan |-> 0]

\* Paid plans with a TTL too, so that their leases renew.
AllTtl == Plan

\* A catalogue with an unlimited plan.
TeamMax == [p \in Plan |-> IF p = "team" THEN -1 ELSE 1]

SharedPool == [paused |-> FALSE, mode |-> "pool", conc |-> 0]
PoolOnly == {SharedPool}
\* The shared pool, the pool switched off, or pinned workers for one task.
PoolModes == {SharedPool, [SharedPool EXCEPT !.paused = TRUE],
              [SharedPool EXCEPT !.mode = "pinned", !.conc = 1]}

Slots == Permutations(Slot)
=============================================================================
