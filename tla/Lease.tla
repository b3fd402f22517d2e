------------------------------- MODULE Lease -------------------------------
(***************************************************************************)
(* The lease manager of the cerebro: tryGrant (one run per LEASE_REQUEST   *)
(* received on an executor stream) and the reaper (one background          *)
(* goroutine), both working on the same worker_instance, lease,            *)
(* worker_hours_counter and usage_event tables.                            *)
(*                                                                         *)
(* A slot stands for one grant: the worker_instance row that GrantLease    *)
(* inserts and the lease row that follows it.  Neither row is ever reused, *)
(* so one slot names both.                                                 *)
(***************************************************************************)
EXTENDS Integers, FiniteSets

CONSTANTS
  Org, Device, Conn,  \* tenants, enrolled devices, server-side Stream handlers
  OrgOf,              \* the org a device is enrolled in
  DevOf,              \* the device whose certificate opened a stream
  Slot,               \* bound: grants in one behaviour
  Plan,               \* rows of plan_catalog
  MaxWorkers,         \* max_workers of a plan, -1 for NULL (no limit)
  TopCap,             \* at least every max_workers of the catalogue
  TtlPlan,            \* plans with a lease_ttl_min
  CapTicks,           \* weekly_worker_hours in reaper ticks, 0 for NULL
  MaxTicks,           \* the weekly counter saturates here, above every cap
  PoolCfgs,           \* bound: the pool configurations an org moves between
  Requests,           \* lease requests an executor queues (1 + extra leases)
  MaxFaults           \* bound: crashes of the cerebro and failed statements

\* behavior.paused and behavior.mode, and the summed concurrency of the enabled
\* pinned workers.
PoolCfg == [paused : BOOLEAN, mode : {"pool", "pinned"}, conc : Nat]

ASSUME ConstAssumption ==
  /\ Org # {}
  /\ OrgOf \in [Device -> Org]
  /\ DevOf \in [Conn -> Device]
  /\ IsFiniteSet(Slot) /\ IsFiniteSet(Conn)
  /\ "free" \in Plan
  /\ MaxWorkers \in [Plan -> Nat \cup {-1}]
  /\ TopCap \in Nat /\ \A p \in Plan : MaxWorkers[p] <= TopCap
  /\ TtlPlan \subseteq Plan
  /\ MaxTicks \in Nat
  /\ CapTicks \in [Plan -> 0..MaxTicks]
  /\ PoolCfgs \subseteq PoolCfg
  /\ Requests \in Nat /\ MaxFaults \in Nat

NoSlot == "noslot"

ASSUME SlotAssumption == NoSlot \notin Slot

VARIABLES
  plan,     \* org.plan
  pool,     \* pool_config.behavior and the enabled pinned workers' concurrency
  revoked,  \* devices with revoked_at set (never cleared)
  used,     \* worker_hours_counter of the current week, in reaper ticks
  worker,   \* worker_instance.status
  lease,    \* the lease row
  ledger,   \* usage_event rows of the slot
  conn,     \* is the stream open, and the LEASE_REQUESTs not yet handled on it
  grant,    \* where a stream's handler stands in tryGrant
  reaper,   \* where the reaper stands in reapOnce
  crashes,
  errs,      \* steps in which a statement failed
  uncounted, \* history: leases given out on a count that was not read
  torn       \* history: slots whose revoke failed or stopped half-way

vars == <<plan, pool, revoked, used, worker, lease, ledger, conn, grant,
          reaper, crashes, errs, uncounted, torn>>
dbVars == <<worker, lease, ledger>>
envVars == <<plan, pool, revoked, crashes>>
failVars == <<errs, uncounted, torn>>

ConnOrg(c) == OrgOf[DevOf[c]]

Reason == {"killed", "hours_cap", "expired"}

\* auto_renew and expires_at are fixed at insertion but for RenewLease; exp is
\* what time.Now().After(expires_at) tells apart.
LeaseRow == [st : {"none", "active", "ended"}, org : Org,
             renew : BOOLEAN, exp : {"never", "pending", "past"},
             why : Reason \cup {"none"}]

GrantPc == {"idle", "count", "worker", "lease", "usage"}

\* count is history: was the number compared with capW that of the leases, and
\* has another handler inserted one since?
GrantState == [pc : GrantPc, plan : Plan, capW : Nat \cup {-1},
               slot : Slot \cup {NoSlot},
               count : {"read", "raced", "unread"}]

ReaperPc == {"sleep", "loop", "check", "end", "worker", "ledger"}

ReaperState == [pc : ReaperPc, todo : SUBSET Slot, cur : Slot \cup {NoSlot},
                why : Reason \cup {"none"}]

TypeOK ==
  /\ plan \in [Org -> Plan]
  /\ pool \in [Org -> PoolCfgs]
  /\ revoked \in SUBSET Device
  /\ used \in [Org -> 0..MaxTicks]
  /\ worker \in [Slot -> {"none", "running", "paused", "stopped"}]
  /\ lease \in [Slot -> LeaseRow]
  /\ ledger \in [Slot -> [issued : Nat, ended : Nat]]
  /\ conn \in [Conn -> [open : BOOLEAN, reqs : 0..Requests]]
  /\ grant \in [Conn -> GrantState]
  /\ reaper \in ReaperState
  /\ crashes \in Nat /\ errs \in Nat /\ crashes + errs <= MaxFaults
  /\ uncounted \cup torn \subseteq Slot \cup {NoSlot}

-----------------------------------------------------------------------------
(* What the queries return. *)

\* SELECT ... FROM lease WHERE ended_at IS NULL
ActiveSlots == {s \in Slot : lease[s].st = "active"}

Active(o) == {s \in ActiveSlots : lease[s].org = o}

OrgHasRevokedDevice(o) == \E d \in revoked : OrgOf[d] = o

\* capW: max_workers, lowered to the pinned concurrency in pinned mode.
EffectiveCap(o) ==
  LET m == MaxWorkers[plan[o]]
      pc == pool[o].conc
  IN  IF pool[o].mode = "pinned" /\ (m < 0 \/ pc < m) THEN pc ELSE m

OverHours(p, o) == CapTicks[p] > 0 /\ used[o] >= CapTicks[p]

IdleGrant == [pc |-> "idle", plan |-> "free", capW |-> -1, slot |-> NoSlot,
              count |-> "read"]

IdleReaper == [pc |-> "sleep", todo |-> {}, cur |-> NoSlot, why |-> "none"]

\* A statement of this step fails.  Most errors are dropped: the handler goes
\* on with what a failed query leaves in its variable (0, false, nil).
Fails == crashes + errs < MaxFaults /\ errs' = errs + 1

-----------------------------------------------------------------------------
(* Streams. *)

\* Stream: the serial must belong to a device that is not revoked.  It is
\* looked up once; the executor has queued its lease requests before.
OpenStream(c) ==
  /\ ~conn[c].open
  /\ DevOf[c] \notin revoked
  /\ conn' = [conn EXCEPT ![c] = [open |-> TRUE, reqs |-> Requests]]
  /\ UNCHANGED <<envVars, used, dbVars, grant, reaper, failVars>>

\* The executor goes away.  The handler's context is cancelled: the statement
\* it would issue next fails, and what it already wrote stays.
CloseStream(c) ==
  /\ conn[c].open
  /\ conn' = [conn EXCEPT ![c] = [open |-> FALSE, reqs |-> 0]]
  /\ grant' = [grant EXCEPT ![c] = IdleGrant]
  /\ UNCHANGED <<envVars, used, dbVars, reaper, failVars>>

-----------------------------------------------------------------------------
(* tryGrant, in the order of its statements. *)

\* Variant: a request is served that was never queued.
GrantBeginUnqueued(c) ==
  /\ conn[c].open /\ grant[c].pc = "idle"
  /\ conn' = [conn EXCEPT ![c].reqs = @ - 1]
  /\ grant' = [grant EXCEPT ![c].pc = "count"]
  /\ UNCHANGED <<envVars, used, dbVars, reaper, failVars>>

\* What the handler knows when it comes to count the leases.
Begun(c, cap) == [pc |-> "count", plan |-> plan[ConnOrg(c)], capW |-> cap,
                  slot |-> NoSlot, count |-> "read"]

\* PoolPaused, GetPlanLimits, PoolMode, PinnedConcurrency.
GrantBegin(c) ==
  /\ conn[c].open /\ conn[c].reqs > 0 /\ grant[c].pc = "idle"
  /\ conn' = [conn EXCEPT ![c].reqs = @ - 1]
  /\ IF pool[ConnOrg(c)].paused
     THEN UNCHANGED grant                               \* "pool_paused"
     ELSE grant' = [grant EXCEPT ![c] = Begun(c, EffectiveCap(ConnOrg(c)))]
  /\ UNCHANGED <<envVars, used, dbVars, reaper, failVars>>

\* The same when one of them fails.  Without the plan the request is refused, a
\* pinned concurrency of 0 never grants; a paused pool is not seen to be paused,
\* nor a pinned one to be pinned.
GrantMisread(c) ==
  /\ conn[c].open /\ conn[c].reqs > 0 /\ grant[c].pc = "idle"
  /\ Fails
  /\ conn' = [conn EXCEPT ![c].reqs = @ - 1]
  /\ \/ UNCHANGED grant
     \/ \E cap \in {EffectiveCap(ConnOrg(c)), MaxWorkers[plan[ConnOrg(c)]]} :
          grant' = [grant EXCEPT ![c] = Begun(c, cap)]
  /\ UNCHANGED <<envVars, used, dbVars, reaper, uncounted, torn>>

\* Variant: off by one in the comparison with max_workers.
AtCapOffByOne(c, n) == grant[c].capW >= 0 /\ n > grant[c].capW

AtCap(c, n) == grant[c].capW >= 0 /\ n >= grant[c].capW

ActiveLeaseCount(c) == Cardinality(Active(ConnOrg(c)))

\* ActiveLeaseCount against capW, then WeekSecondsUsed against the weekly cap.
GrantCount(c) ==
  /\ grant[c].pc = "count"
  /\ grant' = [grant EXCEPT ![c] =
                 IF \/ AtCap(c, ActiveLeaseCount(c))
                    \/ OverHours(grant[c].plan, ConnOrg(c))
                 THEN IdleGrant                         \* "cap" / "hours_cap"
                 ELSE [@ EXCEPT !.pc = "worker"]]
  /\ UNCHANGED <<envVars, used, dbVars, conn, reaper, failVars>>

\* The same when one or both queries fail: each reads 0 and refuses nothing,
\* unless capW is 0.
GrantCountMisread(c) ==
  /\ grant[c].pc = "count"
  /\ Fails
  /\ \E n \in {0, ActiveLeaseCount(c)} :
       grant' = [grant EXCEPT ![c] =
                   IF AtCap(c, n) THEN IdleGrant
                   ELSE [@ EXCEPT !.pc = "worker",
                     !.count = IF n = ActiveLeaseCount(c) THEN "read" ELSE "unread"]]
  /\ UNCHANGED <<envVars, used, dbVars, conn, reaper, uncounted, torn>>

\* GrantLease, first statement: the worker_instance row, already 'running'.
InsertWorker(c) ==
  /\ grant[c].pc = "worker"
  /\ \E s \in Slot :
       /\ worker[s] = "none"
       /\ worker' = [worker EXCEPT ![s] = "running"]
       /\ grant' = [grant EXCEPT ![c] = [@ EXCEPT !.pc = "lease", !.slot = s]]
  /\ UNCHANGED <<envVars, used, lease, ledger, conn, reaper, failVars>>

\* Does the lease of stream c make the count of stream d out of date?
Overtakes(c, d) ==
  /\ c # d /\ ConnOrg(c) = ConnOrg(d)
  /\ grant[d].pc \in {"worker", "lease"} /\ grant[d].count = "read"

\* GrantLease, second statement: the lease row, with the TTL and auto_renew of
\* the plan read in GrantBegin.
InsertLease(c) ==
  /\ grant[c].pc = "lease"
  /\ lease' = [lease EXCEPT ![grant[c].slot] =
                 [st |-> "active", org |-> ConnOrg(c),
                  renew |-> grant[c].plan # "free",
                  exp |-> IF grant[c].plan \in TtlPlan THEN "pending"
                                                       ELSE "never",
                  why |-> "none"]]
  /\ uncounted' = IF grant[c].count = "unread" THEN uncounted \cup {grant[c].slot}
                                               ELSE uncounted
  /\ grant' = [d \in Conn |->
                 IF d = c THEN [grant[d] EXCEPT !.pc = "usage"]
                 ELSE IF Overtakes(c, d) THEN [grant[d] EXCEPT !.count = "raced"]
                 ELSE grant[d]]
  /\ UNCHANGED <<envVars, used, worker, ledger, conn, reaper, errs, torn>>

\* The link to the worker and the two usage events; LEASE_GRANTED follows.
RecordIssued(c) ==
  /\ grant[c].pc = "usage"
  /\ ledger' = [ledger EXCEPT ![grant[c].slot] =
                  [issued |-> @.issued + 1, ended |-> @.ended]]
  /\ grant' = [grant EXCEPT ![c] = IdleGrant]
  /\ UNCHANGED <<envVars, used, worker, lease, conn, reaper, failVars>>

\* An insert or an update of GrantLease fails, and the request is refused with
\* what was written left as it is; or a usage event is lost.
GrantFails(c) ==
  /\ grant[c].pc \in {"worker", "lease", "usage"}
  /\ Fails
  /\ grant' = [grant EXCEPT ![c] = IdleGrant]
  /\ UNCHANGED <<envVars, used, dbVars, conn, reaper, uncounted, torn>>

-----------------------------------------------------------------------------
(* reapOnce. *)

ReaperVarsOnly == UNCHANGED <<envVars, conn, grant, uncounted>>

\* Variant: ActiveLeases without its WHERE ended_at IS NULL.
ReapSnapshotAll ==
  /\ reaper.pc = "sleep"
  /\ reaper' = [reaper EXCEPT !.pc = "loop",
                  !.todo = {s \in Slot : lease[s].st # "none"}]
  /\ ReaperVarsOnly /\ UNCHANGED <<used, dbVars, errs, torn>>

\* The ticker fires: ActiveLeases is read once for the whole pass.  If that
\* fails there is no pass.
ReapSnapshot ==
  /\ reaper.pc = "sleep"
  /\ reaper' = [reaper EXCEPT !.pc = "loop", !.todo = ActiveSlots]
  /\ ReaperVarsOnly /\ UNCHANGED <<used, dbVars, errs, torn>>

TakesNext(s) ==
  /\ reaper.pc = "loop" /\ s \in reaper.todo
  /\ reaper' = [reaper EXCEPT !.pc = "check", !.cur = s, !.todo = @ \ {s}]
  /\ ReaperVarsOnly /\ UNCHANGED <<dbVars, torn>>

\* Next lease of the snapshot: AddWorkerSeconds for its org.
ReapTake(s) ==
  /\ TakesNext(s)
  /\ used' = [used EXCEPT ![lease[s].org] = IF @ < MaxTicks THEN @ + 1 ELSE @]
  /\ UNCHANGED errs

\* AddWorkerSeconds fails: this tick is not charged.
ReapTakeUncharged(s) == TakesNext(s) /\ Fails /\ UNCHANGED used

\* The reason reapOnce finds to revoke slot s, if any, when what it looks for
\* the reasons `unread` with fails: kill-switch first, then the weekly cap of
\* the plan the org has now, then a TTL that may not renew.
ReasonBut(s, unread) ==
  LET l == lease[s]
  IN  IF "killed" \notin unread /\ OrgHasRevokedDevice(l.org) THEN "killed"
      ELSE IF "hours_cap" \notin unread /\ OverHours(plan[l.org], l.org)
           THEN "hours_cap"
      ELSE IF l.exp = "past" /\ ~l.renew THEN "expired"
      ELSE "none"

\* Variant: no weekly cap.
RevokeReasonNoHours(s) == ReasonBut(s, {"hours_cap"})

RevokeReason(s) == ReasonBut(s, {})

\* RenewLease: ttlSec 0 puts expires_at at the present instant.
Renewed(l) ==
  [l EXCEPT !.exp = IF plan[l.org] \in TtlPlan THEN "pending" ELSE "past"]

\* The reaper goes on to revoke its lease for reason r, or to the next lease.
Judges(r) ==
  reaper' = IF r # "none" THEN [reaper EXCEPT !.pc = "end", !.why = r]
                          ELSE [reaper EXCEPT !.pc = "loop", !.cur = NoSlot]

\* The leases once slot s has been judged: one that may, renews.
RenewedIf(s, r) ==
  IF r = "none" /\ lease[s].exp = "past"
  THEN [lease EXCEPT ![s] = Renewed(@)] ELSE lease

\* Variant: revoke parks the worker before it ends the lease.
ReapCheckParksFirst ==
  /\ reaper.pc = "check"
  /\ LET r == RevokeReason(reaper.cur)
     IN  reaper' = IF r # "none"
                   THEN [reaper EXCEPT !.pc = "worker", !.why = r]
                   ELSE [reaper EXCEPT !.pc = "loop", !.cur = NoSlot]
  /\ ReaperVarsOnly /\ UNCHANGED <<used, worker, ledger, lease, errs, torn>>

ReapCheck ==
  /\ reaper.pc = "check"
  /\ Judges(RevokeReason(reaper.cur))
  /\ lease' = RenewedIf(reaper.cur, RevokeReason(reaper.cur))
  /\ ReaperVarsOnly /\ UNCHANGED <<used, worker, ledger, errs, torn>>

\* The same when a statement fails: a revoked device, the plan or the hours are
\* not seen, or the lease is not renewed.
ReapCheckMisread ==
  /\ reaper.pc = "check"
  /\ Fails
  /\ \E unread \in SUBSET {"killed", "hours_cap"} :
       LET r == ReasonBut(reaper.cur, unread)
       IN  /\ Judges(r)
           /\ lease' \in {lease, RenewedIf(reaper.cur, r)}
  /\ ReaperVarsOnly /\ UNCHANGED <<used, worker, ledger, torn>>

\* revoke: EndLease touches the row only while ended_at IS NULL.
EndLease ==
  /\ reaper.pc = "end"
  /\ lease' = IF lease[reaper.cur].st = "active"
              THEN [lease EXCEPT ![reaper.cur] =
                      [@ EXCEPT !.st = "ended", !.why = reaper.why]]
              ELSE lease
  /\ reaper' = [reaper EXCEPT !.pc = "worker"]
  /\ ReaperVarsOnly /\ UNCHANGED <<used, worker, ledger, errs, torn>>

\* revoke: PauseWorker for an expiry (not a stopped worker), else StopWorker.
ParkWorker ==
  /\ reaper.pc = "worker"
  /\ LET w == worker[reaper.cur]
     IN  worker' = [worker EXCEPT ![reaper.cur] =
                      IF reaper.why # "expired" THEN "stopped"
                      ELSE IF w = "stopped" THEN w ELSE "paused"]
  /\ reaper' = [reaper EXCEPT !.pc = "ledger"]
  /\ ReaperVarsOnly /\ UNCHANGED <<used, lease, ledger, errs, torn>>

\* EndLease or ParkWorker fails and revoke goes on with the next: a worker is
\* parked whose lease is active, or a lease ended whose worker runs.
RevokeTears ==
  /\ reaper.pc \in {"end", "worker"}
  /\ Fails
  /\ reaper' = [reaper EXCEPT !.pc = IF @ = "end" THEN "worker" ELSE "ledger"]
  /\ torn' = torn \cup {reaper.cur}
  /\ ReaperVarsOnly /\ UNCHANGED <<used, dbVars>>

NextLease ==
  /\ reaper.pc = "ledger"
  /\ reaper' = [reaper EXCEPT !.pc = "loop", !.cur = NoSlot, !.why = "none"]
  /\ ReaperVarsOnly /\ UNCHANGED <<used, worker, lease, torn>>

\* revoke: the usage events, the two pushes and the notification.
RecordEnded ==
  /\ NextLease
  /\ ledger' = [ledger EXCEPT ![reaper.cur] =
                  [issued |-> @.issued, ended |-> @.ended + 1]]
  /\ UNCHANGED errs

\* The usage events are lost.
RecordEndedFails == NextLease /\ Fails /\ UNCHANGED ledger

ReapDone ==
  /\ reaper.pc = "loop" /\ reaper.todo = {}
  /\ reaper' = IdleReaper
  /\ ReaperVarsOnly /\ UNCHANGED <<used, dbVars, errs, torn>>

ReaperStep ==
  \/ ReapSnapshot \/ (\E s \in Slot : ReapTake(s) \/ ReapTakeUncharged(s))
  \/ ReapCheck \/ ReapCheckMisread
  \/ EndLease \/ ParkWorker \/ RevokeTears
  \/ RecordEnded \/ RecordEndedFails \/ ReapDone

-----------------------------------------------------------------------------
(* The rest of the system, as this component sees it. *)

\* SetPlan, UpsertSubscription, DowngradeToFree and AdminSetOrgPlan all write
\* org.plan and none of them looks at the leases.
ChangePlan(o) ==
  /\ \E p \in Plan \ {plan[o]} : plan' = [plan EXCEPT ![o] = p]
  /\ UNCHANGED <<pool, revoked, crashes, used, dbVars, conn, grant, reaper,
                 failVars>>

\* PUT /v1/pool-config, and the CRUD of pinned workers.
UpdatePool(o) ==
  /\ \E cfg \in PoolCfgs \ {pool[o]} : pool' = [pool EXCEPT ![o] = cfg]
  /\ UNCHANGED <<plan, revoked, crashes, used, dbVars, conn, grant, reaper,
                 failVars>>

\* POST /v1/devices/{id}/revoke.  An open stream stays open.
RevokeDevice(d) ==
  /\ d \notin revoked
  /\ revoked' = revoked \cup {d}
  /\ UNCHANGED <<plan, pool, crashes, used, dbVars, conn, grant, reaper,
                 failVars>>

\* expires_at of an active lease passes.
TtlElapses(s) ==
  /\ lease[s].st = "active" /\ lease[s].exp = "pending"
  /\ lease' = [lease EXCEPT ![s] = [@ EXCEPT !.exp = "past"]]
  /\ UNCHANGED <<envVars, used, worker, ledger, conn, grant, reaper, failVars>>

\* date_trunc('week', now()) moves on: every org reads a fresh counter.
WeekRolls ==
  /\ \E o \in Org : used[o] # 0
  /\ used' = [o \in Org |-> 0]
  /\ UNCHANGED <<envVars, dbVars, conn, grant, reaper, failVars>>

\* The cerebro dies and starts again: goroutines are gone, tables stay.
Crash ==
  /\ crashes + errs < MaxFaults
  /\ crashes' = crashes + 1
  /\ conn' = [c \in Conn |-> [open |-> FALSE, reqs |-> 0]]
  /\ grant' = [c \in Conn |-> IdleGrant]
  /\ reaper' = IdleReaper
  /\ torn' = IF reaper.pc = "worker" THEN torn \cup {reaper.cur} ELSE torn
  /\ UNCHANGED <<plan, pool, revoked, used, dbVars, errs, uncounted>>

GrantStep(c) ==
  \/ GrantBegin(c) \/ GrantMisread(c) \/ GrantCount(c) \/ GrantCountMisread(c)
  \/ InsertWorker(c) \/ InsertLease(c) \/ RecordIssued(c) \/ GrantFails(c)

Environment ==
  \/ \E o \in Org : ChangePlan(o) \/ UpdatePool(o)
  \/ \E d \in Device : RevokeDevice(d)
  \/ \E s \in Slot : TtlElapses(s)
  \/ WeekRolls
  \/ Crash

Next ==
  \/ \E c \in Conn : OpenStream(c) \/ CloseStream(c) \/ GrantStep(c)
  \/ ReaperStep
  \/ Environment

NoLease(o) == [st |-> "none", org |-> o, renew |-> FALSE,
               exp |-> "never", why |-> "none"]

Init ==
  /\ plan \in [Org -> Plan]
  /\ pool \in [Org -> PoolCfgs]
  /\ revoked = {}
  /\ used = [o \in Org |-> 0]
  /\ worker = [s \in Slot |-> "none"]
  /\ lease = [s \in Slot |-> NoLease(CHOOSE o \in Org : TRUE)]
  /\ ledger = [s \in Slot |-> [issued |-> 0, ended |-> 0]]
  /\ conn = [c \in Conn |-> [open |-> FALSE, reqs |-> 0]]
  /\ grant = [c \in Conn |-> IdleGrant]
  /\ reaper = IdleReaper
  /\ crashes = 0 /\ errs = 0
  /\ uncounted = {} /\ torn = {}

\* RunReaper is a goroutine on a ticker: it keeps running passes.  Users,
\* executors, Stripe and crashes owe nothing.
Fairness == WF_vars(ReaperStep)

Spec == Init /\ [][Next]_vars /\ Fairness
-----------------------------------------------------------------------------
(* Correctness properties. *)

\* A lease that has not ended always has its worker 'running': revoke ends the
\* lease before it parks the worker, and grants create the worker first.  Only a
\* revoke whose EndLease failed parks the worker of an active lease.
ActiveMeansRunning ==
  \A s \in Slot \ torn : lease[s].st = "active" => worker[s] = "running"

\* end_reason tells the truth, whatever changed between the reaper's decision
\* and its writes: 'killed' only in an org with a revoked device, 'expired'
\* only for a lease that had a TTL and did not renew, and a worker is paused
\* (may be switched on again) exactly for the latter, unless its revoke tore.
EndReasonSound ==
  /\ \A s \in Slot :
       /\ lease[s].why = "killed" => OrgHasRevokedDevice(lease[s].org)
       /\ lease[s].why = "expired" => lease[s].exp = "past" /\ ~lease[s].renew
  /\ \A s \in Slot \ torn :
       /\ worker[s] = "paused" => lease[s].st = "ended" /\ lease[s].why = "expired"
       /\ worker[s] = "stopped" =>
            lease[s].st = "ended" /\ lease[s].why \in {"killed", "hours_cap"}

\* The usage ledger that worker-hours are billed from: a grant is issued at
\* most once; it is closed at most once, and only for a lease that ended and
\* whose worker was parked, however passes, crashes and grants interleave.  A
\* revoke that tore is repeated by a later pass, and closes the grant again.
LedgerClosedOnce ==
  /\ \A s \in Slot : ledger[s].issued <= 1
  /\ \A s \in Slot \ torn :
       /\ ledger[s].ended <= 1
       /\ ledger[s].ended = 1 =>
            lease[s].st = "ended" /\ worker[s] \in {"paused", "stopped"}

\* A lease row that has ended is never written again: no renewal, no second
\* reason and no grant reuses it.
EndedIsFinal ==
  [][\A s \in Slot : lease[s].st = "ended" => lease'[s] = lease[s]]_vars

Conns(o) == {c \in Conn : ConnOrg(c) = o}

\* Handlers that passed ActiveLeaseCount and have not inserted their lease.
Inserting(o) == {c \in Conns(o) : grant[c].pc \in {"worker", "lease"}}

AllPlansLimited == \A p \in Plan : MaxWorkers[p] # -1

\* The check of max_workers and the insert are not one transaction, and the check
\* passes when its query fails, so an org can exceed the cap.  By how much: among
\* the leases whose count was read, by one for each other open stream; in all, by
\* one more for each statement that failed.
OvershootBounded ==
  AllPlansLimited =>
    \A o \in Org : Conns(o) # {} =>
      LET quota == TopCap + Cardinality(Conns(o)) - 1
      IN  /\ Cardinality(Active(o) \ uncounted)
               + Cardinality({c \in Inserting(o) : grant[c].count # "unread"})
               <= quota
          /\ Cardinality(Active(o)) + Cardinality(Inserting(o)) <= quota + errs

\* A lease goes over the cap its grant read only where the count failed or another
\* handler came between the count and the insert: the pinned concurrency
\* included, whatever the pool, the plan and the other streams did since.
GrantWithinCap ==
  [][\A c \in Conn :
       (InsertLease(c) /\ grant[c].count = "read" /\ grant[c].capW >= 0)
         => Cardinality(Active(ConnOrg(c)))' <= grant[c].capW]_vars

\* What the documentation says of max_workers: lease N+1 is refused.
NeverOverMaxWorkers ==
  AllPlansLimited => \A o \in Org : Cardinality(Active(o)) <= TopCap

\* A TTL lease that may not renew is ended once its time has passed.
ExpiredIsEnded ==
  \A s \in Slot :
    (lease[s].st = "active" /\ lease[s].exp = "past" /\ ~lease[s].renew)
      ~> (lease[s].st = "ended")

\* The kill-switch: after a device of the org is revoked every lease the org
\* holds or still obtains is ended.
KilledIsEnded ==
  \A s \in Slot :
    (lease[s].st = "active" /\ OrgHasRevokedDevice(lease[s].org))
      ~> (lease[s].st = "ended")

\* An org over its weekly worker-hours loses its leases, unless the week rolls
\* over or the plan changes first.
HoursCapIsEnded ==
  \A s \in Slot :
    (lease[s].st = "active" /\ OverHours(plan[lease[s].org], lease[s].org))
      ~> (\/ lease[s].st = "ended"
          \/ ~OverHours(plan[lease[s].org], lease[s].org))

\* A revoked lease has its worker parked (and the executor told), unless the
\* cerebro stopped or the statement failed just there: nothing comes back to it.
RevokedWorkerParked ==
  \A s \in Slot :
    (lease[s].st = "ended") ~> (worker[s] \in {"paused", "stopped"} \/ s \in torn)

\* Whatever calls for the end of a lease brings it, the worker included: a pass
\* that crashed, or misread what it looked at, or whose EndLease failed, is made
\* up for by a later one.
LeasesEnd ==
  ExpiredIsEnded /\ KilledIsEnded /\ HoursCapIsEnded /\ RevokedWorkerParked

-----------------------------------------------------------------------------
(* What the manager promises of a grant, as LeaseLife states it. *)

\* The stage a grant has reached, as its three rows tell it.  Rows that fit no
\* stage are "broken", which no step of LeaseLife reaches.  What the worker of a
\* torn slot does no longer counts.
StageOf(s) ==
  LET st == lease[s].st
      w  == worker[s]
  IN  CASE st = "none" /\ w = "none"        -> "free"
        [] st = "none" /\ w = "running"     -> "started"
        [] st = "active" /\ (w = "running" \/ s \in torn) -> "held"
        [] st = "ended" /\ (w = "running" \/ s \in torn)  -> "revoked"
        [] st = "ended" /\ w \in {"paused", "stopped"} /\ s \notin torn ->
             IF ledger[s].ended = 0 THEN "parked" ELSE "closed"
        [] OTHER -> "broken"

\* The counted leases an org may hold: the largest max_workers, and one more for
\* every stream beyond the first; without a limit, all of them.
QuotaOf(o) == IF AllPlansLimited THEN TopCap + Cardinality(Conns(o)) - 1
              ELSE Cardinality(Slot)

Life == INSTANCE LeaseLife WITH
  Grant     <- Slot,
  Tenant    <- Org,
  Cause     <- Reason,
  Quota     <- [o \in Org |-> QuotaOf(o)],
  stage     <- [s \in Slot |-> StageOf(s)],
  holder    <- [s \in Slot |-> lease[s].org],
  cause     <- [s \in Slot |-> lease[s].why],
  billed    <- {s \in Slot : ledger[s].issued > 0},
  uncounted <- uncounted

\* tryGrant and the reaper, statement by statement and whatever fails or breaks
\* them off, take every grant through the stages of LeaseLife in order, and the
\* race of two tryGrants that read their counts stays within the quota.
ImplementsLife == Life!LifeSpec
-----------------------------------------------------------------------------
(* The inductive invariant behind the properties above. *)

\* A grant between two statements owns its slot, and no two grants share one.
GrantsOwnSlots ==
  /\ \A c \in Conn :
       /\ grant[c].pc = "lease" =>
            /\ grant[c].slot \in Slot
            /\ worker[grant[c].slot] = "running"
            /\ lease[grant[c].slot].st = "none"
       /\ grant[c].pc = "usage" =>
            /\ grant[c].slot \in Slot
            /\ lease[grant[c].slot].st # "none"
            /\ ledger[grant[c].slot].issued = 0
  /\ \A c, d \in Conn :
       (c # d /\ {grant[c].pc, grant[d].pc} \subseteq {"lease", "usage"})
         => grant[c].slot # grant[d].slot

\* The rows of a slot agree with each other.
RowsAgree ==
  \A s \in Slot :
    /\ worker[s] = "none" => lease[s].st = "none"
    /\ lease[s].st = "none" =>
         worker[s] \in {"none", "running"} /\ ledger[s].issued = 0
    /\ lease[s].st # "ended" =>
         lease[s].why = "none" /\ (ledger[s].ended = 0 \/ s \in torn)
    /\ lease[s].st = "ended" => lease[s].why \in Reason
    /\ s \in torn => worker[s] # "none" /\ lease[s].st # "none"

\* What the reaper holds is still as it read it: nobody else ends a lease, and
\* only its own failures leave a row behind.
ReaperHoldsLive ==
  /\ reaper.todo \subseteq ActiveSlots
  /\ reaper.pc \in {"check", "end", "worker", "ledger"} =>
       reaper.cur \in Slot \ reaper.todo
  /\ reaper.pc \in {"check", "end"} => lease[reaper.cur].st = "active"
  /\ reaper.pc \in {"worker", "ledger"} => lease[reaper.cur].st # "none"
  /\ reaper.pc \in {"end", "worker", "ledger"} =>
       /\ reaper.why \in Reason
       /\ reaper.why = "killed" => OrgHasRevokedDevice(lease[reaper.cur].org)
       /\ reaper.why = "expired" =>
            lease[reaper.cur].exp = "past" /\ ~lease[reaper.cur].renew
  /\ (reaper.pc \in {"worker", "ledger"} /\ reaper.cur \notin torn) =>
       /\ lease[reaper.cur].st = "ended"
       /\ lease[reaper.cur].why = reaper.why
       /\ ledger[reaper.cur].ended = 0
  /\ (reaper.pc = "worker" /\ reaper.cur \notin torn) =>
       worker[reaper.cur] = "running"
  /\ (reaper.pc = "ledger" /\ reaper.cur \notin torn) =>
       worker[reaper.cur] = IF reaper.why = "expired" THEN "paused"
                                                      ELSE "stopped"

\* Each failed statement and each crash tears one slot at most.
TornExplained == Cardinality(torn) <= errs + crashes

RowsKept ==
  /\ GrantsOwnSlots /\ RowsAgree /\ ReaperHoldsLive
  /\ ActiveMeansRunning /\ EndReasonSound /\ LedgerClosedOnce

\* Between any two statements of the grants and of the reaper, each knows what
\* the other can have done to the rows it is about to write; and the slots of
\* which that cannot be said are as few as the failures.
Bookkeeping == RowsKept /\ TornExplained

\* What a grant that passed ActiveLeaseCount can rely on: the cap it read is one
\* of the catalogue, and if the count was read and nobody has overtaken it there
\* is still room for its lease under that cap.
GrantFits ==
  \A c \in Conn :
    /\ (AllPlansLimited /\ grant[c].pc = "count") => grant[c].capW \in 0..TopCap
    /\ (/\ grant[c].pc \in {"worker", "lease"}
        /\ grant[c].count = "read" /\ grant[c].capW >= 0)
         => Cardinality(Active(ConnOrg(c))) < grant[c].capW
=============================================================================
