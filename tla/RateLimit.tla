----------------------------- MODULE RateLimit -----------------------------
(***************************************************************************)
(* The rate limiter of the REST API (httpapi/middleware.go), for one       *)
(* organisation: requests per minute by plan, with the limit cached.       *)
(*                                                                         *)
(* Every request passes allow() in a goroutine of its own.  It reads the   *)
(* clock twice and takes the mutex three times; a request may be held up   *)
(* at any of these points while others pass, the clock goes on and the     *)
(* plan changes.                                                           *)
(***************************************************************************)
EXTENDS Naturals

CONSTANTS
  Plan,
  Rpm,          \* requests per minute of a plan, 0 for no limit
  Free,         \* the plan GetOrgPlan answers when its query fails
  TopRpm,       \* the largest limit
  Minute,       \* length of a minute, in steps of the clock
  CacheTime,    \* how long a limit is cached (30 s)
  Req,          \* requests in the limiter at once
  MaxTime,      \* bound: steps of the clock
  MaxRequests   \* bound: requests let into the limiter

ASSUME RateAssumption ==
  /\ Free \in Plan
  /\ Rpm \in [Plan -> 0..TopRpm]
  /\ TopRpm \in Nat
  /\ Minute \in Nat \ {0}
  /\ CacheTime \in Nat \ {0}
  /\ MaxTime \in Nat

VARIABLES
  now,       \* time.Now().Unix(), in steps
  orgPlan,   \* org.plan
  cache,     \* rl.plan[org]
  win,       \* rl.win[org]
  rq,        \* the requests
  asked,     \* requests so far
  planAt,    \* history: the plans in force at each time
  passed,    \* history: requests of a minute that the window let pass
  strays     \* history: requests counted after their minute was over

rateVars == <<now, orgPlan, cache, win, rq, asked, planAt, passed, strays>>

Time == 0..MaxTime
MinuteOf(t) == t \div Minute

NoCache == [rpm |-> 0, exp |-> 0]
NoWin == [minute |-> MaxTime + 1, count |-> 0]
\* t: the time read first; limit: what rpm() returned; minute: the time read
\* second
NoRq == [pc |-> "idle", t |-> 0, limit |-> 0, minute |-> 0]

RateTypeOK ==
  /\ now \in Time
  /\ orgPlan \in Plan
  /\ cache \in [rpm : 0..TopRpm, exp : Nat]
  /\ win \in [minute : 0..(MaxTime + 1), count : Nat]
  /\ rq \in [Req -> [pc : {"idle", "look", "query", "store", "clock", "count"},
                     t : Time, limit : 0..TopRpm, minute : Time]]
  /\ planAt \in [Time -> SUBSET Plan]
  /\ passed \in [Time -> Nat]
  /\ strays \in Nat

RateInit ==
  /\ now = 0
  /\ orgPlan \in Plan
  /\ cache = NoCache
  /\ win = NoWin
  /\ rq = [q \in Req |-> NoRq]
  /\ asked = 0
  /\ planAt = [t \in Time |-> IF t = 0 THEN {orgPlan} ELSE {}]
  /\ passed = [m \in Time |-> 0]
  /\ strays = 0

----------------------------------------------------------------------------
(* rpm(): the limit, from the cache or from the database.                  *)

\* now := time.Now().Unix()
Ask(q) ==
  /\ rq[q].pc = "idle" /\ asked < MaxRequests
  /\ rq' = [rq EXCEPT ![q] = [NoRq EXCEPT !.pc = "look", !.t = now]]
  /\ asked' = asked + 1
  /\ UNCHANGED <<now, orgPlan, cache, win, planAt, passed, strays>>

LookUp(q) ==
  /\ rq[q].pc = "look"
  /\ rq' = [rq EXCEPT ![q] = IF cache.exp > @.t
                             THEN [@ EXCEPT !.pc = "clock", !.limit = cache.rpm]
                             ELSE [@ EXCEPT !.pc = "query"]]
  /\ UNCHANGED <<now, orgPlan, cache, win, asked, planAt, passed, strays>>

\* GetOrgPlan; a query that fails, as that of a client that hangs up, says free
Query(q) ==
  /\ rq[q].pc = "query"
  /\ \E p \in {orgPlan, Free} :
       rq' = [rq EXCEPT ![q].pc = "store", ![q].limit = Rpm[p]]
  /\ UNCHANGED <<now, orgPlan, cache, win, asked, planAt, passed, strays>>

\* Mutant: the entry expires 30 s after it is stored, not after it was asked for
ExpiryOfStore(q) == now + CacheTime

Expiry(q) == rq[q].t + CacheTime

Store(q) ==
  /\ rq[q].pc = "store"
  /\ cache' = [rpm |-> rq[q].limit, exp |-> Expiry(q)]
  /\ rq' = [rq EXCEPT ![q].pc = "clock"]
  /\ UNCHANGED <<now, orgPlan, win, asked, planAt, passed, strays>>

----------------------------------------------------------------------------
(* allow(): the window of the minute.                                      *)

\* no limit, no window; else the time is read again, before the mutex is taken
Clock(q) ==
  /\ rq[q].pc = "clock"
  /\ rq' = [rq EXCEPT ![q] = IF @.limit = 0 THEN NoRq
                             ELSE [@ EXCEPT !.pc = "count",
                                            !.minute = MinuteOf(now)]]
  /\ UNCHANGED <<now, orgPlan, cache, win, asked, planAt, passed, strays>>

\* the window of another minute, earlier or later, is replaced
Window(m) == IF win.minute = m THEN win ELSE [minute |-> m, count |-> 0]

\* Mutant: refuses one too late
WithinOffByOne(count, limit) == count <= limit + 1

Within(count, limit) == count <= limit

Count(q) ==
  LET m == rq[q].minute
      w == [Window(m) EXCEPT !.count = @ + 1]
  IN /\ rq[q].pc = "count"
     /\ win' = w
     /\ passed' = [passed EXCEPT ![m] =
                     IF Within(w.count, rq[q].limit) THEN @ + 1 ELSE @]
     /\ strays' = IF m = MinuteOf(now) THEN strays ELSE strays + 1
     /\ rq' = [rq EXCEPT ![q] = NoRq]
     /\ UNCHANGED <<now, orgPlan, cache, asked, planAt>>

----------------------------------------------------------------------------
(* Around it.                                                              *)

Tick ==
  /\ now < MaxTime
  /\ now' = now + 1
  /\ planAt' = [planAt EXCEPT ![now + 1] = {orgPlan}]
  /\ UNCHANGED <<orgPlan, cache, win, rq, asked, passed, strays>>

\* a purchase, a downgrade, staff (see Billing)
PlanChanges(p) ==
  /\ p # orgPlan
  /\ orgPlan' = p
  /\ planAt' = [planAt EXCEPT ![now] = @ \cup {p}]
  /\ UNCHANGED <<now, cache, win, rq, asked, passed, strays>>

RateNext ==
  \/ \E q \in Req : \/ Ask(q) \/ LookUp(q) \/ Query(q) \/ Store(q)
                    \/ Clock(q) \/ Count(q)
  \/ Tick
  \/ \E p \in Plan : PlanChanges(p)

----------------------------------------------------------------------------
(* Properties.                                                             *)

\* In a minute no more requests pass than the largest limit, and that many
\* again for each request held up between reading the clock and taking the
\* mutex until its minute was over: it replaces the window of the new minute
\* by one of the old, and the count starts again.
WindowBounded ==
  \A m \in Time : passed[m] <= TopRpm * (1 + strays)

\* The limit a request is held to is that of a plan the organisation had less
\* than CacheTime before the request came, or that of the free plan; requests
\* that store in the cache what they read long ago do not make it older.
LimitIsRecent ==
  \A q \in Req :
    rq[q].pc \in {"store", "clock", "count"} =>
      \E u \in Time :
        /\ u + CacheTime > rq[q].t
        /\ \E p \in planAt[u] \cup {Free} : rq[q].limit = Rpm[p]
=============================================================================
