----------------------------- MODULE LeaseLife -----------------------------
(***************************************************************************)
(* What the lease manager promises of a grant, without its statements:     *)
(* a worker is started, it holds a lease of its org, the lease is revoked, *)
(* the worker parked and the account closed -- each once, in this order,   *)
(* and never more leases held in an org than its quota.  A lease that was  *)
(* given out without a count is outside the quota, and remembered as such. *)
(* Billing of the grant starts once at some time after the lease was given *)
(* out.                                                                    *)
(*                                                                         *)
(* Every step may fail to come: a grant that is broken off, a failed       *)
(* statement or a crash leaves a grant in the stage it had reached.        *)
(***************************************************************************)
EXTENDS Naturals, FiniteSets

CONSTANTS
  Grant,   \* the grants
  Tenant,  \* the orgs
  Quota,   \* leases an org may hold
  Cause    \* why a lease is revoked

VARIABLES
  stage,   \* free, started, held, revoked, parked, closed: how far a grant is
  holder,  \* the org that holds, or held, the lease
  cause,   \* why it lost the lease
  billed,  \* the grants whose billing has started
  uncounted \* the grants that got a lease although the count was not known

lifeVars == <<stage, holder, cause, billed, uncounted>>

LifeInit ==
  /\ stage = [g \in Grant |-> "free"]
  /\ holder \in [Grant -> Tenant]
  /\ cause = [g \in Grant |-> "none"]
  /\ billed = {}
  /\ uncounted = {}

Held(o) == {g \in Grant : stage[g] = "held" /\ holder[g] = o}

Moves(g, from, to) ==
  /\ stage[g] = from
  /\ stage' = [stage EXCEPT ![g] = to]

Start(g) ==
  /\ Moves(g, "free", "started")
  /\ UNCHANGED <<holder, cause, billed, uncounted>>

Hold(g, o) ==
  /\ Moves(g, "started", "held")
  /\ Cardinality(Held(o) \ uncounted) < Quota[o]
  /\ holder' = [holder EXCEPT ![g] = o]
  /\ UNCHANGED <<cause, billed, uncounted>>

HoldUncounted(g, o) ==
  /\ Moves(g, "started", "held")
  /\ holder' = [holder EXCEPT ![g] = o]
  /\ uncounted' = uncounted \cup {g}
  /\ UNCHANGED <<cause, billed>>

Revoke(g, c) ==
  /\ Moves(g, "held", "revoked")
  /\ cause' = [cause EXCEPT ![g] = c]
  /\ UNCHANGED <<holder, billed, uncounted>>

Park(g) ==
  /\ Moves(g, "revoked", "parked")
  /\ UNCHANGED <<holder, cause, billed, uncounted>>

Close(g) ==
  /\ Moves(g, "parked", "closed")
  /\ UNCHANGED <<holder, cause, billed, uncounted>>

Bill(g) ==
  /\ stage[g] \notin {"free", "started"}
  /\ g \notin billed
  /\ billed' = billed \cup {g}
  /\ UNCHANGED <<stage, holder, cause, uncounted>>

Advance(g) ==
  \/ Start(g) \/ Park(g) \/ Close(g) \/ Bill(g)
  \/ \E o \in Tenant : Hold(g, o) \/ HoldUncounted(g, o)
  \/ \E c \in Cause : Revoke(g, c)

\* Most steps of an implementation stutter here, so that is asked first
LifeNext == UNCHANGED lifeVars \/ \E g \in Grant : Advance(g)

LifeSpec == LifeInit /\ [][LifeNext]_lifeVars
=============================================================================
