------------------------------ MODULE Billing ------------------------------
(***************************************************************************)
(* Plans and payments: the Stripe webhook, the dunning loop of the reaper,  *)
(* and the two ways a plan is changed by hand.  All of them write org.plan  *)
(* and the subscription rows of the org, most of them in two statements     *)
(* that other handlers may come between.                                    *)
(*                                                                          *)
(* Stripe is external: it may deliver events in any order, and delivers an  *)
(* event again until an attempt is answered.                                *)
(***************************************************************************)
EXTENDS Integers, FiniteSets

CONSTANTS
  Org, Plan,   \* tenants, the plans of org_plan
  SubId,       \* bound: rows of subscription
  Hook,        \* bound: webhook requests served at a time
  MaxEvents,   \* bound: what happens at Stripe
  MaxCuts,     \* bound: requests cut off and crashes of the cerebro
  MaxErrs      \* bound: statements that fail in the database

ASSUME BillingAssumption ==
  /\ Org # {} /\ "free" \in Plan
  /\ IsFiniteSet(SubId) /\ IsFiniteSet(Hook)
  /\ MaxEvents \in Nat /\ MaxCuts \in Nat /\ MaxErrs \in Nat

NoOrg == "noorg"

ASSUME NoOrgAssumption == NoOrg \notin Org

VARIABLES
  plan,       \* org.plan
  sub,        \* rows of subscription
  invoices,   \* rows of invoice for each invoice of Stripe
  hook,       \* where a webhook request stands
  dun,        \* where the dunning loop stands
  net,        \* events Stripe still has to deliver
  stripe,     \* the subscription as Stripe has it
  sent,       \* number of things that happened at Stripe
  collected,  \* invoices Stripe was paid for
  lapsed,     \* for the properties: orgs whose grace ran out while past_due
  ended,      \* for the properties: orgs whose subscription Stripe deleted
  crossed,    \* for the properties: orgs somebody wrote to between the
              \* statements of a writer that has not ended
  mixed,      \* for the properties: orgs whose plans may differ
  cuts, errs

external == <<stripe, sent, collected, ended>>
ghosts == <<lapsed, crossed, mixed>>
bounds == <<cuts, errs>>
vars == <<plan, sub, invoices, hook, dun, net, external, ghosts, bounds>>

Kind == {"checkout", "failed", "paid", "deleted"}

\* id numbers what happened at Stripe, and so the invoice that was paid then.
Event == [id : 1..MaxEvents, k : Kind, org : Org, plan : Plan]

NoEvent == [id |-> 0, k |-> "paid", org |-> CHOOSE o \in Org : TRUE,
            plan |-> "free"]

\* grace is what grace_until < now() tells apart; cust whether
\* stripe_customer_id is set.
SubRow == [st : {"none", "active", "past_due", "canceled"}, org : Org,
           plan : Plan, grace : {"none", "pending", "past"}, cust : BOOLEAN]

HookPc == Kind \cup {"idle", "subUpdate", "subInsert", "invoice", "subCancel",
                     "ack"}

TypeOK ==
  /\ plan \in [Org -> Plan]
  /\ sub \in [SubId -> SubRow]
  /\ invoices \in [1..MaxEvents -> Nat]
  /\ hook \in [Hook -> [pc : HookPc, ev : Event \cup {NoEvent}]]
  /\ dun \in [pc : {"sleep", "loop", "cancel"}, todo : [Org -> Nat],
              cur : Org \cup {NoOrg}]
  /\ net \in SUBSET Event
  /\ stripe \in [Org -> {"none", "active", "past_due", "canceled"}]
  /\ sent \in 0..MaxEvents
  /\ collected \in SUBSET (1..MaxEvents)
  /\ lapsed \in SUBSET Org /\ ended \in SUBSET Org
  /\ crossed \in SUBSET Org /\ mixed \in SUBSET Org
  /\ cuts \in 0..MaxCuts /\ errs \in 0..MaxErrs

-----------------------------------------------------------------------------
(* Queries, and the statements that handlers share. *)

\* WHERE org_id = o.
Rows(o) == {i \in SubId : sub[i].st # "none" /\ sub[i].org = o}

\* OrgByStripeCustomer finds the org of an invoice event.
OrgByStripeCustomer(o) == \E i \in Rows(o) : sub[i].cust

\* Variant: PastDueExpired does not look at the status.
PastDueExpiredAnyStatus(o) == {i \in Rows(o) : sub[i].grace = "past"}

PastDueExpired(o) ==
  {i \in Rows(o) : sub[i].st = "past_due" /\ sub[i].grace = "past"}

SetOrgPlan(o, p) == plan' = [plan EXCEPT ![o] = p]

\* Second statement of DowngradeToFree.
CancelRows(o) ==
  sub' = [i \in SubId |->
            IF i \in Rows(o)
            THEN [sub[i] EXCEPT !.st = "canceled", !.plan = "free",
                                !.grace = "none"]
            ELSE sub[i]]

\* Second statement of UpsertSubscription and of SetPlan: the former also
\* clears the grace and stores the customer.
ActivateRows(o, p, checkout) ==
  sub' = [i \in SubId |->
            IF i \in Rows(o)
            THEN [sub[i] EXCEPT !.st = "active", !.plan = p,
                                !.grace = IF checkout THEN "none" ELSE @,
                                !.cust = @ \/ checkout]
            ELSE sub[i]]

InsertRow(o, p, checkout) ==
  \E i \in SubId :
    /\ sub[i].st = "none"
    /\ sub' = [sub EXCEPT ![i] = [st |-> "active", org |-> o, plan |-> p,
                                  grace |-> "none", cust |-> checkout]]

\* Who is between the statement on org and the one on subscription.
HooksAmid(o) ==
  {h \in Hook : /\ hook[h].pc \in {"subUpdate", "subInsert", "subCancel"}
                /\ hook[h].ev.org = o}
DunningAmid(o) == dun.pc = "cancel" /\ dun.cur = o
Amid(o) == HooksAmid(o) # {} \/ DunningAmid(o)

\* What a step means for the agreement of the plans of o: a writer starts,
\* maybe amid another; it ends, and if nobody came between has made the only
\* row agree; or it is broken off between its statements.  more: whether others
\* are still amid theirs.
Starts(o) ==
  crossed' = (IF Amid(o) THEN crossed \cup {o} ELSE crossed) /\ mixed' = mixed
Leaves(o, more) == crossed' = IF more THEN crossed ELSE crossed \ {o}
Ends(o, more) ==
  /\ Leaves(o, more)
  /\ \/ o \in crossed /\ mixed' = mixed \cup {o}
     \/ o \notin crossed /\ Cardinality(Rows(o)) <= 1 /\ mixed' = mixed \ {o}
     \/ o \notin crossed /\ Cardinality(Rows(o)) > 1 /\ mixed' = mixed
Breaks(o, more) == Leaves(o, more) /\ mixed' = mixed \cup {o}

OthersAmid(h) ==
  HooksAmid(hook[h].ev.org) \ {h} # {} \/ DunningAmid(hook[h].ev.org)

-----------------------------------------------------------------------------
(* Stripe. *)

Emit(ks, o, p) ==
  /\ sent < MaxEvents
  /\ sent' = sent + 1
  /\ net' = net \cup {[id |-> sent', k |-> k, org |-> o, plan |-> p] : k \in ks}
  /\ collected' = IF "paid" \in ks THEN collected \cup {sent'} ELSE collected
  /\ UNCHANGED <<plan, sub, invoices, hook, dun, ghosts, bounds>>

\* A customer buys plan p: the session completes and the first invoice is paid.
\* Bound: an org buys again only after its subscription was deleted.
StripeCheckout(o, p) ==
  /\ stripe[o] \in {"none", "canceled"} /\ p # "free"
  /\ stripe' = [stripe EXCEPT ![o] = "active"]
  /\ Emit({"checkout", "paid"}, o, p) /\ UNCHANGED ended

StripeFails(o) ==
  /\ stripe[o] \in {"active", "past_due"}
  /\ stripe' = [stripe EXCEPT ![o] = "past_due"]
  /\ Emit({"failed"}, o, "free") /\ UNCHANGED ended

StripePaid(o) ==
  /\ stripe[o] = "past_due"
  /\ stripe' = [stripe EXCEPT ![o] = "active"]
  /\ Emit({"paid"}, o, "free") /\ UNCHANGED ended

StripeDeletes(o) ==
  /\ stripe[o] \in {"active", "past_due"}
  /\ stripe' = [stripe EXCEPT ![o] = "canceled"]
  /\ ended' = ended \cup {o}
  /\ Emit({"deleted"}, o, "free")

-----------------------------------------------------------------------------
(* The webhook, one action per statement. *)

HookTo(h, p) == hook' = [hook EXCEPT ![h] = [@ EXCEPT !.pc = p]]

\* An attempt to deliver e.  The signature is good, since Stripe signs each
\* attempt.  Checkout sessions and subscriptions carry the org in their
\* metadata; an invoice is found by its customer, or ignored with 200.
Deliver(h, e) ==
  /\ hook[h].pc = "idle" /\ e \in net
  /\ \A g \in Hook : hook[g].ev # e
  /\ hook' = [hook EXCEPT ![h] =
                [pc |-> IF \/ e.k \in {"checkout", "deleted"}
                           \/ OrgByStripeCustomer(e.org)
                        THEN e.k ELSE "ack",
                 ev |-> e]]
  /\ UNCHANGED <<plan, sub, invoices, dun, net, external, ghosts, bounds>>

\* UpsertSubscription.
CheckoutOrg(h) ==
  /\ hook[h].pc = "checkout"
  /\ SetOrgPlan(hook[h].ev.org, hook[h].ev.plan)
  /\ Starts(hook[h].ev.org)
  /\ HookTo(h, "subUpdate")
  /\ UNCHANGED <<sub, invoices, dun, net, external, lapsed, bounds>>

CheckoutSub(h) ==
  /\ hook[h].pc = "subUpdate"
  /\ ActivateRows(hook[h].ev.org, hook[h].ev.plan, TRUE)
  /\ \/ /\ Rows(hook[h].ev.org) = {}
        /\ HookTo(h, "subInsert") /\ UNCHANGED <<crossed, mixed>>
     \/ /\ Rows(hook[h].ev.org) # {}
        /\ HookTo(h, "ack") /\ Ends(hook[h].ev.org, OthersAmid(h))
  /\ UNCHANGED <<plan, invoices, dun, net, external, lapsed, bounds>>

CheckoutInsert(h) ==
  /\ hook[h].pc = "subInsert"
  /\ InsertRow(hook[h].ev.org, hook[h].ev.plan, TRUE)
  /\ Ends(hook[h].ev.org, OthersAmid(h))
  /\ HookTo(h, "ack")
  /\ UNCHANGED <<plan, invoices, dun, net, external, lapsed, bounds>>

\* Variants: past_due without a grace period; no return after a failed payment.
PaymentFailedNoGrace(h) ==
  /\ hook[h].pc = "failed"
  /\ sub' = [i \in SubId |->
               IF i \in Rows(hook[h].ev.org)
               THEN [sub[i] EXCEPT !.st = "past_due", !.grace = "none"]
               ELSE sub[i]]
  /\ HookTo(h, "ack")
  /\ UNCHANGED <<plan, invoices, dun, net, external, ghosts, bounds>>
PaymentFailedFallsThrough(h) ==
  /\ hook[h].pc = "failed"
  /\ HookTo(h, "invoice")
  /\ UNCHANGED <<plan, sub, invoices, dun, net, external, ghosts, bounds>>

\* SetSubscriptionPastDue: every failed attempt starts the grace period anew.
PaymentFailed(h) ==
  /\ hook[h].pc = "failed"
  /\ sub' = [i \in SubId |->
               IF i \in Rows(hook[h].ev.org)
               THEN [sub[i] EXCEPT !.st = "past_due", !.grace = "pending"]
               ELSE sub[i]]
  /\ HookTo(h, "ack")
  /\ UNCHANGED <<plan, invoices, dun, net, external, ghosts, bounds>>

\* SetSubscriptionActive, which leaves both plans as they are.
PaymentSucceeded(h) ==
  /\ hook[h].pc = "paid"
  /\ sub' = [i \in SubId |->
               IF i \in Rows(hook[h].ev.org)
               THEN [sub[i] EXCEPT !.st = "active", !.grace = "none"]
               ELSE sub[i]]
  /\ HookTo(h, "invoice")
  /\ UNCHANGED <<plan, invoices, dun, net, external, ghosts, bounds>>

CreateInvoice(h) ==
  /\ hook[h].pc = "invoice"
  /\ invoices' = [invoices EXCEPT ![hook[h].ev.id] = @ + 1]
  /\ HookTo(h, "ack")
  /\ UNCHANGED <<plan, sub, dun, net, external, ghosts, bounds>>

\* Variant: the cancellation only touches the subscription.
DeletedOrgUntouched(h) ==
  /\ hook[h].pc = "deleted"
  /\ HookTo(h, "subCancel")
  /\ UNCHANGED <<plan, sub, invoices, dun, net, external, ghosts, bounds>>

\* DowngradeToFree.
DeletedOrg(h) ==
  /\ hook[h].pc = "deleted"
  /\ SetOrgPlan(hook[h].ev.org, "free")
  /\ Starts(hook[h].ev.org)
  /\ HookTo(h, "subCancel")
  /\ UNCHANGED <<sub, invoices, dun, net, external, lapsed, bounds>>

DeletedSub(h) ==
  /\ hook[h].pc = "subCancel"
  /\ CancelRows(hook[h].ev.org)
  /\ Ends(hook[h].ev.org, OthersAmid(h))
  /\ HookTo(h, "ack")
  /\ UNCHANGED <<plan, invoices, dun, net, external, lapsed, bounds>>

IdleHook == [pc |-> "idle", ev |-> NoEvent]

\* 200: Stripe does not send the event again.
Ack(h) ==
  /\ hook[h].pc = "ack"
  /\ net' = net \ {hook[h].ev}
  /\ hook' = [hook EXCEPT ![h] = IdleHook]
  /\ UNCHANGED <<plan, sub, invoices, dun, external, ghosts, bounds>>

\* Variant: the handler of a failed statement never answers its request.
StatementFailsUnanswered(h) ==
  /\ errs < MaxErrs /\ hook[h].pc \notin {"idle", "ack"}
  /\ HookTo(h, "error")
  /\ UNCHANGED <<plan, sub, invoices, dun, net, external, ghosts, bounds>>

\* A statement fails.  The error is dropped and 200 answered all the same;
\* payment_succeeded still writes its invoice.
StatementFails(h) ==
  /\ errs < MaxErrs /\ hook[h].pc \notin {"idle", "ack"}
  /\ errs' = errs + 1
  /\ IF h \in HooksAmid(hook[h].ev.org)
       THEN Breaks(hook[h].ev.org, OthersAmid(h))
       ELSE UNCHANGED <<crossed, mixed>>
  /\ HookTo(h, IF hook[h].pc = "paid" THEN "invoice" ELSE "ack")
  /\ UNCHANGED <<plan, sub, invoices, dun, net, external, lapsed, cuts>>

\* The request is cut off and its context cancelled, or the answer is lost:
\* what was written stays and Stripe will deliver the event again.
RequestCut(h) ==
  /\ cuts < MaxCuts /\ hook[h].pc # "idle"
  /\ cuts' = cuts + 1
  /\ IF h \in HooksAmid(hook[h].ev.org)
       THEN Breaks(hook[h].ev.org, OthersAmid(h))
       ELSE UNCHANGED <<crossed, mixed>>
  /\ hook' = [hook EXCEPT ![h] = IdleHook]
  /\ UNCHANGED <<plan, sub, invoices, dun, net, external, lapsed, errs>>

HookStep(h) ==
  \/ CheckoutOrg(h) \/ CheckoutSub(h) \/ CheckoutInsert(h)
  \/ PaymentFailed(h) \/ PaymentSucceeded(h) \/ CreateInvoice(h)
  \/ DeletedOrg(h) \/ DeletedSub(h) \/ Ack(h)

-----------------------------------------------------------------------------
(* Dunning: the first part of reapOnce. *)

IdleDun == [pc |-> "sleep", todo |-> [o \in Org |-> 0], cur |-> NoOrg]

\* PastDueExpired is read once and has an org once for each of its rows.
DunSnapshot ==
  /\ dun.pc = "sleep"
  /\ dun' = [pc |-> "loop", cur |-> NoOrg,
             todo |-> [o \in Org |-> Cardinality(PastDueExpired(o))]]
  /\ UNCHANGED <<plan, sub, invoices, hook, net, external, ghosts, bounds>>

DunNext(o, p, c) ==
  dun' = [pc |-> p, cur |-> c, todo |-> [dun.todo EXCEPT ![o] = @ - 1]]

\* DowngradeToFree for the next org of the list.
DunDowngradeOrg(o) ==
  /\ dun.pc = "loop" /\ dun.todo[o] > 0
  /\ SetOrgPlan(o, "free")
  /\ Starts(o)
  /\ DunNext(o, "cancel", o)
  /\ UNCHANGED <<sub, invoices, hook, net, external, lapsed, bounds>>

\* Variant: the subscription keeps its plan, for the invoice of the month.
DunCancelKeepsPlan ==
  /\ dun.pc = "cancel"
  /\ sub' = [i \in SubId |->
               IF i \in Rows(dun.cur)
               THEN [sub[i] EXCEPT !.st = "canceled", !.grace = "none"]
               ELSE sub[i]]
  /\ Ends(dun.cur, HooksAmid(dun.cur) # {})
  /\ dun' = [dun EXCEPT !.pc = "loop", !.cur = NoOrg]
  /\ UNCHANGED <<plan, invoices, hook, net, external, lapsed, bounds>>

DunCancelSub ==
  /\ dun.pc = "cancel"
  /\ CancelRows(dun.cur)
  /\ Ends(dun.cur, HooksAmid(dun.cur) # {})
  /\ dun' = [dun EXCEPT !.pc = "loop", !.cur = NoOrg]
  /\ UNCHANGED <<plan, invoices, hook, net, external, lapsed, bounds>>

DunDone ==
  /\ dun.pc = "loop" /\ \A o \in Org : dun.todo[o] = 0
  /\ dun' = IdleDun
  /\ UNCHANGED <<plan, sub, invoices, hook, net, external, ghosts, bounds>>

\* A statement of DowngradeToFree fails: on to the next org.
DunFails ==
  /\ errs < MaxErrs
  /\ errs' = errs + 1
  /\ \/ /\ dun.pc = "loop"
        /\ \E o \in Org : dun.todo[o] > 0 /\ DunNext(o, "loop", NoOrg)
        /\ UNCHANGED <<crossed, mixed>>
     \/ /\ dun.pc = "cancel"
        /\ dun' = [dun EXCEPT !.pc = "loop", !.cur = NoOrg]
        /\ Breaks(dun.cur, HooksAmid(dun.cur) # {})
  /\ UNCHANGED <<plan, sub, invoices, hook, net, external, lapsed, cuts>>

Dunning == DunSnapshot \/ (\E o \in Org : DunDowngradeOrg(o)) \/ DunCancelSub
             \/ DunDone

-----------------------------------------------------------------------------
(* Plans changed by hand, time, crashes. *)

\* POST /v1/billing/plan: one transaction.  grace_until stays.
SetPlan(o, p) ==
  /\ SetOrgPlan(o, p)
  /\ IF Rows(o) = {} THEN InsertRow(o, p, FALSE) ELSE ActivateRows(o, p, FALSE)
  /\ \/ Amid(o) /\ Starts(o)
     \/ ~Amid(o) /\ Ends(o, FALSE)
  /\ UNCHANGED <<invoices, hook, dun, net, external, lapsed, bounds>>

\* The back office sets org.plan and nothing else.
AdminSetOrgPlan(o, p) ==
  /\ p # plan[o]
  /\ SetOrgPlan(o, p)
  /\ \/ Amid(o) /\ Starts(o)
     \/ ~Amid(o) /\ Breaks(o, FALSE)
  /\ UNCHANGED <<sub, invoices, hook, dun, net, external, lapsed, bounds>>

\* grace_until passes, for all rows of the org that have one.
GraceElapses(o) ==
  /\ \E i \in Rows(o) : sub[i].grace = "pending"
  /\ sub' = [i \in SubId |->
               IF i \in Rows(o) /\ sub[i].grace = "pending"
               THEN [sub[i] EXCEPT !.grace = "past"] ELSE sub[i]]
  /\ lapsed' = IF \E i \in Rows(o) : /\ sub[i].grace = "pending"
                                     /\ sub[i].st = "past_due"
               THEN lapsed \cup {o} ELSE lapsed
  /\ UNCHANGED <<plan, invoices, hook, dun, net, external, crossed, mixed,
                 bounds>>

\* The cerebro dies and starts again; unanswered events are delivered again.
Crash ==
  /\ cuts < MaxCuts
  /\ cuts' = cuts + 1
  /\ mixed' = mixed \cup {o \in Org : Amid(o)} /\ crossed' = {}
  /\ hook' = [h \in Hook |-> IdleHook]
  /\ dun' = IdleDun
  /\ UNCHANGED <<plan, sub, invoices, net, external, lapsed, errs>>

Next ==
  \/ \E o \in Org :
       \/ StripeFails(o) \/ StripePaid(o) \/ StripeDeletes(o)
       \/ DunDowngradeOrg(o) \/ GraceElapses(o)
       \/ \E p \in Plan : StripeCheckout(o, p) \/ SetPlan(o, p)
                          \/ AdminSetOrgPlan(o, p)
  \/ \E h \in Hook : \/ \E e \in net : Deliver(h, e)
                     \/ HookStep(h) \/ StatementFails(h) \/ RequestCut(h)
  \/ DunSnapshot \/ DunCancelSub \/ DunDone \/ DunFails
  \/ Crash

Init ==
  /\ plan = [o \in Org |-> "free"]
  /\ sub = [i \in SubId |-> [st |-> "none", org |-> CHOOSE o \in Org : TRUE,
                             plan |-> "free", grace |-> "none",
                             cust |-> FALSE]]
  /\ invoices = [n \in 1..MaxEvents |-> 0]
  /\ hook = [h \in Hook |-> IdleHook]
  /\ dun = IdleDun
  /\ net = {} /\ sent = 0 /\ collected = {}
  /\ stripe = [o \in Org |-> "none"]
  /\ lapsed = {} /\ ended = {} /\ crossed = {} /\ mixed = {}
  /\ cuts = 0 /\ errs = 0

\* Stripe keeps trying, requests are served, the reaper's ticker fires and time
\* passes.  Customers and staff owe nothing.
Fairness ==
  /\ \A h \in Hook : WF_vars((\E e \in net : Deliver(h, e)) \/ HookStep(h))
  /\ WF_vars(Dunning)
  /\ \A o \in Org : WF_vars(GraceElapses(o))

Spec == Init /\ [][Next]_vars /\ Fairness
-----------------------------------------------------------------------------
(* Correctness properties. *)

\* No org loses its plan without a cause: it chose Free itself or staff did, or
\* Stripe deleted its subscription, or it was past_due until the grace ran out.
\* A grace_until left over from a debt that was settled never counts.
DowngradeHasCause ==
  [][\A o \in Org :
       (plan[o] # "free" /\ plan'[o] = "free")
         => \/ SetPlan(o, "free") \/ AdminSetOrgPlan(o, "free")
            \/ o \in ended \/ o \in lapsed]_vars

\* subscription.plan mirrors org.plan, in the one row the org has, whenever no
\* writer is between its two statements.  What makes them differ is named: two
\* writers overlapped, one was broken off or a statement of it failed, or staff
\* changed org.plan alone; and the next writer that runs alone and to its end,
\* as a repeated delivery does, makes them agree again.
PlansAgree ==
  \A o \in Org \ mixed :
    /\ Cardinality(Rows(o)) <= 1
    /\ ~Amid(o) => \A i \in Rows(o) : sub[i].plan = plan[o]

\* The invoices shown are invoices that were paid, each once, or once more for
\* each time a delivery had to be repeated.
InvoicesArePaid ==
  \A n \in 1..MaxEvents :
    /\ invoices[n] > 0 => n \in collected
    /\ invoices[n] <= 1 + cuts

\* The whole of dunning: an org that is past_due ends up active again or
\* canceled, also when the pass that downgrades it is broken off half way.
DunningResolves ==
  \A o \in Org : (\E i \in Rows(o) : sub[i].st = "past_due")
                   ~> (\A i \in Rows(o) : sub[i].st # "past_due")

\* When Stripe has deleted a subscription the org reaches Free, although
\* requests are cut off and the cerebro crashes.
CancelReachesFree ==
  \A o \in Org :
    (\E e \in net : /\ e.k = "deleted" /\ e.org = o
                    /\ \A h \in Hook : hook[h].ev # e)
      ~> (plan[o] = "free")
=============================================================================
