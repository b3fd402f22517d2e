---------------------------- MODULE BillingProofs ----------------------------
(***************************************************************************)
(* Proofs about Billing, for every set of orgs, plans, rows and requests   *)
(* and any number of events, interruptions and failing statements.         *)
(***************************************************************************)
EXTENDS Billing, FiniteSetTheorems, TLAPS

-----------------------------------------------------------------------------
(* Type correctness. *)

HookRow == [pc : HookPc, ev : Event \cup {NoEvent}]
DunRow == [pc : {"sleep", "loop", "cancel"}, todo : [Org -> Nat],
           cur : Org \cup {NoOrg}]
StripeState == {"none", "active", "past_due", "canceled"}

LEMMA IdleTypes == IdleHook \in HookRow /\ IdleDun \in DunRow
<1>1. NoEvent \in Event \cup {NoEvent}
  OBVIOUS
<1> QED
  BY <1>1 DEF IdleHook, IdleDun, HookRow, DunRow, HookPc, Kind

LEMMA InitType == Init => TypeOK
<1> SUFFICES ASSUME Init PROVE TypeOK
  OBVIOUS
<1>1. (CHOOSE o \in Org : TRUE) \in Org /\ "free" \in Plan
  BY BillingAssumption
<1>2. sub \in [SubId -> SubRow]
  BY <1>1 DEF Init, SubRow
<1>3. hook \in [Hook -> HookRow] /\ dun \in DunRow
  BY IdleTypes DEF Init
<1>4. /\ cuts \in 0..MaxCuts /\ errs \in 0..MaxErrs /\ sent \in 0..MaxEvents
      /\ net \in SUBSET Event /\ collected \in SUBSET (1..MaxEvents)
      /\ stripe \in [Org -> StripeState] /\ plan \in [Org -> Plan]
      /\ invoices \in [1..MaxEvents -> Nat]
  BY <1>1, BillingAssumption DEF Init, StripeState
<1>5. /\ lapsed \in SUBSET Org /\ ended \in SUBSET Org
      /\ crossed \in SUBSET Org /\ mixed \in SUBSET Org
  BY DEF Init
<1> QED
  BY <1>2, <1>3, <1>4, <1>5 DEF TypeOK, HookRow, DunRow, StripeState

\* What a step records of the agreement of the plans.
LEMMA GhostTypes ==
  ASSUME TypeOK, NEW o \in Org, NEW more,
         Starts(o) \/ Ends(o, more) \/ Breaks(o, more)
  PROVE  crossed' \in SUBSET Org /\ mixed' \in SUBSET Org
BY DEF TypeOK, Starts, Ends, Breaks, Leaves

LEMMA EventFields ==
  ASSUME TypeOK, NEW h \in Hook
  PROVE  /\ hook[h] \in HookRow /\ hook[h].pc \in HookPc
         /\ hook[h].ev.org \in Org /\ hook[h].ev.plan \in Plan
         /\ hook[h].ev \in Event \cup {NoEvent}
<1>1. hook[h] \in HookRow
  BY DEF TypeOK, HookRow
<1>2. (CHOOSE o \in Org : TRUE) \in Org /\ "free" \in Plan
  BY BillingAssumption
<1>3. hook[h].ev \in Event \cup {NoEvent} /\ hook[h].pc \in HookPc
  BY <1>1 DEF HookRow
<1> QED
  BY <1>1, <1>2, <1>3 DEF Event, NoEvent

\* One request moves to its next statement.
LEMMA HookMoves ==
  ASSUME TypeOK, NEW h \in Hook, NEW p \in HookPc, HookTo(h, p)
  PROVE  /\ hook' \in [Hook -> HookRow]
         /\ hook'[h].pc = p /\ hook'[h].ev = hook[h].ev
         /\ \A g \in Hook \ {h} : hook'[g] = hook[g]
<1>1. hook \in [Hook -> HookRow]
  BY DEF TypeOK, HookRow
<1> DEFINE r == [hook[h] EXCEPT !.pc = p]
<1>2. r \in HookRow /\ r.pc = p /\ r.ev = hook[h].ev
  <2>1. hook[h] \in HookRow
    BY <1>1
  <2> QED
    BY <2>1 DEF HookRow
<1>3. hook' = [hook EXCEPT ![h] = r]
  BY DEF HookTo
<1> HIDE DEF r
<1> QED
  BY <1>1, <1>2, <1>3

LEMMA HookReset ==
  ASSUME TypeOK, NEW h \in Hook, hook' = [hook EXCEPT ![h] = IdleHook]
  PROVE  /\ hook' \in [Hook -> HookRow]
         /\ hook'[h].pc = "idle"
         /\ \A g \in Hook \ {h} : hook'[g] = hook[g]
<1>1. hook \in [Hook -> HookRow]
  BY DEF TypeOK, HookRow
<1>2. IdleHook \in HookRow /\ IdleHook.pc = "idle"
  BY IdleTypes DEF IdleHook
<1> QED
  BY <1>1, <1>2

\* What the statements on subscription leave in a row.
LEMMA CancelWrites ==
  ASSUME TypeOK, NEW o, CancelRows(o)
  PROVE  /\ sub' \in [SubId -> SubRow]
         /\ \A i \in Rows(o) :
              /\ sub'[i].st = "canceled" /\ sub'[i].org = o
              /\ sub'[i].plan = "free" /\ sub'[i].grace = "none"
         /\ \A i \in SubId \ Rows(o) : sub'[i] = sub[i]
<1>1. "free" \in Plan /\ \A i \in SubId : sub[i] \in SubRow
  BY BillingAssumption DEF TypeOK
<1> DEFINE r(i) == [sub[i] EXCEPT !.st = "canceled", !.plan = "free",
                                  !.grace = "none"]
<1>2. \A i \in SubId : /\ r(i) \in SubRow /\ r(i).org = sub[i].org
                       /\ r(i).st = "canceled" /\ r(i).plan = "free"
                       /\ r(i).grace = "none"
  BY <1>1 DEF SubRow
<1>3. sub' = [i \in SubId |-> IF i \in Rows(o) THEN r(i) ELSE sub[i]]
  BY DEF CancelRows
<1>4. Rows(o) \subseteq SubId /\ \A i \in Rows(o) : sub[i].org = o
  BY DEF Rows
<1> HIDE DEF r
<1> QED
  BY <1>1, <1>2, <1>3, <1>4

LEMMA ActivateWrites ==
  ASSUME TypeOK, NEW o, NEW p \in Plan, NEW c \in BOOLEAN,
         ActivateRows(o, p, c)
  PROVE  /\ sub' \in [SubId -> SubRow]
         /\ \A i \in Rows(o) :
              /\ sub'[i].st = "active" /\ sub'[i].org = o
              /\ sub'[i].plan = p
         /\ \A i \in SubId \ Rows(o) : sub'[i] = sub[i]
<1>1. \A i \in SubId : sub[i] \in SubRow
  BY DEF TypeOK
<1> DEFINE r(i) == [sub[i] EXCEPT !.st = "active", !.plan = p,
                                  !.grace = IF c THEN "none" ELSE @,
                                  !.cust = @ \/ c]
<1>2. \A i \in SubId : /\ r(i) \in SubRow /\ r(i).org = sub[i].org
                       /\ r(i).st = "active" /\ r(i).plan = p
  BY <1>1 DEF SubRow
<1>3. sub' = [i \in SubId |-> IF i \in Rows(o) THEN r(i) ELSE sub[i]]
  BY DEF ActivateRows
<1>4. Rows(o) \subseteq SubId /\ \A i \in Rows(o) : sub[i].org = o
  BY DEF Rows
<1> HIDE DEF r
<1> QED
  BY <1>1, <1>2, <1>3, <1>4

Inserted(o, p) ==
  \E i \in SubId :
    /\ i \notin Rows(o) /\ sub[i].st = "none"
    /\ sub'[i].st = "active" /\ sub'[i].org = o /\ sub'[i].plan = p
    /\ \A j \in SubId \ {i} : sub'[j] = sub[j]

LEMMA InsertWrites ==
  ASSUME TypeOK, NEW o \in Org, NEW p \in Plan, NEW c \in BOOLEAN,
         InsertRow(o, p, c)
  PROVE  sub' \in [SubId -> SubRow] /\ Inserted(o, p)
<1> DEFINE r == [st |-> "active", org |-> o, plan |-> p, grace |-> "none",
                 cust |-> c]
<1>1. r \in SubRow /\ r.st = "active" /\ r.org = o /\ r.plan = p
  BY DEF SubRow
<1>2. PICK i \in SubId : sub[i].st = "none" /\ sub' = [sub EXCEPT ![i] = r]
  BY DEF InsertRow
<1>3. i \notin Rows(o)
  BY <1>2 DEF Rows
<1> HIDE DEF r
<1> QED
  BY <1>1, <1>2, <1>3 DEF TypeOK, Inserted

\* The status and the grace of the rows of an org change, nothing else does.
StatusWrites(o) ==
  /\ sub' \in [SubId -> SubRow]
  /\ \A i \in SubId : /\ sub'[i].org = sub[i].org
                      /\ sub'[i].plan = sub[i].plan
                      /\ (sub'[i].st = "none") <=> (sub[i].st = "none")
  /\ \A i \in SubId \ Rows(o) : sub'[i] = sub[i]

LEMMA FailedWrites ==
  ASSUME TypeOK, NEW h \in Hook, PaymentFailed(h)
  PROVE  /\ StatusWrites(hook[h].ev.org)
         /\ \A i \in Rows(hook[h].ev.org) : sub'[i].grace = "pending"
<1> DEFINE o == hook[h].ev.org
           r(i) == [sub[i] EXCEPT !.st = "past_due", !.grace = "pending"]
<1>1. \A i \in SubId : sub[i] \in SubRow
  BY DEF TypeOK
<1>2. \A i \in SubId : /\ r(i) \in SubRow /\ r(i).org = sub[i].org
                       /\ r(i).plan = sub[i].plan /\ r(i).st = "past_due"
                       /\ r(i).grace = "pending"
  BY <1>1 DEF SubRow
<1>3. sub' = [i \in SubId |-> IF i \in Rows(o) THEN r(i) ELSE sub[i]]
  BY DEF PaymentFailed
<1>4. Rows(o) \subseteq SubId /\ \A i \in Rows(o) : sub[i].st # "none"
  BY DEF Rows
<1> HIDE DEF r, o
<1>5. StatusWrites(o) /\ \A i \in Rows(o) : sub'[i].grace = "pending"
  BY <1>1, <1>2, <1>3, <1>4 DEF StatusWrites
<1> QED
  BY <1>5 DEF o

LEMMA SucceededWrites ==
  ASSUME TypeOK, NEW h \in Hook, PaymentSucceeded(h)
  PROVE  /\ StatusWrites(hook[h].ev.org)
         /\ \A i \in Rows(hook[h].ev.org) : sub'[i].st = "active"
<1> DEFINE o == hook[h].ev.org
           r(i) == [sub[i] EXCEPT !.st = "active", !.grace = "none"]
<1>1. \A i \in SubId : sub[i] \in SubRow
  BY DEF TypeOK
<1>2. \A i \in SubId : /\ r(i) \in SubRow /\ r(i).org = sub[i].org
                       /\ r(i).plan = sub[i].plan /\ r(i).st = "active"
  BY <1>1 DEF SubRow
<1>3. sub' = [i \in SubId |-> IF i \in Rows(o) THEN r(i) ELSE sub[i]]
  BY DEF PaymentSucceeded
<1>4. Rows(o) \subseteq SubId /\ \A i \in Rows(o) : sub[i].st # "none"
  BY DEF Rows
<1> HIDE DEF r, o
<1>5. StatusWrites(o) /\ \A i \in Rows(o) : sub'[i].st = "active"
  BY <1>1, <1>2, <1>3, <1>4 DEF StatusWrites
<1> QED
  BY <1>5 DEF o

LEMMA GraceWrites ==
  ASSUME TypeOK, NEW o \in Org, GraceElapses(o)
  PROVE  /\ StatusWrites(o)
         /\ \A i \in SubId : \/ sub'[i] = sub[i]
                             \/ /\ i \in Rows(o) /\ sub[i].grace = "pending"
                                /\ sub'[i].st = sub[i].st
<1> DEFINE r(i) == [sub[i] EXCEPT !.grace = "past"]
<1>1. \A i \in SubId : sub[i] \in SubRow
  BY DEF TypeOK
<1>2. \A i \in SubId : /\ r(i) \in SubRow /\ r(i).org = sub[i].org
                       /\ r(i).plan = sub[i].plan /\ r(i).st = sub[i].st
  BY <1>1 DEF SubRow
<1>3. sub' = [i \in SubId |->
                IF i \in Rows(o) /\ sub[i].grace = "pending"
                THEN r(i) ELSE sub[i]]
  BY DEF GraceElapses
<1> HIDE DEF r
<1> QED
  BY <1>1, <1>2, <1>3 DEF StatusWrites

\* Something happens at Stripe: new events, under the next number.
StripeStep(o) ==
  \/ \E p \in Plan : StripeCheckout(o, p)
  \/ StripeFails(o) \/ StripePaid(o) \/ StripeDeletes(o)

LEMMA Emits ==
  ASSUME TypeOK, NEW o \in Org, StripeStep(o)
  PROVE  \E ks \in SUBSET Kind, p \in Plan :
           /\ Emit(ks, o, p)
           /\ "checkout" \in ks => p # "free"
           /\ "deleted" \in ks => ended' = ended \cup {o}
           /\ ended' \in {ended, ended \cup {o}}
           /\ stripe' \in [Org -> StripeState]
<1>1. "free" \in Plan
  BY BillingAssumption
<1>2. ASSUME NEW p \in Plan, StripeCheckout(o, p)
      PROVE  /\ Emit({"checkout", "paid"}, o, p) /\ p # "free"
             /\ ended' = ended /\ stripe' \in [Org -> StripeState]
  BY <1>2 DEF TypeOK, StripeCheckout, StripeState
<1>3. CASE \E p \in Plan : StripeCheckout(o, p)
  BY <1>2, <1>3 DEF Kind
<1>4. CASE StripeFails(o)
  BY <1>1, <1>4 DEF TypeOK, StripeFails, StripeState, Kind
<1>5. CASE StripePaid(o)
  BY <1>1, <1>5 DEF TypeOK, StripePaid, StripeState, Kind
<1>6. CASE StripeDeletes(o)
  BY <1>1, <1>6 DEF TypeOK, StripeDeletes, StripeState, Kind
<1> QED
  BY <1>3, <1>4, <1>5, <1>6 DEF StripeStep

\* A write that touches one of the three tables of the model.
LEMMA HookTypes ==
  ASSUME TypeOK, hook' \in [Hook -> HookRow],
         sub' \in [SubId -> SubRow], plan' \in [Org -> Plan],
         invoices' \in [1..MaxEvents -> Nat], net' \in SUBSET Event,
         crossed' \in SUBSET Org, mixed' \in SUBSET Org,
         cuts' \in 0..MaxCuts, errs' \in 0..MaxErrs,
         UNCHANGED <<dun, external, lapsed>>
  PROVE  TypeOK'
BY DEF TypeOK, HookRow, external

LEMMA TypeHookStep ==
  ASSUME TypeOK, NEW h \in Hook, HookStep(h)
  PROVE  TypeOK'
<1>1. hook[h].ev.org \in Org /\ hook[h].ev.plan \in Plan
  BY EventFields
<1>2. "free" \in Plan
  BY BillingAssumption
<1>3. \A p \in HookPc : HookTo(h, p) => hook' \in [Hook -> HookRow]
  BY HookMoves
<1>4. \A o \in Org, p \in Plan : SetOrgPlan(o, p) => plan' \in [Org -> Plan]
  BY DEF TypeOK, SetOrgPlan
<1>5. ASSUME NEW more,
             \/ Starts(hook[h].ev.org) \/ Ends(hook[h].ev.org, more)
             \/ UNCHANGED <<crossed, mixed>>
      PROVE  crossed' \in SUBSET Org /\ mixed' \in SUBSET Org
  <2>1. PICK o \in Org : o = hook[h].ev.org
    BY <1>1
  <2> QED
    BY <1>5, <2>1, GhostTypes DEF TypeOK
<1>6. /\ sub \in [SubId -> SubRow] /\ plan \in [Org -> Plan]
      /\ invoices \in [1..MaxEvents -> Nat] /\ net \in SUBSET Event
      /\ crossed \in SUBSET Org /\ mixed \in SUBSET Org
      /\ cuts \in 0..MaxCuts /\ errs \in 0..MaxErrs
  BY DEF TypeOK
<1>7. {"subUpdate", "subInsert", "ack", "invoice", "subCancel"} \subseteq HookPc
  BY DEF HookPc
<1>8. CASE CheckoutOrg(h)
  BY <1>1, <1>3, <1>4, <1>5, <1>6, <1>7, <1>8, HookTypes
     DEF CheckoutOrg, bounds
<1>9. CASE CheckoutSub(h)
  <2>1. sub' \in [SubId -> SubRow]
    BY <1>1, <1>9, ActivateWrites DEF CheckoutSub
  <2>2. hook' \in [Hook -> HookRow]
    BY <1>3, <1>7, <1>9 DEF CheckoutSub
  <2>3. crossed' \in SUBSET Org /\ mixed' \in SUBSET Org
    BY <1>5, <1>9 DEF CheckoutSub
  <2> QED
    BY <1>6, <1>9, <2>1, <2>2, <2>3, HookTypes DEF CheckoutSub, bounds
<1>10. CASE CheckoutInsert(h)
  <2>1. sub' \in [SubId -> SubRow]
    BY <1>1, <1>10, InsertWrites DEF CheckoutInsert
  <2> QED
    BY <1>3, <1>5, <1>6, <1>7, <1>10, <2>1, HookTypes
       DEF CheckoutInsert, bounds
<1>11. CASE PaymentFailed(h)
  <2>1. sub' \in [SubId -> SubRow]
    BY <1>11, FailedWrites DEF StatusWrites
  <2> QED
    BY <1>3, <1>6, <1>7, <1>11, <2>1, HookTypes
       DEF PaymentFailed, ghosts, bounds
<1>12. CASE PaymentSucceeded(h)
  <2>1. sub' \in [SubId -> SubRow]
    BY <1>12, SucceededWrites DEF StatusWrites
  <2> QED
    BY <1>3, <1>6, <1>7, <1>12, <2>1, HookTypes
       DEF PaymentSucceeded, ghosts, bounds
<1>13. CASE CreateInvoice(h)
  <2>1. invoices' = [invoices EXCEPT ![hook[h].ev.id]
                                      = invoices[hook[h].ev.id] + 1]
    BY <1>13 DEF CreateInvoice
  <2>2. \A n \in 1..MaxEvents : invoices[n] \in Nat /\ invoices[n] + 1 \in Nat
    BY <1>6
  <2>3. invoices' \in [1..MaxEvents -> Nat]
    <3>1. CASE hook[h].ev.id \in 1..MaxEvents
      BY <1>6, <2>1, <2>2, <3>1
    <3>2. CASE hook[h].ev.id \notin 1..MaxEvents
      BY <1>6, <2>1, <3>2
    <3> QED
      BY <3>1, <3>2
  <2> QED
    BY <1>3, <1>6, <1>7, <1>13, <2>3, HookTypes
       DEF CreateInvoice, ghosts, bounds
<1>14. CASE DeletedOrg(h)
  BY <1>1, <1>2, <1>3, <1>4, <1>5, <1>6, <1>7, <1>14, HookTypes
     DEF DeletedOrg, bounds
<1>15. CASE DeletedSub(h)
  <2>1. sub' \in [SubId -> SubRow]
    BY <1>15, CancelWrites DEF DeletedSub
  <2> QED
    BY <1>3, <1>5, <1>6, <1>7, <1>15, <2>1, HookTypes
       DEF DeletedSub, bounds
<1>16. CASE Ack(h)
  BY <1>6, <1>16, HookReset, HookTypes DEF Ack, ghosts, bounds
<1> QED
  BY <1>8, <1>9, <1>10, <1>11, <1>12, <1>13, <1>14, <1>15, <1>16
     DEF HookStep

\* The dunning loop, which has an org in hand whenever it is between its two
\* statements.
DunHolds == dun.pc = "cancel" => dun.cur \in Org

LEMMA ExpiredCounts ==
  ASSUME NEW o \in Org
  PROVE  Cardinality(PastDueExpired(o)) \in Nat
<1>1. PastDueExpired(o) \subseteq SubId
  BY DEF PastDueExpired, Rows
<1>2. IsFiniteSet(PastDueExpired(o))
  BY <1>1, BillingAssumption, FS_Subset
<1> QED
  BY <1>2, FS_CardinalityType

LEMMA DunMoves ==
  ASSUME TypeOK, NEW o \in Org, dun.todo[o] > 0, NEW p, NEW c,
         p \in {"sleep", "loop", "cancel"}, c \in Org \cup {NoOrg},
         DunNext(o, p, c)
  PROVE  /\ dun' \in DunRow /\ dun'.pc = p /\ dun'.cur = c
         /\ \A q \in Org : dun'.todo[q] <= dun.todo[q]
<1>1. dun.todo \in [Org -> Nat]
  BY DEF TypeOK
<1>2. dun.todo[o] - 1 \in Nat
  BY <1>1
<1> DEFINE t == [dun.todo EXCEPT ![o] = @ - 1]
<1>3. t \in [Org -> Nat] /\ \A q \in Org : t[q] <= dun.todo[q]
  BY <1>1, <1>2
<1>4. dun' = [pc |-> p, cur |-> c, todo |-> t]
  BY DEF DunNext
<1> HIDE DEF t
<1> QED
  BY <1>3, <1>4 DEF DunRow

LEMMA DunReturns ==
  ASSUME TypeOK, dun' = [dun EXCEPT !.pc = "loop", !.cur = NoOrg]
  PROVE  dun' \in DunRow /\ dun'.pc = "loop" /\ dun'.todo = dun.todo
<1>1. dun \in DunRow
  BY DEF TypeOK, DunRow
<1> QED
  BY <1>1 DEF DunRow

LEMMA TypeDunStep ==
  ASSUME TypeOK, DunHolds,
         Dunning \/ DunFails
  PROVE  TypeOK' /\ DunHolds'
<1>1. "free" \in Plan
  BY BillingAssumption
<1>2. \A o \in Org : SetOrgPlan(o, "free") => plan' \in [Org -> Plan]
  BY <1>1 DEF TypeOK, SetOrgPlan
<1>3. ASSUME dun' \in DunRow, dun'.pc = "cancel" => dun'.cur \in Org,
             plan' \in [Org -> Plan], sub' \in [SubId -> SubRow],
             crossed' \in SUBSET Org, mixed' \in SUBSET Org,
             errs' \in 0..MaxErrs,
             UNCHANGED <<invoices, hook, net, external, lapsed, cuts>>
      PROVE  TypeOK' /\ DunHolds'
  BY <1>3 DEF TypeOK, DunRow, DunHolds, external
<1>4. /\ sub \in [SubId -> SubRow] /\ plan \in [Org -> Plan]
      /\ crossed \in SUBSET Org /\ mixed \in SUBSET Org
      /\ errs \in 0..MaxErrs /\ dun \in DunRow
  BY DEF TypeOK, DunRow
<1>5. CASE DunSnapshot
  <2>1. dun' \in DunRow /\ dun'.pc = "loop"
    BY <1>5, ExpiredCounts DEF DunSnapshot, DunRow
  <2> QED
    BY <1>3, <1>4, <1>5, <2>1 DEF DunSnapshot, ghosts, bounds
<1>6. CASE \E o \in Org : DunDowngradeOrg(o)
  <2>1. PICK o \in Org : DunDowngradeOrg(o)
    BY <1>6
  <2>2. dun' \in DunRow /\ dun'.cur \in Org
    BY <2>1, DunMoves DEF DunDowngradeOrg
  <2> QED
    BY <1>2, <1>3, <1>4, <2>1, <2>2, GhostTypes DEF DunDowngradeOrg, bounds
<1>7. CASE DunCancelSub
  <2>1. sub' \in [SubId -> SubRow]
    BY <1>7, CancelWrites DEF DunCancelSub
  <2>2. dun' \in DunRow /\ dun'.pc = "loop"
    BY <1>7, DunReturns DEF DunCancelSub
  <2>3. PICK o \in Org : o = dun.cur
    BY <1>7 DEF DunCancelSub, DunHolds
  <2>4. crossed' \in SUBSET Org /\ mixed' \in SUBSET Org
    BY <1>7, <2>3, GhostTypes DEF DunCancelSub
  <2> QED
    BY <1>3, <1>4, <1>7, <2>1, <2>2, <2>4 DEF DunCancelSub, bounds
<1>8. CASE DunDone
  <2>1. dun' \in DunRow /\ dun'.pc = "sleep"
    BY <1>8, IdleTypes DEF DunDone, IdleDun
  <2> QED
    BY <1>3, <1>4, <1>8, <2>1 DEF DunDone, ghosts, bounds
<1>9. CASE DunFails
  <2>1. errs' \in 0..MaxErrs
    BY <1>4, <1>9, BillingAssumption DEF DunFails
  <2>2. CASE /\ \E o \in Org : dun.todo[o] > 0 /\ DunNext(o, "loop", NoOrg)
             /\ UNCHANGED <<crossed, mixed>>
    <3>1. dun' \in DunRow /\ dun'.pc = "loop"
      BY <2>2, DunMoves
    <3> QED
      BY <1>3, <1>4, <1>9, <2>1, <2>2, <3>1 DEF DunFails
  <2>3. CASE /\ dun.pc = "cancel" /\ Breaks(dun.cur, HooksAmid(dun.cur) # {})
             /\ dun' = [dun EXCEPT !.pc = "loop", !.cur = NoOrg]
    <3>1. dun' \in DunRow /\ dun'.pc = "loop"
      BY <2>3, DunReturns
    <3>2. crossed' \in SUBSET Org /\ mixed' \in SUBSET Org
      <4>1. PICK o \in Org : o = dun.cur
        BY <2>3 DEF DunHolds
      <4> QED
        BY <2>3, <4>1, GhostTypes
    <3> QED
      BY <1>3, <1>4, <1>9, <2>1, <3>1, <3>2 DEF DunFails
  <2> QED
    BY <1>9, <2>2, <2>3 DEF DunFails
<1> QED
  BY <1>5, <1>6, <1>7, <1>8, <1>9 DEF Dunning

LEMMA TypeStep ==
  ASSUME TypeOK, DunHolds, [Next]_vars
  PROVE  TypeOK' /\ DunHolds'
<1>1. /\ sub \in [SubId -> SubRow] /\ plan \in [Org -> Plan]
      /\ invoices \in [1..MaxEvents -> Nat] /\ net \in SUBSET Event
      /\ crossed \in SUBSET Org /\ mixed \in SUBSET Org
      /\ cuts \in 0..MaxCuts /\ errs \in 0..MaxErrs
      /\ hook \in [Hook -> HookRow]
  BY DEF TypeOK, HookRow
<1>2. ASSUME NEW o \in Org, StripeStep(o)
      PROVE  TypeOK' /\ DunHolds'
  <2>1. PICK ks \in SUBSET Kind, p \in Plan :
          /\ Emit(ks, o, p)
          /\ ended' \in {ended, ended \cup {o}}
          /\ stripe' \in [Org -> StripeState]
    BY <1>2, Emits
  <2>2. sent' \in 1..MaxEvents
    BY <2>1, BillingAssumption DEF Emit, TypeOK
  <2>3. {[id |-> sent', k |-> k, org |-> o, plan |-> p] : k \in ks}
          \subseteq Event
    BY <2>2 DEF Event
  <2>4. net' \in SUBSET Event
    BY <1>1, <2>1, <2>3 DEF Emit
  <2>5. /\ collected' \in SUBSET (1..MaxEvents)
        /\ ended' \in SUBSET Org /\ sent' \in 0..MaxEvents
    BY <2>1, <2>2 DEF Emit, TypeOK
  <2> QED
    BY <2>1, <2>4, <2>5 DEF Emit, TypeOK, StripeState, DunHolds, ghosts, bounds
<1>3. ASSUME NEW o \in Org, NEW p \in Plan, SetPlan(o, p)
      PROVE  TypeOK' /\ DunHolds'
  <2>1. sub' \in [SubId -> SubRow]
    BY <1>3, InsertWrites, ActivateWrites DEF SetPlan
  <2>2. plan' \in [Org -> Plan]
    BY <1>1, <1>3 DEF SetPlan, SetOrgPlan
  <2>3. crossed' \in SUBSET Org /\ mixed' \in SUBSET Org
    BY <1>3, GhostTypes DEF SetPlan
  <2> QED
    BY <1>1, <1>3, <2>1, <2>2, <2>3, HookTypes DEF SetPlan, bounds, DunHolds
<1>4. ASSUME NEW o \in Org, NEW p \in Plan, AdminSetOrgPlan(o, p)
      PROVE  TypeOK' /\ DunHolds'
  <2>1. plan' \in [Org -> Plan]
    BY <1>1, <1>4 DEF AdminSetOrgPlan, SetOrgPlan
  <2>2. crossed' \in SUBSET Org /\ mixed' \in SUBSET Org
    BY <1>4, GhostTypes DEF AdminSetOrgPlan
  <2> QED
    BY <1>1, <1>4, <2>1, <2>2, HookTypes DEF AdminSetOrgPlan, bounds, DunHolds
<1>5. ASSUME NEW o \in Org, GraceElapses(o)
      PROVE  TypeOK' /\ DunHolds'
  <2>1. sub' \in [SubId -> SubRow]
    BY <1>5, GraceWrites DEF StatusWrites
  <2>2. lapsed' \in SUBSET Org
    BY <1>5 DEF GraceElapses, TypeOK
  <2> QED
    BY <1>5, <2>1, <2>2
       DEF GraceElapses, TypeOK, HookRow, external, bounds, DunHolds
<1>6. ASSUME NEW h \in Hook, HookStep(h)
      PROVE  TypeOK' /\ DunHolds'
  <2>1. dun' = dun
    BY <1>6 DEF HookStep, CheckoutOrg, CheckoutSub, CheckoutInsert,
                PaymentFailed, PaymentSucceeded, CreateInvoice, DeletedOrg,
                DeletedSub, Ack
  <2> QED
    BY <1>6, <2>1, TypeHookStep DEF DunHolds
<1>7. ASSUME NEW h \in Hook, NEW e \in net, Deliver(h, e)
      PROVE  TypeOK' /\ DunHolds'
  <2>1. e \in Event /\ e.k \in Kind
    BY <1>1 DEF Event
  <2> DEFINE r == [pc |-> IF \/ e.k \in {"checkout", "deleted"}
                             \/ OrgByStripeCustomer(e.org)
                          THEN e.k ELSE "ack",
                   ev |-> e]
  <2>2. r \in HookRow
    BY <2>1 DEF HookRow, HookPc
  <2>3. hook' = [hook EXCEPT ![h] = r]
    BY <1>7 DEF Deliver
  <2> HIDE DEF r
  <2>4. hook' \in [Hook -> HookRow]
    BY <1>1, <2>2, <2>3
  <2> QED
    BY <1>1, <1>7, <2>4, HookTypes DEF Deliver, ghosts, bounds, DunHolds
<1>8. ASSUME NEW h \in Hook, StatementFails(h)
      PROVE  TypeOK' /\ DunHolds'
  <2>1. hook' \in [Hook -> HookRow]
    BY <1>8, HookMoves DEF StatementFails, HookPc
  <2>2. errs' \in 0..MaxErrs
    BY <1>1, <1>8, BillingAssumption DEF StatementFails
  <2>3. PICK o \in Org : o = hook[h].ev.org
    BY EventFields
  <2>4. crossed' \in SUBSET Org /\ mixed' \in SUBSET Org
    BY <1>1, <1>8, <2>3, GhostTypes DEF StatementFails
  <2> QED
    BY <1>1, <1>8, <2>1, <2>2, <2>4, HookTypes DEF StatementFails, DunHolds
<1>9. ASSUME NEW h \in Hook, RequestCut(h)
      PROVE  TypeOK' /\ DunHolds'
  <2>1. hook' \in [Hook -> HookRow]
    BY <1>9, HookReset DEF RequestCut
  <2>2. cuts' \in 0..MaxCuts
    BY <1>1, <1>9, BillingAssumption DEF RequestCut
  <2>3. PICK o \in Org : o = hook[h].ev.org
    BY EventFields
  <2>4. crossed' \in SUBSET Org /\ mixed' \in SUBSET Org
    BY <1>1, <1>9, <2>3, GhostTypes DEF RequestCut
  <2> QED
    BY <1>1, <1>9, <2>1, <2>2, <2>4, HookTypes DEF RequestCut, DunHolds
<1>10. CASE Crash
  <2>1. hook' \in [Hook -> HookRow] /\ dun' \in DunRow /\ dun'.pc = "sleep"
    BY <1>10, IdleTypes DEF Crash, IdleDun
  <2>2. /\ cuts' \in 0..MaxCuts
        /\ crossed' \in SUBSET Org /\ mixed' \in SUBSET Org
    BY <1>1, <1>10, BillingAssumption DEF Crash
  <2> QED
    BY <1>10, <2>1, <2>2
       DEF Crash, TypeOK, HookRow, DunRow, DunHolds, external
<1>11. CASE UNCHANGED vars
  BY <1>11 DEF vars, TypeOK, DunHolds, external, ghosts, bounds
<1>12. CASE Dunning \/ DunFails
  BY <1>12, TypeDunStep
<1> QED
  BY <1>2, <1>3, <1>4, <1>5, <1>6, <1>7, <1>8, <1>9, <1>10, <1>11, <1>12
     DEF Next, StripeStep, Dunning

\* The types of plans, subscriptions, requests, the dunning loop and the
\* events hold in every state: no statement of the webhook, no retry and no
\* crash leaves a row or a request outside of what the code knows.
THEOREM BillingTypeCorrect == Spec => []TypeOK
<1>1. Init => TypeOK /\ DunHolds
  BY InitType DEF Init, IdleDun, DunHolds
<1>2. TypeOK /\ DunHolds /\ [Next]_vars => (TypeOK /\ DunHolds)'
  BY TypeStep
<1> QED
  BY <1>1, <1>2, PTL DEF Spec

-----------------------------------------------------------------------------
(* Invoices.  A payment is shown once for each delivery that wrote a row: so *)
(* no request may serve the event of another one, and a payment that nobody  *)
(* is about to acknowledge may have rows for broken-off deliveries only.     *)

\* A request serves an event Stripe still waits for, in the branch of its kind.
Serves(h) ==
  /\ hook[h].pc # "idle" => hook[h].ev \in net
  /\ hook[h].pc \in {"checkout", "subUpdate", "subInsert"}
       => hook[h].ev.k = "checkout"
  /\ hook[h].pc = "failed" => hook[h].ev.k = "failed"
  /\ hook[h].pc \in {"paid", "invoice"} => hook[h].ev.k = "paid"
  /\ hook[h].pc \in {"deleted", "subCancel"} => hook[h].ev.k = "deleted"

ServeApart ==
  \A g, h \in Hook :
    /\ hook[g].pc # "idle" /\ hook[h].pc # "idle" /\ hook[g].ev = hook[h].ev
    => g = h

RequestsServe == (\A h \in Hook : Serves(h)) /\ ServeApart

\* What Stripe says is so, and a number and a kind name one event.
EventsTrue ==
  /\ collected \subseteq 1..sent
  /\ \A e \in net :
       /\ e.id \in 1..sent
       /\ e.k = "paid" => e.id \in collected
       /\ e.k = "deleted" => e.org \in ended
       /\ e.k = "checkout" => e.plan # "free"
  /\ \A e, f \in net : e.id = f.id /\ e.k = f.k => e = f

Acknowledged(e) == \E h \in Hook : hook[h].pc = "ack" /\ hook[h].ev = e

InvoicesOwed ==
  /\ InvoicesArePaid
  /\ \A e \in net : e.k = "paid" /\ ~Acknowledged(e) => invoices[e.id] <= cuts

DeliveryInv == RequestsServe /\ EventsTrue /\ InvoicesOwed

LEMMA StripeDelivery ==
  ASSUME TypeOK, DeliveryInv, NEW o \in Org, StripeStep(o)
  PROVE  DeliveryInv'
<1>1. PICK ks \in SUBSET Kind, p \in Plan :
        /\ Emit(ks, o, p)
        /\ "checkout" \in ks => p # "free"
        /\ "deleted" \in ks => ended' = ended \cup {o}
        /\ ended' \in {ended, ended \cup {o}}
  BY Emits
<1>2. /\ sent' = sent + 1 /\ sent \in Nat /\ sent' \in 1..MaxEvents
      /\ UNCHANGED <<hook, invoices, cuts>>
  BY <1>1, BillingAssumption DEF Emit, TypeOK, bounds
<1> DEFINE new == {[id |-> sent', k |-> k, org |-> o, plan |-> p] : k \in ks}
<1>3. net' = net \cup new
  BY <1>1 DEF Emit
<1>4. \A e \in new : /\ e.id = sent' /\ e.k \in ks
                     /\ e.k = "checkout" => e.plan # "free"
                     /\ e.k = "deleted" => e.org \in ended'
                     /\ e.k = "paid" => e.id \in collected'
  BY <1>1 DEF Emit
<1>5. \A e, f \in new : e.k = f.k => e = f
  OBVIOUS
<1>6. /\ collected \subseteq collected'
      /\ collected' \subseteq collected \cup {sent'}
  BY <1>1 DEF Emit
<1> HIDE DEF new
<1>7. RequestsServe'
  <2>1. \A h \in Hook : Serves(h)'
    BY <1>2, <1>3 DEF DeliveryInv, RequestsServe, Serves
  <2>2. ServeApart'
    BY <1>2 DEF DeliveryInv, RequestsServe, ServeApart
  <2> QED
    BY <2>1, <2>2 DEF RequestsServe
<1>8. EventsTrue'
  <2>1. 1..sent \subseteq 1..sent' /\ sent' \in 1..sent' /\ sent' \notin 1..sent
    BY <1>2
  <2>2. collected' \subseteq 1..sent'
    BY <1>6, <2>1 DEF DeliveryInv, EventsTrue
  <2>3. \A e \in net' : /\ e.id \in 1..sent'
                        /\ e.k = "paid" => e.id \in collected'
                        /\ e.k = "deleted" => e.org \in ended'
                        /\ e.k = "checkout" => e.plan # "free"
    BY <1>1, <1>3, <1>4, <1>6, <2>1 DEF DeliveryInv, EventsTrue
  <2>4. \A e, f \in net' : e.id = f.id /\ e.k = f.k => e = f
    BY <1>3, <1>4, <1>5, <2>1 DEF DeliveryInv, EventsTrue
  <2> QED
    BY <2>2, <2>3, <2>4 DEF EventsTrue
<1>9. InvoicesOwed'
  <2>1. sent' \notin collected
    BY <1>2 DEF DeliveryInv, EventsTrue
  <2>2. invoices[sent'] \in Nat /\ cuts \in Nat
    BY <1>2, BillingAssumption DEF TypeOK
  <2>3. invoices[sent'] = 0
    BY <1>2, <2>1, <2>2 DEF DeliveryInv, InvoicesOwed, InvoicesArePaid
  <2>4. InvoicesArePaid'
    BY <1>2, <1>6 DEF DeliveryInv, InvoicesOwed, InvoicesArePaid
  <2>5. ASSUME NEW e \in net', e.k = "paid", ~Acknowledged(e)'
        PROVE  invoices'[e.id] <= cuts'
    <3>1. CASE e \in net
      BY <1>2, <2>5, <3>1 DEF DeliveryInv, InvoicesOwed, Acknowledged
    <3>2. CASE e \in new
      BY <1>2, <1>4, <2>2, <2>3, <3>2
    <3> QED
      BY <1>3, <3>1, <3>2
  <2> QED
    BY <2>4, <2>5 DEF InvoicesOwed
<1> QED
  BY <1>7, <1>8, <1>9 DEF DeliveryInv

\* A request that goes on keeps its event; it takes up the answer only here.
LEMMA MoveDelivery ==
  ASSUME TypeOK, DeliveryInv, NEW h \in Hook, NEW p \in HookPc, HookTo(h, p),
         hook[h].pc \notin {"idle", "ack"}, p # "idle",
         p \in {"subUpdate", "subInsert"} => hook[h].ev.k = "checkout",
         p = "invoice" => hook[h].ev.k = "paid",
         p = "subCancel" => hook[h].ev.k = "deleted",
         p \notin {"checkout", "failed", "paid", "deleted"},
         UNCHANGED <<net, external>>
  PROVE  /\ RequestsServe' /\ EventsTrue'
         /\ \A e : Acknowledged(e) => Acknowledged(e)'
         /\ \A e : p = "ack" /\ e = hook[h].ev => Acknowledged(e)'
<1>1. /\ hook'[h].pc = p /\ hook'[h].ev = hook[h].ev
      /\ \A g \in Hook \ {h} : hook'[g] = hook[g]
  BY HookMoves
<1>2. \A g \in Hook : Serves(g)'
  BY <1>1 DEF DeliveryInv, RequestsServe, Serves
<1>3. ServeApart'
  BY <1>1 DEF DeliveryInv, RequestsServe, ServeApart
<1>4. EventsTrue'
  BY DEF DeliveryInv, EventsTrue, external
<1>5. \A e : Acknowledged(e) => Acknowledged(e)'
  BY <1>1 DEF Acknowledged
<1>6. \A e : p = "ack" /\ e = hook[h].ev => Acknowledged(e)'
  BY <1>1 DEF Acknowledged
<1> QED
  BY <1>2, <1>3, <1>4, <1>5, <1>6 DEF RequestsServe

\* As long as no invoice is written, the invoices stay owed.
LEMMA SameInvoices ==
  ASSUME DeliveryInv, UNCHANGED <<invoices, cuts, net, external>>,
         \A e : Acknowledged(e) => Acknowledged(e)'
  PROVE  InvoicesOwed'
<1>1. InvoicesArePaid'
  BY DEF DeliveryInv, InvoicesOwed, InvoicesArePaid, external
<1> QED
  BY <1>1 DEF DeliveryInv, InvoicesOwed

LEMMA InvoiceDelivery ==
  ASSUME TypeOK, DeliveryInv, NEW h \in Hook, CreateInvoice(h)
  PROVE  DeliveryInv'
<1>1. "ack" \in HookPc /\ hook[h].pc = "invoice"
  BY DEF HookPc, CreateInvoice
<1>2. /\ RequestsServe' /\ EventsTrue'
      /\ \A e : Acknowledged(e) => Acknowledged(e)'
      /\ \A e : e = hook[h].ev => Acknowledged(e)'
  BY <1>1, MoveDelivery DEF CreateInvoice
<1> DEFINE e0 == hook[h].ev
<1>3. e0 \in net /\ e0.k = "paid"
  BY <1>1 DEF DeliveryInv, RequestsServe, Serves
<1>4. ~Acknowledged(e0)
  BY <1>1 DEF DeliveryInv, RequestsServe, ServeApart, Acknowledged
<1>5. /\ invoices \in [1..MaxEvents -> Nat] /\ cuts \in Nat
      /\ e0.id \in 1..MaxEvents
  BY <1>3, BillingAssumption DEF TypeOK, Event
<1>6. /\ invoices[e0.id] <= cuts /\ e0.id \in collected
  BY <1>3, <1>4 DEF DeliveryInv, InvoicesOwed, EventsTrue
<1>7. /\ invoices'[e0.id] = invoices[e0.id] + 1
      /\ \A n \in 1..MaxEvents \ {e0.id} : invoices'[n] = invoices[n]
      /\ UNCHANGED <<net, collected, cuts>>
  BY <1>5 DEF CreateInvoice, external, bounds
<1> HIDE DEF e0
<1>8. InvoicesArePaid'
  BY <1>5, <1>6, <1>7 DEF DeliveryInv, InvoicesOwed, InvoicesArePaid
<1>9. ASSUME NEW e \in net', e.k = "paid", ~Acknowledged(e)'
      PROVE  invoices'[e.id] <= cuts'
  <2>1. e # e0 /\ ~Acknowledged(e) /\ e \in net
    BY <1>2, <1>7, <1>9 DEF e0
  <2>2. e.id # e0.id /\ e.id \in 1..MaxEvents
    BY <1>3, <1>9, <2>1 DEF DeliveryInv, EventsTrue, TypeOK, Event
  <2> QED
    BY <1>7, <1>9, <2>1, <2>2 DEF DeliveryInv, InvoicesOwed
<1> QED
  BY <1>2, <1>8, <1>9 DEF DeliveryInv, InvoicesOwed

LEMMA AckDelivery ==
  ASSUME TypeOK, DeliveryInv, NEW h \in Hook, Ack(h)
  PROVE  DeliveryInv'
<1>1. /\ hook'[h].pc = "idle" /\ \A g \in Hook \ {h} : hook'[g] = hook[g]
      /\ hook[h].pc = "ack"
  BY HookReset DEF Ack
<1>2. /\ net' = net \ {hook[h].ev}
      /\ UNCHANGED <<invoices, collected, sent, ended, cuts>>
  BY DEF Ack, external, bounds
<1>3. \A g \in Hook : Serves(g)'
  BY <1>1, <1>2 DEF DeliveryInv, RequestsServe, Serves, ServeApart
<1>4. ServeApart'
  BY <1>1 DEF DeliveryInv, RequestsServe, ServeApart
<1>5. EventsTrue'
  BY <1>2 DEF DeliveryInv, EventsTrue
<1>6. InvoicesArePaid'
  BY <1>2 DEF DeliveryInv, InvoicesOwed, InvoicesArePaid
<1>7. \A e \in net' : Acknowledged(e) => Acknowledged(e)'
  BY <1>1, <1>2 DEF Acknowledged
<1>8. InvoicesOwed'
  BY <1>2, <1>6, <1>7 DEF DeliveryInv, InvoicesOwed
<1> QED
  BY <1>3, <1>4, <1>5, <1>8 DEF DeliveryInv, RequestsServe

LEMMA HookDelivery ==
  ASSUME TypeOK, DeliveryInv, NEW h \in Hook, HookStep(h)
  PROVE  DeliveryInv'
<1>1. {"subUpdate", "subInsert", "ack", "invoice", "subCancel"} \subseteq HookPc
  BY DEF HookPc
<1>2. /\ hook[h].pc \in {"checkout", "subUpdate", "subInsert"}
           => hook[h].ev.k = "checkout"
      /\ hook[h].pc \in {"paid", "invoice"} => hook[h].ev.k = "paid"
      /\ hook[h].pc \in {"deleted", "subCancel"} => hook[h].ev.k = "deleted"
  BY DEF DeliveryInv, RequestsServe, Serves
<1>3. ASSUME NEW p \in {"subUpdate", "subInsert", "ack", "invoice",
                        "subCancel"},
             HookTo(h, p), hook[h].pc \notin {"idle", "ack"},
             p \in {"subUpdate", "subInsert"} => hook[h].ev.k = "checkout",
             p = "invoice" => hook[h].ev.k = "paid",
             p = "subCancel" => hook[h].ev.k = "deleted",
             UNCHANGED <<invoices, net, external, cuts>>
      PROVE  DeliveryInv'
  <2>1. /\ RequestsServe' /\ EventsTrue'
        /\ \A e : Acknowledged(e) => Acknowledged(e)'
    BY <1>1, <1>3, MoveDelivery
  <2>2. InvoicesOwed'
    BY <1>3, <2>1, SameInvoices
  <2> QED
    BY <2>1, <2>2 DEF DeliveryInv
<1>4. CASE CheckoutOrg(h)
  BY <1>2, <1>3, <1>4 DEF CheckoutOrg, bounds
<1>5. CASE CheckoutSub(h)
  BY <1>2, <1>3, <1>5 DEF CheckoutSub, bounds
<1>6. CASE CheckoutInsert(h)
  BY <1>3, <1>6 DEF CheckoutInsert, bounds
<1>7. CASE PaymentFailed(h)
  BY <1>3, <1>7 DEF PaymentFailed, bounds
<1>8. CASE PaymentSucceeded(h)
  BY <1>2, <1>3, <1>8 DEF PaymentSucceeded, bounds
<1>9. CASE CreateInvoice(h)
  BY <1>9, InvoiceDelivery
<1>10. CASE DeletedOrg(h)
  BY <1>2, <1>3, <1>10 DEF DeletedOrg, bounds
<1>11. CASE DeletedSub(h)
  BY <1>3, <1>11 DEF DeletedSub, bounds
<1>12. CASE Ack(h)
  BY <1>12, AckDelivery
<1> QED
  BY <1>4, <1>5, <1>6, <1>7, <1>8, <1>9, <1>10, <1>11, <1>12 DEF HookStep

LEMMA DeliverDelivery ==
  ASSUME TypeOK, DeliveryInv, NEW h \in Hook, NEW e \in net, Deliver(h, e)
  PROVE  DeliveryInv'
<1>1. e \in Event /\ e.k \in Kind /\ hook \in [Hook -> HookRow]
  BY DEF TypeOK, Event, HookRow
<1> DEFINE r == [pc |-> IF \/ e.k \in {"checkout", "deleted"}
                           \/ OrgByStripeCustomer(e.org)
                        THEN e.k ELSE "ack",
                 ev |-> e]
<1>2. r.ev = e /\ r.pc \in {e.k, "ack"}
  OBVIOUS
<1>3. hook' = [hook EXCEPT ![h] = r]
  BY DEF Deliver
<1> HIDE DEF r
<1>4. hook'[h] = r /\ \A g \in Hook \ {h} : hook'[g] = hook[g]
  BY <1>1, <1>3
<1>5. /\ UNCHANGED <<invoices, cuts, net, external>>
      /\ hook[h].pc = "idle" /\ \A g \in Hook : hook[g].ev # e
  BY DEF Deliver, bounds
<1>6. \A g \in Hook : Serves(g)'
  BY <1>1, <1>2, <1>4, <1>5 DEF DeliveryInv, RequestsServe, Serves, Kind
<1>7. ServeApart'
  BY <1>2, <1>4, <1>5 DEF DeliveryInv, RequestsServe, ServeApart
<1>8. EventsTrue'
  BY <1>5 DEF DeliveryInv, EventsTrue, external
<1>9. \A f : Acknowledged(f) => Acknowledged(f)'
  BY <1>4, <1>5 DEF Acknowledged
<1>10. InvoicesOwed'
  BY <1>5, <1>9, SameInvoices
<1> QED
  BY <1>6, <1>7, <1>8, <1>10 DEF DeliveryInv, RequestsServe

\* Broken-off deliveries: the event is owed again, and one row more is allowed.
LEMMA CutDelivery ==
  ASSUME TypeOK, DeliveryInv,
         \A g \in Hook : hook'[g] = hook[g] \/ hook'[g].pc = "idle",
         cuts' = cuts + 1, UNCHANGED <<invoices, net, external>>
  PROVE  DeliveryInv'
<1>1. \A g \in Hook : Serves(g)'
  BY DEF DeliveryInv, RequestsServe, Serves
<1>2. ServeApart'
  BY DEF DeliveryInv, RequestsServe, ServeApart
<1>3. EventsTrue'
  BY DEF DeliveryInv, EventsTrue, external
<1>4. /\ cuts \in Nat /\ invoices \in [1..MaxEvents -> Nat]
      /\ \A e \in net : e.id \in 1..MaxEvents
  BY BillingAssumption DEF TypeOK, Event
<1>5. /\ InvoicesArePaid'
      /\ \A e \in net : invoices[e.id] <= cuts'
  BY <1>4 DEF DeliveryInv, InvoicesOwed, InvoicesArePaid, external
<1> QED
  BY <1>1, <1>2, <1>3, <1>5 DEF DeliveryInv, RequestsServe, InvoicesOwed

LEMMA DeliveryStep ==
  ASSUME TypeOK, DeliveryInv, [Next]_vars
  PROVE  DeliveryInv'
<1>1. ASSUME UNCHANGED <<hook, invoices, net, external, cuts>>
      PROVE  DeliveryInv'
  BY <1>1 DEF DeliveryInv, RequestsServe, Serves, ServeApart, EventsTrue,
              InvoicesOwed, InvoicesArePaid, Acknowledged, external
<1>2. ASSUME NEW h \in Hook, StatementFails(h)
      PROVE  DeliveryInv'
  <2>1. /\ UNCHANGED <<invoices, net, external, cuts>>
        /\ hook[h].pc \notin {"idle", "ack"}
        /\ HookTo(h, IF hook[h].pc = "paid" THEN "invoice" ELSE "ack")
    BY <1>2 DEF StatementFails
  <2>2. hook[h].pc = "paid" => hook[h].ev.k = "paid"
    BY DEF DeliveryInv, RequestsServe, Serves
  <2>3. /\ RequestsServe' /\ EventsTrue'
        /\ \A e : Acknowledged(e) => Acknowledged(e)'
    BY <2>1, <2>2, MoveDelivery DEF HookPc
  <2> QED
    BY <2>1, <2>3, SameInvoices DEF DeliveryInv
<1>3. ASSUME NEW h \in Hook, RequestCut(h)
      PROVE  DeliveryInv'
  BY <1>3, HookReset, CutDelivery DEF RequestCut
<1>4. CASE Crash
  BY <1>4, CutDelivery DEF Crash, IdleHook
<1>5. ASSUME NEW o \in Org, StripeStep(o)
      PROVE  DeliveryInv'
  BY <1>5, StripeDelivery
<1>6. ASSUME NEW o \in Org,
             \/ DunDowngradeOrg(o) \/ GraceElapses(o)
             \/ \E p \in Plan : SetPlan(o, p) \/ AdminSetOrgPlan(o, p)
      PROVE  DeliveryInv'
  BY <1>1, <1>6
     DEF DunDowngradeOrg, GraceElapses, SetPlan, AdminSetOrgPlan, bounds
<1>7. CASE DunSnapshot \/ DunCancelSub \/ DunDone \/ DunFails
  BY <1>1, <1>7 DEF DunSnapshot, DunCancelSub, DunDone, DunFails, bounds
<1>8. CASE UNCHANGED vars
  BY <1>1, <1>8 DEF vars, bounds
<1> QED
  BY <1>2, <1>3, <1>4, <1>5, <1>6, <1>7, <1>8, HookDelivery, DeliverDelivery
     DEF Next, StripeStep

LEMMA InitDelivery == Init => DeliveryInv
<1> SUFFICES ASSUME Init PROVE DeliveryInv
  OBVIOUS
<1>1. RequestsServe
  BY DEF Init, RequestsServe, Serves, ServeApart, IdleHook
<1>2. EventsTrue
  BY DEF Init, EventsTrue
<1>3. InvoicesOwed
  BY DEF Init, InvoicesOwed, InvoicesArePaid
<1> QED
  BY <1>1, <1>2, <1>3 DEF DeliveryInv

\* Each invoice shown was paid at Stripe, and is shown once, or once more for
\* each delivery or crash that was cut off after the row was written.
THEOREM BillingInvoicesArePaid == Spec => []InvoicesArePaid
<1> DEFINE Inv == TypeOK /\ DunHolds /\ DeliveryInv
<1>1. Init => Inv
  BY InitType, InitDelivery DEF Init, IdleDun, DunHolds
<1>2. Inv /\ [Next]_vars => Inv'
  BY TypeStep, DeliveryStep
<1>3. Inv => InvoicesArePaid
  BY DEF DeliveryInv, InvoicesOwed
<1> QED
  BY <1>1, <1>2, <1>3, PTL DEF Spec

-----------------------------------------------------------------------------
(* Plans.  As long as nobody came between, the writer that is between        *)
(* its two statements still finds org.plan as it left it, and the rows it is *)
(* about to write are those of the org.                                      *)

AmidPc == {"subUpdate", "subInsert", "subCancel"}

AmidAlone(o) ==
  /\ \A g, h \in HooksAmid(o) : g = h
  /\ DunningAmid(o) => HooksAmid(o) = {} /\ plan[o] = "free"
  /\ \A h \in HooksAmid(o) :
       /\ hook[h].pc = "subCancel" => plan[o] = "free"
       /\ hook[h].pc # "subCancel" => plan[o] = hook[h].ev.plan
       /\ hook[h].pc = "subInsert" => Rows(o) = {}
OneRow(o) == \A i, j \in Rows(o) : i = j
RowAgrees(o) == ~Amid(o) => \A i \in Rows(o) : sub[i].plan = plan[o]

PlanInv(o) == /\ o \notin crossed => AmidAlone(o)
              /\ o \notin mixed => OneRow(o) /\ RowAgrees(o)
PlansInv == \A o \in Org : PlanInv(o)

\* A step that leaves alone all that PlanInv says of one org.
RowsSame(o) == /\ Rows(o)' = Rows(o)
               /\ \A i \in Rows(o) : sub'[i].plan = sub[i].plan
HooksSame(o) == /\ HooksAmid(o)' = HooksAmid(o)
                /\ \A h \in HooksAmid(o) : hook'[h] = hook[h]
DunSame(o) == DunningAmid(o)' <=> DunningAmid(o)
GhostsKept(o) == /\ o \in crossed => o \in crossed'
                 /\ o \in mixed => o \in mixed'

LEMMA PlanFrame ==
  ASSUME NEW o \in Org, PlanInv(o), plan'[o] = plan[o],
         RowsSame(o), HooksSame(o), DunSame(o), GhostsKept(o)
  PROVE  PlanInv(o)'
<1>1. Amid(o)' <=> Amid(o)
  BY DEF Amid, HooksSame, DunSame
<1>2. AmidAlone(o) => AmidAlone(o)'
  BY DEF AmidAlone, HooksSame, DunSame, RowsSame
<1>3. OneRow(o) /\ RowAgrees(o) => OneRow(o)' /\ RowAgrees(o)'
  BY <1>1 DEF OneRow, RowAgrees, RowsSame
<1> QED
  BY <1>2, <1>3 DEF PlanInv, GhostsKept

\* What another org's writers do is not recorded of this one.
LEMMA GhostsElsewhere ==
  ASSUME NEW o, NEW q, q # o, NEW more,
         Starts(q) \/ Ends(q, more) \/ Breaks(q, more)
  PROVE  GhostsKept(o)
BY DEF Starts, Ends, Breaks, Leaves, GhostsKept

\* With nobody between two statements there is nobody to be alone.
LEMMA NobodyAmid == ASSUME NEW o, ~Amid(o)' PROVE AmidAlone(o)'
BY DEF Amid, AmidAlone

LEMMA HookElsewhere ==
  ASSUME TypeOK, NEW o \in Org, NEW h \in Hook, NEW p \in HookPc, HookTo(h, p),
         \/ hook[h].ev.org # o
         \/ hook[h].pc \notin AmidPc /\ p \notin AmidPc
  PROVE  HooksSame(o)
BY HookMoves DEF HooksSame, HooksAmid, AmidPc

LEMMA HookEnters ==
  ASSUME TypeOK, NEW h \in Hook, NEW p \in AmidPc, HookTo(h, p),
         NEW o \in Org, hook[h].ev.org = o
  PROVE  /\ HooksAmid(o)' = HooksAmid(o) \cup {h}
         /\ hook'[h].pc = p /\ hook'[h].ev = hook[h].ev
         /\ \A g \in Hook \ {h} : hook'[g] = hook[g]
<1>1. p \in HookPc
  BY DEF AmidPc, HookPc
<1> QED
  BY <1>1, HookMoves DEF HooksAmid, AmidPc

LEMMA HookLeaves ==
  ASSUME TypeOK, NEW h \in Hook, NEW p \in HookPc, HookTo(h, p),
         p \notin AmidPc, NEW o \in Org, hook[h].ev.org = o
  PROVE  HooksAmid(o)' = HooksAmid(o) \ {h}
BY HookMoves DEF HooksAmid, AmidPc

\* The rows of an org are never those of another one.
LEMMA RowsElsewhere ==
  ASSUME TypeOK, NEW o \in Org, NEW q, q # o,
         \/ CancelRows(q)
         \/ q \in Org /\ \E p \in Plan, c \in BOOLEAN :
              ActivateRows(q, p, c) \/ InsertRow(q, p, c)
  PROVE  RowsSame(o)
<1>1. CASE CancelRows(q)
  BY <1>1, CancelWrites DEF RowsSame, Rows
<1>2. ASSUME q \in Org, NEW p \in Plan, NEW c \in BOOLEAN,
             ActivateRows(q, p, c)
      PROVE  RowsSame(o)
  BY <1>2, ActivateWrites DEF RowsSame, Rows
<1>3. ASSUME q \in Org, NEW p \in Plan, NEW c \in BOOLEAN,
             InsertRow(q, p, c)
      PROVE  RowsSame(o)
  BY <1>3, InsertWrites DEF Inserted, RowsSame, Rows
<1> QED
  BY <1>1, <1>2, <1>3

LEMMA StatusRows ==
  ASSUME NEW o \in Org, NEW q, StatusWrites(q)
  PROVE  RowsSame(o)
BY DEF StatusWrites, RowsSame, Rows

LEMMA OneByCount ==
  ASSUME NEW o \in Org
  PROVE  OneRow(o) <=> Cardinality(Rows(o)) <= 1
<1>1. IsFiniteSet(Rows(o)) /\ Cardinality(Rows(o)) \in Nat
  <2>1. Rows(o) \subseteq SubId
    BY DEF Rows
  <2> QED
    BY <2>1, BillingAssumption, FS_Subset, FS_CardinalityType
<1>2. ASSUME OneRow(o) PROVE Cardinality(Rows(o)) <= 1
  <2>1. CASE Rows(o) = {}
    BY <2>1, FS_EmptySet
  <2>2. ASSUME NEW i \in Rows(o)
        PROVE  Cardinality(Rows(o)) <= 1
    <3>1. Rows(o) = {i}
      BY <1>2, <2>2 DEF OneRow
    <3> QED
      BY <3>1, FS_Singleton
  <2> QED
    BY <2>1, <2>2
<1>3. ASSUME Cardinality(Rows(o)) <= 1, NEW i \in Rows(o), NEW j \in Rows(o)
      PROVE  i = j
  <2>1. IsFiniteSet(Rows(o) \ {i}) /\
        Cardinality(Rows(o) \ {i}) = Cardinality(Rows(o)) - 1
    BY <1>1, FS_RemoveElement
  <2>2. Cardinality(Rows(o) \ {i}) \in Nat
    BY <2>1, FS_CardinalityType
  <2>3. Cardinality(Rows(o) \ {i}) = 0
    BY <1>1, <1>3, <2>1, <2>2
  <2>4. Rows(o) \ {i} = {}
    BY <2>1, <2>3, FS_EmptySet
  <2> QED
    BY <2>4
<1> QED
  BY <1>2, <1>3 DEF OneRow

\* A writer of the org ends.  Where nobody came between its statements it leaves
\* the only row with the plan of the org.
LEMMA EndsInv ==
  ASSUME NEW o \in Org, PlanInv(o), NEW more, Ends(o, more),
         ~more => ~Amid(o)',
         o \notin crossed =>
           /\ ~Amid(o)'
           /\ OneRow(o) => OneRow(o)'
           /\ \A i \in Rows(o)' : sub'[i].plan = plan'[o]
  PROVE  PlanInv(o)'
<1>1. o \notin crossed' => ~Amid(o)'
  BY DEF Ends, Leaves
<1>2. ASSUME o \notin mixed' PROVE o \notin crossed /\ OneRow(o)
  BY <1>2, OneByCount DEF Ends, PlanInv
<1> QED
  BY <1>1, <1>2, NobodyAmid DEF PlanInv, RowAgrees

\* A writer of the org is broken off, or it is no longer known to agree.
LEMMA BreaksInv ==
  ASSUME NEW o \in Org, NEW more, Breaks(o, more),
         ~more \/ o \notin crossed => ~Amid(o)'
  PROVE  PlanInv(o)'
BY NobodyAmid DEF Breaks, Leaves, PlanInv

\* A request of the org stops being between its statements.
LEMMA HookStops ==
  ASSUME NEW o \in Org, PlanInv(o), NEW h \in HooksAmid(o),
         HooksAmid(o)' = HooksAmid(o) \ {h}, DunSame(o),
         o \notin crossed \/ ~OthersAmid(h)
  PROVE  ~Amid(o)'
<1>1. hook[h].ev.org = o
  BY DEF HooksAmid
<1>2. CASE o \notin crossed
  BY <1>2 DEF PlanInv, AmidAlone, DunSame, Amid
<1>3. CASE ~OthersAmid(h)
  BY <1>1, <1>3 DEF OthersAmid, DunSame, Amid
<1> QED
  BY <1>2, <1>3

\* First statements: CheckoutOrg and DeletedOrg.
LEMMA OrgWritten ==
  ASSUME TypeOK, PlansInv, NEW o \in Org, NEW h \in Hook,
         NEW p \in Plan, SetOrgPlan(hook[h].ev.org, p), Starts(hook[h].ev.org),
         \/ HookTo(h, "subUpdate") /\ p = hook[h].ev.plan
         \/ HookTo(h, "subCancel") /\ p = "free",
         UNCHANGED <<sub, dun>>
  PROVE  PlanInv(o)'
<1>1. plan \in [Org -> Plan] /\ "subUpdate" \in HookPc /\ "subCancel" \in HookPc
  BY DEF TypeOK, HookPc
<1>2. PlanInv(o)
  BY DEF PlansInv
<1>3. RowsSame(o) /\ DunSame(o)
  BY DEF RowsSame, Rows, DunSame, DunningAmid
<1>4. CASE hook[h].ev.org # o
  <2>1. plan'[o] = plan[o]
    BY <1>1, <1>4 DEF SetOrgPlan
  <2>2. HooksSame(o)
    BY <1>1, <1>4, HookElsewhere
  <2>3. GhostsKept(o)
    BY <1>4, GhostsElsewhere
  <2> QED
    BY <1>2, <1>3, <2>1, <2>2, <2>3, PlanFrame
<1>5. CASE hook[h].ev.org = o
  <2>1. plan'[o] = p
    BY <1>1, <1>5 DEF SetOrgPlan
  <2>2. /\ HooksAmid(o)' = HooksAmid(o) \cup {h} /\ hook'[h].ev = hook[h].ev
        /\ \/ hook'[h].pc = "subUpdate" /\ p = hook[h].ev.plan
           \/ hook'[h].pc = "subCancel" /\ p = "free"
    BY <1>5, HookEnters DEF AmidPc
  <2>3. ASSUME o \notin crossed' PROVE AmidAlone(o)'
    <3>1. HooksAmid(o) = {} /\ ~DunningAmid(o)
      BY <1>5, <2>3 DEF Starts, Amid
    <3> QED
      BY <1>3, <2>1, <2>2, <3>1 DEF AmidAlone, DunSame
  <2>4. OneRow(o) => OneRow(o)'
    BY <1>3 DEF OneRow, RowsSame
  <2>5. RowAgrees(o)'
    BY <2>2 DEF RowAgrees, Amid
  <2>6. mixed' = mixed
    BY DEF Starts
  <2> QED
    BY <1>2, <2>3, <2>4, <2>5, <2>6 DEF PlanInv
<1> QED
  BY <1>4, <1>5

\* Second statements: CheckoutSub and DeletedSub.
LEMMA RowsWritten ==
  ASSUME TypeOK, PlansInv, NEW o \in Org, NEW h \in Hook,
         CheckoutSub(h) \/ DeletedSub(h)
  PROVE  PlanInv(o)'
<1> DEFINE q == hook[h].ev.org
<1>1. /\ q \in Org /\ hook[h].ev.plan \in Plan
      /\ "subInsert" \in HookPc /\ "ack" \in HookPc
  BY EventFields DEF HookPc
<1>2. PlanInv(o) /\ plan'[o] = plan[o] /\ DunSame(o)
  BY DEF PlansInv, DunSame, DunningAmid, CheckoutSub, DeletedSub
<1>3. \/ /\ hook[h].pc = "subUpdate" /\ ActivateRows(q, hook[h].ev.plan, TRUE)
      \/ /\ hook[h].pc = "subCancel" /\ CancelRows(q)
  BY DEF CheckoutSub, DeletedSub
<1>4. \/ /\ hook[h].pc = "subUpdate" /\ Rows(q) = {}
         /\ HookTo(h, "subInsert") /\ UNCHANGED <<crossed, mixed>>
      \/ HookTo(h, "ack") /\ Ends(q, OthersAmid(h))
  BY DEF CheckoutSub, DeletedSub
<1>5. CASE q # o
  <2>1. RowsSame(o)
    BY <1>1, <1>3, <1>5, RowsElsewhere
  <2>2. HooksSame(o)
    BY <1>1, <1>4, <1>5, HookElsewhere
  <2>3. GhostsKept(o)
    BY <1>4, <1>5, GhostsElsewhere DEF GhostsKept
  <2> QED
    BY <1>2, <2>1, <2>2, <2>3, PlanFrame
<1>6. CASE q = o
  <2>1. h \in HooksAmid(o)
    BY <1>3, <1>6 DEF HooksAmid
  <2>2. Rows(o)' = Rows(o)
    <3>1. ASSUME NEW p \in Plan, ActivateRows(o, p, TRUE)
          PROVE  Rows(o)' = Rows(o)
      <4>1. /\ \A i \in Rows(o) : sub'[i].st = "active" /\ sub'[i].org = o
            /\ \A i \in SubId \ Rows(o) : sub'[i] = sub[i]
        BY <3>1, ActivateWrites
      <4> QED
        BY <4>1 DEF Rows
    <3>2. CASE CancelRows(o)
      BY <3>2, CancelWrites DEF Rows
    <3> QED
      BY <1>1, <1>3, <1>6, <3>1, <3>2
  <2>3. ASSUME o \notin crossed
        PROVE  /\ hook[h].pc = "subCancel" => plan[o] = "free"
               /\ hook[h].pc = "subUpdate" => plan[o] = hook[h].ev.plan
               /\ \A i \in Rows(o) : sub'[i].plan = plan[o]
    <3>1. /\ hook[h].pc = "subCancel" => plan[o] = "free"
          /\ hook[h].pc = "subUpdate" => plan[o] = hook[h].ev.plan
      BY <1>2, <2>1, <2>3 DEF PlanInv, AmidAlone
    <3>2. ASSUME NEW p \in Plan, ActivateRows(o, p, TRUE)
          PROVE  \A i \in Rows(o) : sub'[i].plan = p
      BY <3>2, ActivateWrites
    <3>3. CASE /\ hook[h].pc = "subUpdate"
               /\ ActivateRows(o, hook[h].ev.plan, TRUE)
      BY <1>1, <3>1, <3>2, <3>3
    <3>4. CASE hook[h].pc = "subCancel" /\ CancelRows(o)
      BY <3>1, <3>4, CancelWrites
    <3> QED
      BY <1>3, <1>6, <3>3, <3>4
  <2>4. CASE HookTo(h, "ack") /\ Ends(o, OthersAmid(h))
    <3>1. HooksAmid(o)' = HooksAmid(o) \ {h}
      BY <1>1, <1>6, <2>4, HookLeaves DEF AmidPc
    <3>2. o \notin crossed \/ ~OthersAmid(h) => ~Amid(o)'
      BY <1>2, <2>1, <3>1, HookStops
    <3>3. OneRow(o) => OneRow(o)'
      BY <2>2 DEF OneRow
    <3>4. PICK more : more = OthersAmid(h)
      OBVIOUS
    <3>5. Ends(o, more) /\ (~more => ~Amid(o)')
      BY <2>4, <3>2, <3>4
    <3> QED
      BY <1>2, <2>2, <2>3, <3>2, <3>3, <3>5, EndsInv
  <2>5. CASE /\ HookTo(h, "subInsert") /\ Rows(o) = {}
             /\ hook[h].pc = "subUpdate" /\ UNCHANGED <<crossed, mixed>>
    <3>1. /\ HooksAmid(o)' = HooksAmid(o) /\ hook'[h].pc = "subInsert"
          /\ hook'[h].ev = hook[h].ev
      <4>1. HooksAmid(o)' = HooksAmid(o) \cup {h}
            /\ hook'[h].pc = "subInsert" /\ hook'[h].ev = hook[h].ev
        BY <1>6, <2>5, HookEnters DEF AmidPc
      <4> QED
        BY <2>1, <4>1
    <3>2. ASSUME o \notin crossed PROVE AmidAlone(o)'
      <4>1. HooksAmid(o) = {h} /\ ~DunningAmid(o)
        BY <1>2, <2>1, <3>2 DEF PlanInv, AmidAlone
      <4> QED
        BY <1>2, <2>2, <2>3, <2>5, <3>1, <3>2, <4>1 DEF AmidAlone, DunSame
    <3>3. OneRow(o)' /\ RowAgrees(o)'
      BY <2>2, <2>5 DEF OneRow, RowAgrees
    <3> QED
      BY <2>5, <3>2, <3>3 DEF PlanInv
  <2> QED
    BY <1>4, <1>6, <2>4, <2>5
<1> QED
  BY <1>5, <1>6

LEMMA RowInserted ==
  ASSUME TypeOK, PlansInv, NEW o \in Org, NEW h \in Hook,
         CheckoutInsert(h)
  PROVE  PlanInv(o)'
<1> DEFINE q == hook[h].ev.org
<1>1. /\ q \in Org /\ hook[h].ev.plan \in Plan
      /\ "ack" \in HookPc /\ hook[h].pc = "subInsert" /\ HookTo(h, "ack")
      /\ InsertRow(q, hook[h].ev.plan, TRUE) /\ Ends(q, OthersAmid(h))
  BY EventFields DEF HookPc, CheckoutInsert
<1>2. PlanInv(o) /\ plan'[o] = plan[o] /\ DunSame(o)
  BY DEF CheckoutInsert, PlansInv, DunSame, DunningAmid
<1>3. CASE q # o
  <2>1. RowsSame(o)
    BY <1>1, <1>3, RowsElsewhere
  <2>2. HooksSame(o)
    BY <1>1, <1>3, HookElsewhere
  <2>3. GhostsKept(o)
    BY <1>1, <1>3, GhostsElsewhere
  <2> QED
    BY <1>2, <2>1, <2>2, <2>3, PlanFrame
<1>4. CASE q = o
  <2>1. h \in HooksAmid(o)
    BY <1>1, <1>4 DEF HooksAmid
  <2>2. HooksAmid(o)' = HooksAmid(o) \ {h}
    BY <1>1, <1>4, HookLeaves DEF AmidPc
  <2>3. o \notin crossed \/ ~OthersAmid(h) => ~Amid(o)'
    BY <1>2, <2>1, <2>2, HookStops
  <2>4. ASSUME o \notin crossed
        PROVE  OneRow(o)' /\ \A i \in Rows(o)' : sub'[i].plan = plan'[o]
    <3>1. plan[o] = hook[h].ev.plan /\ Rows(o) = {}
      BY <1>1, <1>2, <2>1, <2>4 DEF PlanInv, AmidAlone
    <3>2. Inserted(o, plan[o])
      <4>1. plan[o] \in Plan /\ InsertRow(o, plan[o], TRUE)
        BY <1>1, <1>4, <3>1
      <4> QED
        BY <4>1, InsertWrites
    <3>3. PICK i \in SubId :
            /\ sub'[i].st = "active" /\ sub'[i].org = o
            /\ sub'[i].plan = plan[o]
            /\ \A j \in SubId \ {i} : sub'[j] = sub[j]
      BY <3>2 DEF Inserted
    <3>4. Rows(o)' = {i}
      BY <3>1, <3>3 DEF Rows
    <3> QED
      BY <1>2, <3>3, <3>4 DEF OneRow
  <2>5. PICK more : more = OthersAmid(h)
    OBVIOUS
  <2>6. Ends(o, more) /\ (~more => ~Amid(o)')
    BY <1>1, <1>4, <2>3, <2>5
  <2> QED
    BY <1>2, <2>3, <2>4, <2>6, EndsInv
<1> QED
  BY <1>3, <1>4

LEMMA HookPlans ==
  ASSUME TypeOK, PlansInv, NEW h \in Hook, HookStep(h), NEW o \in Org
  PROVE  PlanInv(o)'
<1>1. PlanInv(o)
  BY DEF PlansInv
<1>2. UNCHANGED <<crossed, mixed>> => GhostsKept(o)
  BY DEF GhostsKept
<1>3. "ack" \in HookPc /\ "invoice" \in HookPc
  BY DEF HookPc
<1>4. CASE CheckoutOrg(h)
  BY <1>4, EventFields, OrgWritten DEF CheckoutOrg
<1>5. CASE DeletedOrg(h)
  BY <1>5, BillingAssumption, OrgWritten DEF DeletedOrg
<1>6. CASE CheckoutSub(h) \/ DeletedSub(h)
  BY <1>6, RowsWritten
<1>7. CASE CheckoutInsert(h)
  BY <1>7, RowInserted
<1>8. CASE PaymentFailed(h) \/ PaymentSucceeded(h)
  <2>1. RowsSame(o)
    BY <1>8, FailedWrites, SucceededWrites, StatusRows
  <2>2. HooksSame(o)
    BY <1>3, <1>8, HookElsewhere DEF PaymentFailed, PaymentSucceeded, AmidPc
  <2> QED
    BY <1>1, <1>2, <1>8, <2>1, <2>2, PlanFrame
       DEF PaymentFailed, PaymentSucceeded, DunSame, DunningAmid, ghosts
<1>9. CASE CreateInvoice(h)
  <2>1. HooksSame(o)
    BY <1>3, <1>9, HookElsewhere DEF CreateInvoice, AmidPc
  <2> QED
    BY <1>1, <1>2, <1>9, <2>1, PlanFrame
       DEF CreateInvoice, DunSame, DunningAmid, RowsSame, Rows, ghosts
<1>10. CASE Ack(h)
  <2>1. HooksSame(o)
    BY <1>10, HookReset DEF Ack, HooksSame, HooksAmid
  <2> QED
    BY <1>1, <1>2, <1>10, <2>1, PlanFrame
       DEF Ack, DunSame, DunningAmid, RowsSame, Rows, ghosts
<1> QED
  BY <1>4, <1>5, <1>6, <1>7, <1>8, <1>9, <1>10 DEF HookStep

LEMMA DunPlans ==
  ASSUME TypeOK, DunHolds, PlansInv, Dunning \/ DunFails, NEW o \in Org
  PROVE  PlanInv(o)'
<1>1. PlanInv(o) /\ HooksSame(o)
  BY DEF PlansInv, HooksSame, HooksAmid, Dunning, DunSnapshot, DunDowngradeOrg,
         DunCancelSub, DunDone, DunFails
<1>2. UNCHANGED <<crossed, mixed>> => GhostsKept(o)
  BY DEF GhostsKept
<1>3. CASE DunSnapshot \/ DunDone
  <2>1. DunSame(o)
    BY <1>3 DEF DunSnapshot, DunDone, IdleDun, DunSame, DunningAmid
  <2> QED
    BY <1>1, <1>2, <1>3, <2>1, PlanFrame
       DEF DunSnapshot, DunDone, RowsSame, Rows, ghosts
<1>4. ASSUME NEW q \in Org, DunDowngradeOrg(q)
      PROVE  PlanInv(o)'
  <2>1. /\ dun'.pc = "cancel" /\ dun'.cur = q /\ dun.pc = "loop"
        /\ SetOrgPlan(q, "free") /\ Starts(q) /\ sub' = sub
    BY <1>4, DunMoves DEF DunDowngradeOrg
  <2>2. RowsSame(o)
    BY <2>1 DEF RowsSame, Rows
  <2>3. CASE q # o
    <3>1. GhostsKept(o)
      BY <2>1, <2>3, GhostsElsewhere
    <3> QED
      BY <1>1, <2>1, <2>2, <2>3, <3>1, PlanFrame
         DEF DunSame, DunningAmid, SetOrgPlan, TypeOK
  <2>4. CASE q = o
    <3>1. plan'[o] = "free"
      BY <2>1, <2>4 DEF SetOrgPlan, TypeOK
    <3>2. o \notin crossed' => AmidAlone(o)'
      BY <1>1, <2>1, <2>4, <3>1 DEF Starts, Amid, HooksSame, AmidAlone
    <3>3. OneRow(o) => OneRow(o)'
      BY <2>2 DEF OneRow, RowsSame
    <3>4. RowAgrees(o)' /\ mixed' = mixed
      BY <2>1, <2>4 DEF RowAgrees, Amid, DunningAmid, Starts
    <3> QED
      BY <1>1, <3>2, <3>3, <3>4 DEF PlanInv
  <2> QED
    BY <2>3, <2>4
<1>5. CASE DunCancelSub
  <2>1. /\ dun'.pc = "loop" /\ dun.pc = "cancel" /\ CancelRows(dun.cur)
        /\ plan' = plan /\ Ends(dun.cur, HooksAmid(dun.cur) # {})
    BY <1>5, DunReturns DEF DunCancelSub
  <2>2. CASE dun.cur # o
    <3>1. RowsSame(o)
      BY <2>1, <2>2, RowsElsewhere
    <3>2. GhostsKept(o)
      BY <2>1, <2>2, GhostsElsewhere
    <3> QED
      BY <1>1, <2>1, <2>2, <3>1, <3>2, PlanFrame DEF DunSame, DunningAmid
  <2>3. CASE dun.cur = o
    <3>1. /\ \A i \in Rows(o) :
               /\ sub'[i].st = "canceled" /\ sub'[i].org = o
               /\ sub'[i].plan = "free"
          /\ \A i \in SubId \ Rows(o) : sub'[i] = sub[i]
      BY <2>1, <2>3, CancelWrites
    <3>2. Rows(o)' = Rows(o)
      BY <3>1 DEF Rows
    <3>3. OneRow(o) => OneRow(o)'
      BY <3>2 DEF OneRow
    <3>4. o \notin crossed => HooksAmid(o) = {} /\ plan'[o] = "free"
      BY <1>1, <2>1, <2>3 DEF PlanInv, AmidAlone, DunningAmid
    <3>5. HooksAmid(o) = {} => ~Amid(o)'
      BY <1>1, <2>1 DEF Amid, DunningAmid, HooksSame
    <3>6. PICK more : more = (HooksAmid(o) # {})
      OBVIOUS
    <3>7. Ends(o, more) /\ (~more => ~Amid(o)')
      BY <2>1, <2>3, <3>5, <3>6
    <3> QED
      BY <1>1, <3>1, <3>2, <3>3, <3>4, <3>5, <3>7, EndsInv
  <2> QED
    BY <2>2, <2>3
<1>6. CASE DunFails
  <2>1. RowsSame(o) /\ plan'[o] = plan[o]
    BY <1>6 DEF DunFails, RowsSame, Rows
  <2>2. CASE /\ dun.pc = "loop" /\ UNCHANGED <<crossed, mixed>>
             /\ \E q \in Org : dun.todo[q] > 0 /\ DunNext(q, "loop", NoOrg)
    <3>1. dun'.pc = "loop"
      BY <2>2, DunMoves
    <3> QED
      BY <1>1, <1>2, <2>1, <2>2, <3>1, PlanFrame DEF DunSame, DunningAmid
  <2>3. CASE /\ dun.pc = "cancel" /\ Breaks(dun.cur, HooksAmid(dun.cur) # {})
             /\ dun' = [dun EXCEPT !.pc = "loop", !.cur = NoOrg]
    <3>1. dun'.pc = "loop"
      BY <2>3, DunReturns
    <3>2. CASE dun.cur # o
      <4>1. GhostsKept(o)
        BY <2>3, <3>2, GhostsElsewhere
      <4> QED
        BY <1>1, <2>1, <3>1, <3>2, <4>1, PlanFrame DEF DunSame, DunningAmid
    <3>3. CASE dun.cur = o
      <4>1. o \notin crossed => HooksAmid(o) = {}
        BY <1>1, <2>3, <3>3 DEF PlanInv, AmidAlone, DunningAmid
      <4>2. HooksAmid(o) = {} => ~Amid(o)'
        BY <1>1, <3>1 DEF Amid, DunningAmid, HooksSame
      <4>3. PICK more : more = (HooksAmid(o) # {})
        OBVIOUS
      <4>4. Breaks(o, more) /\ (~more \/ o \notin crossed => ~Amid(o)')
        BY <2>3, <3>3, <4>1, <4>2, <4>3
      <4> QED
        BY <4>4, BreaksInv
    <3> QED
      BY <3>2, <3>3
  <2> QED
    BY <1>6, <2>2, <2>3 DEF DunFails
<1> QED
  BY <1>3, <1>4, <1>5, <1>6 DEF Dunning

\* The customer's own change writes both tables at once.
LEMMA SetPlanPlans ==
  ASSUME TypeOK, PlansInv, NEW q \in Org, NEW p \in Plan, SetPlan(q, p),
         NEW o \in Org
  PROVE  PlanInv(o)'
<1>1. HooksSame(o) /\ DunSame(o) /\ SetOrgPlan(q, p) /\ PlanInv(o)
      /\ (Amid(o)' <=> Amid(o))
  BY DEF SetPlan, HooksSame, HooksAmid, DunSame, DunningAmid, PlansInv, Amid
<1>2. CASE q # o
  <2>1. RowsSame(o)
    BY <1>2, RowsElsewhere DEF SetPlan
  <2>2. plan'[o] = plan[o]
    BY <1>1, <1>2 DEF SetOrgPlan, TypeOK
  <2>3. GhostsKept(o)
    BY <1>2, GhostsElsewhere DEF SetPlan
  <2> QED
    BY <1>1, <2>1, <2>2, <2>3, PlanFrame
<1>3. CASE q = o
  <2>1. plan'[o] = p
    BY <1>1, <1>3 DEF SetOrgPlan, TypeOK
  <2>2. /\ OneRow(o) => OneRow(o)'
        /\ \A i \in Rows(o)' : sub'[i].plan = plan'[o]
    <3>1. CASE Rows(o) = {}
      <4>1. Inserted(o, p)
        <5>1. InsertRow(o, p, FALSE)
          BY <1>3, <3>1 DEF SetPlan
        <5> QED
          BY <5>1, InsertWrites
      <4>2. PICK i \in SubId :
              /\ sub'[i].st = "active" /\ sub'[i].org = o /\ sub'[i].plan = p
              /\ \A j \in SubId \ {i} : sub'[j] = sub[j]
        BY <4>1 DEF Inserted
      <4>3. Rows(o)' = {i}
        BY <3>1, <4>2 DEF Rows
      <4> QED
        BY <2>1, <4>2, <4>3 DEF OneRow
    <3>2. CASE Rows(o) # {}
      <4>1. ActivateRows(o, p, FALSE)
        BY <1>3, <3>2 DEF SetPlan
      <4>2. /\ \A i \in Rows(o) : /\ sub'[i].st = "active" /\ sub'[i].org = o
                                  /\ sub'[i].plan = p
            /\ \A i \in SubId \ Rows(o) : sub'[i] = sub[i]
        BY <4>1, ActivateWrites
      <4>3. Rows(o)' = Rows(o)
        BY <4>2 DEF Rows
      <4> QED
        BY <2>1, <4>2, <4>3 DEF OneRow
    <3> QED
      BY <3>1, <3>2
  <2>3. CASE Amid(o) /\ Starts(o)
    <3>1. o \in crossed' /\ mixed' = mixed
      BY <2>3 DEF Starts
    <3> QED
      BY <1>1, <2>2, <2>3, <3>1 DEF PlanInv, RowAgrees
  <2>4. CASE ~Amid(o) /\ Ends(o, FALSE)
    BY <1>1, <2>2, <2>4, EndsInv
  <2> QED
    BY <1>3, <2>3, <2>4 DEF SetPlan
<1> QED
  BY <1>2, <1>3

\* Staff change the plan of the org alone.
LEMMA AdminPlans ==
  ASSUME TypeOK, PlansInv, NEW q \in Org, NEW p \in Plan,
         AdminSetOrgPlan(q, p), NEW o \in Org
  PROVE  PlanInv(o)'
<1>1. /\ RowsSame(o) /\ HooksSame(o) /\ DunSame(o) /\ PlanInv(o)
      /\ Amid(o)' <=> Amid(o)
  BY DEF AdminSetOrgPlan, RowsSame, Rows, HooksSame, HooksAmid, DunSame,
         DunningAmid, PlansInv, Amid
<1>2. CASE q # o
  <2>1. GhostsKept(o)
    BY <1>2, GhostsElsewhere DEF AdminSetOrgPlan
  <2>2. plan'[o] = plan[o]
    BY <1>2 DEF AdminSetOrgPlan, SetOrgPlan, TypeOK
  <2> QED
    BY <1>1, <2>1, <2>2, PlanFrame
<1>3. CASE q = o
  <2>1. CASE Amid(o) /\ Starts(o)
    <3>1. o \in crossed' /\ mixed' = mixed
      BY <2>1 DEF Starts
    <3>2. OneRow(o) => OneRow(o)'
      BY <1>1 DEF OneRow, RowsSame
    <3> QED
      BY <1>1, <2>1, <3>1, <3>2 DEF PlanInv, RowAgrees
  <2>2. CASE ~Amid(o) /\ Breaks(o, FALSE)
    BY <1>1, <2>2, BreaksInv
  <2> QED
    BY <1>3, <2>1, <2>2 DEF AdminSetOrgPlan
<1> QED
  BY <1>2, <1>3

\* A request of the webhook is broken off at one of its statements.
LEMMA BrokenOffPlans ==
  ASSUME TypeOK, PlansInv, NEW o \in Org, NEW h \in Hook,
         IF h \in HooksAmid(hook[h].ev.org)
           THEN Breaks(hook[h].ev.org, OthersAmid(h))
           ELSE UNCHANGED <<crossed, mixed>>,
         HooksAmid(o)' = HooksAmid(o) \ {h},
         \A g \in HooksAmid(o) \ {h} : hook'[g] = hook[g],
         UNCHANGED <<plan, sub, dun>>
  PROVE  PlanInv(o)'
<1>1. PlanInv(o) /\ RowsSame(o) /\ DunSame(o) /\ plan'[o] = plan[o]
  BY DEF PlansInv, RowsSame, Rows, DunSame, DunningAmid
<1>2. CASE h \in HooksAmid(o)
  <2>1. hook[h].ev.org = o /\ Breaks(o, OthersAmid(h))
    BY <1>2 DEF HooksAmid
  <2>2. o \notin crossed \/ ~OthersAmid(h) => ~Amid(o)'
    BY <1>1, <1>2, HookStops
  <2>3. PICK more : more = OthersAmid(h)
    OBVIOUS
  <2>4. Breaks(o, more) /\ (~more \/ o \notin crossed => ~Amid(o)')
    BY <2>1, <2>2, <2>3
  <2> QED
    BY <2>4, BreaksInv
<1>3. CASE h \notin HooksAmid(o)
  <2>1. HooksSame(o)
    BY <1>3 DEF HooksSame
  <2>2. GhostsKept(o)
    <3>1. CASE h \in HooksAmid(hook[h].ev.org)
      BY <1>3, <3>1, GhostsElsewhere
    <3>2. CASE h \notin HooksAmid(hook[h].ev.org)
      BY <3>2 DEF GhostsKept
    <3> QED
      BY <3>1, <3>2
  <2> QED
    BY <1>1, <2>1, <2>2, PlanFrame
<1> QED
  BY <1>2, <1>3

LEMMA PlansStep ==
  ASSUME TypeOK, DunHolds, PlansInv, [Next]_vars
  PROVE  PlansInv'
<1> SUFFICES ASSUME NEW o \in Org
             PROVE  PlanInv(o)'
  BY DEF PlansInv
<1>1. ASSUME UNCHANGED <<plan, sub, dun, crossed, mixed>>, HooksSame(o)
      PROVE  PlanInv(o)'
  BY <1>1, PlanFrame
     DEF PlansInv, RowsSame, Rows, DunSame, DunningAmid, GhostsKept
<1>2. hook' = hook => HooksSame(o)
  BY DEF HooksSame, HooksAmid
<1>3. ASSUME NEW q \in Org, StripeStep(q)
      PROVE  PlanInv(o)'
  BY <1>1, <1>2, <1>3, Emits DEF Emit, ghosts
<1>5. ASSUME NEW q \in Org, GraceElapses(q)
      PROVE  PlanInv(o)'
  <2>1. RowsSame(o) /\ PlanInv(o)
    BY <1>5, GraceWrites, StatusRows DEF GraceElapses, PlansInv
  <2> QED
    BY <1>2, <1>5, <2>1, PlanFrame
       DEF GraceElapses, DunSame, DunningAmid, GhostsKept
<1>6. ASSUME NEW h \in Hook, NEW e \in net, Deliver(h, e)
      PROVE  PlanInv(o)'
  <2>1. \A g \in Hook \ {h} : hook'[g] = hook[g]
    BY <1>6 DEF Deliver, TypeOK
  <2>2. hook[h].pc = "idle" /\ hook'[h].pc \in {e.k, "ack"} /\ e.k \in Kind
    BY <1>6 DEF Deliver, TypeOK, Event
  <2>3. HooksSame(o)
    BY <2>1, <2>2 DEF HooksSame, HooksAmid, Kind
  <2> QED
    BY <1>1, <1>6, <2>3 DEF Deliver, ghosts
<1>7. ASSUME NEW h \in Hook, StatementFails(h)
      PROVE  PlanInv(o)'
  <2>1. PICK p \in {"invoice", "ack"} : HookTo(h, p)
    BY <1>7 DEF StatementFails
  <2>2. p \in HookPc /\ p \notin AmidPc
    BY <2>1 DEF HookPc, AmidPc
  <2>3. /\ HooksAmid(o)' = HooksAmid(o) \ {h}
        /\ \A g \in HooksAmid(o) \ {h} : hook'[g] = hook[g]
    BY <2>1, <2>2, HookMoves DEF HooksAmid, AmidPc
  <2> QED
    BY <1>7, <2>3, BrokenOffPlans DEF StatementFails
<1>8. ASSUME NEW h \in Hook, RequestCut(h)
      PROVE  PlanInv(o)'
  <2>1. /\ HooksAmid(o)' = HooksAmid(o) \ {h}
        /\ \A g \in HooksAmid(o) \ {h} : hook'[g] = hook[g]
    BY <1>8, HookReset DEF RequestCut, HooksAmid
  <2> QED
    BY <1>8, <2>1, BrokenOffPlans DEF RequestCut
<1>9. CASE Crash
  <2>1. ~Amid(o)'
    BY <1>9 DEF Crash, Amid, HooksAmid, DunningAmid, IdleHook, IdleDun
  <2>2. ASSUME o \notin mixed' PROVE OneRow(o)' /\ RowAgrees(o)'
    <3>1. ~Amid(o) /\ OneRow(o) /\ RowAgrees(o)
      BY <1>9, <2>2 DEF Crash, PlansInv, PlanInv
    <3> QED
      BY <1>9, <3>1 DEF Crash, OneRow, RowAgrees, Rows
  <2> QED
    BY <2>1, <2>2, NobodyAmid DEF PlanInv
<1>10. CASE UNCHANGED vars
  BY <1>1, <1>2, <1>10 DEF vars, ghosts
<1> QED
  BY <1>3, <1>5, <1>6, <1>7, <1>8, <1>9, <1>10, HookPlans, DunPlans,
     SetPlanPlans, AdminPlans
     DEF Next, StripeStep, Dunning

LEMMA InitPlans == Init => PlansInv
<1> SUFFICES ASSUME Init, NEW o \in Org PROVE PlanInv(o)
  BY DEF PlansInv
<1>1. Rows(o) = {} /\ HooksAmid(o) = {} /\ ~DunningAmid(o)
  BY DEF Init, Rows, HooksAmid, DunningAmid, IdleHook, IdleDun
<1> QED
  BY <1>1 DEF PlanInv, AmidAlone, OneRow, RowAgrees

\* The row of an org has the plan of the org, and is its only one, whenever no
\* writer is between its two statements: after writers that overlapped, were
\* broken off or failed, and after staff's own change, from the next writer on
\* that ran alone and to its end; for any number of requests and crashes.
THEOREM BillingPlansAgree == Spec => []PlansAgree
<1> DEFINE Inv == TypeOK /\ DunHolds /\ PlansInv
<1>1. Init => Inv
  BY InitType, InitPlans DEF Init, IdleDun, DunHolds
<1>2. Inv /\ [Next]_vars => Inv'
  BY TypeStep, PlansStep
<1>3. Inv => PlansAgree
  BY OneByCount DEF PlansInv, PlanInv, RowAgrees, PlansAgree
<1> QED
  BY <1>1, <1>2, <1>3, PTL DEF Spec

-----------------------------------------------------------------------------
(* Causes.  The list the dunning loop works off is older than the rows it    *)
(* writes: what stays true of it is that the grace of the org once ran out.  *)

Lapsed == \A i \in SubId :
            sub[i].st = "past_due" /\ sub[i].grace = "past"
              => sub[i].org \in lapsed
TodoLapsed == \A o \in Org : dun.todo[o] > 0 => o \in lapsed

GraceInv == Lapsed /\ TodoLapsed

LEMMA HookGrace ==
  ASSUME TypeOK, GraceInv, NEW h \in Hook, HookStep(h)
  PROVE  GraceInv'
<1>1. hook[h].ev.org \in Org /\ hook[h].ev.plan \in Plan
  BY EventFields
<1>2. dun' = dun /\ lapsed' = lapsed
  BY DEF HookStep, CheckoutOrg, CheckoutSub, CheckoutInsert, PaymentFailed,
         PaymentSucceeded, CreateInvoice, DeletedOrg, DeletedSub, Ack, ghosts
<1>3. TodoLapsed'
  BY <1>2 DEF GraceInv, TodoLapsed
<1>4. CASE CheckoutSub(h)
  <2> DEFINE o == hook[h].ev.org
             p == hook[h].ev.plan
  <2>1. /\ \A i \in Rows(o) : sub'[i].st = "active"
        /\ \A i \in SubId \ Rows(o) : sub'[i] = sub[i]
    <3>1. o \in Org /\ p \in Plan /\ ActivateRows(o, p, TRUE)
      BY <1>1, <1>4 DEF CheckoutSub
    <3> HIDE DEF o, p
    <3>2. /\ \A i \in Rows(o) : /\ sub'[i].st = "active" /\ sub'[i].org = o
                                /\ sub'[i].plan = p
          /\ \A i \in SubId \ Rows(o) : sub'[i] = sub[i]
      BY <3>1, ActivateWrites
    <3> QED
      BY <3>2
  <2> QED
    BY <1>2, <1>3, <2>1 DEF GraceInv, Lapsed
<1>5. CASE CheckoutInsert(h)
  <2>1. Inserted(hook[h].ev.org, hook[h].ev.plan)
    BY <1>1, <1>5, InsertWrites DEF CheckoutInsert
  <2> QED
    BY <1>2, <1>3, <2>1 DEF GraceInv, Lapsed, Inserted
<1>6. CASE PaymentFailed(h)
  <2>1. /\ \A i \in Rows(hook[h].ev.org) : sub'[i].grace = "pending"
        /\ \A i \in SubId \ Rows(hook[h].ev.org) : sub'[i] = sub[i]
    BY <1>6, FailedWrites DEF StatusWrites
  <2> QED
    BY <1>2, <1>3, <2>1 DEF GraceInv, Lapsed
<1>7. CASE PaymentSucceeded(h)
  <2>1. /\ \A i \in Rows(hook[h].ev.org) : sub'[i].st = "active"
        /\ \A i \in SubId \ Rows(hook[h].ev.org) : sub'[i] = sub[i]
    BY <1>7, SucceededWrites DEF StatusWrites
  <2> QED
    BY <1>2, <1>3, <2>1 DEF GraceInv, Lapsed
<1>8. CASE DeletedSub(h)
  <2>1. /\ \A i \in Rows(hook[h].ev.org) : sub'[i].st = "canceled"
        /\ \A i \in SubId \ Rows(hook[h].ev.org) : sub'[i] = sub[i]
    BY <1>8, CancelWrites DEF DeletedSub
  <2> QED
    BY <1>2, <1>3, <2>1 DEF GraceInv, Lapsed
<1>9. CASE CheckoutOrg(h) \/ CreateInvoice(h) \/ DeletedOrg(h) \/ Ack(h)
  BY <1>2, <1>3, <1>9
     DEF GraceInv, Lapsed, CheckoutOrg, CreateInvoice, DeletedOrg, Ack
<1> QED
  BY <1>4, <1>5, <1>6, <1>7, <1>8, <1>9 DEF HookStep

LEMMA DunGrace ==
  ASSUME TypeOK, GraceInv, Dunning \/ DunFails
  PROVE  GraceInv'
<1>1. lapsed' = lapsed
  BY DEF Dunning, DunSnapshot, DunDowngradeOrg, DunCancelSub, DunDone, DunFails,
         ghosts
<1>2. dun.todo \in [Org -> Nat]
  BY DEF TypeOK
<1>3. ASSUME \A q \in Org : dun'.todo[q] <= dun.todo[q], dun' \in DunRow
      PROVE  TodoLapsed'
  <2>1. \A q \in Org : dun'.todo[q] \in Nat
    BY <1>3 DEF DunRow
  <2> QED
    BY <1>1, <1>2, <1>3, <2>1 DEF GraceInv, TodoLapsed
<1>4. CASE DunSnapshot
  <2>1. ASSUME NEW o \in Org, dun'.todo[o] > 0 PROVE o \in lapsed
    <3>1. dun'.todo[o] = Cardinality(PastDueExpired(o))
      BY <1>4 DEF DunSnapshot
    <3>2. PastDueExpired(o) # {}
      BY <2>1, <3>1, FS_EmptySet
    <3> QED
      BY <3>2 DEF PastDueExpired, Rows, GraceInv, Lapsed
  <2> QED
    BY <1>1, <1>4, <2>1 DEF DunSnapshot, GraceInv, Lapsed, TodoLapsed
<1>5. ASSUME NEW o \in Org, DunDowngradeOrg(o)
      PROVE  GraceInv'
  BY <1>1, <1>3, <1>5, DunMoves DEF DunDowngradeOrg, GraceInv, Lapsed
<1>6. CASE DunCancelSub
  <2>1. /\ \A i \in Rows(dun.cur) : sub'[i].st = "canceled"
        /\ \A i \in SubId \ Rows(dun.cur) : sub'[i] = sub[i]
    BY <1>6, CancelWrites DEF DunCancelSub
  <2>2. dun'.todo = dun.todo
    BY <1>6, DunReturns DEF DunCancelSub
  <2> QED
    BY <1>1, <2>1, <2>2 DEF GraceInv, Lapsed, TodoLapsed
<1>7. CASE DunDone
  BY <1>1, <1>7 DEF DunDone, IdleDun, GraceInv, Lapsed, TodoLapsed
<1>8. CASE DunFails
  <2>1. sub' = sub
    BY <1>8 DEF DunFails
  <2>2. CASE \E o \in Org : dun.todo[o] > 0 /\ DunNext(o, "loop", NoOrg)
    BY <1>1, <1>3, <2>1, <2>2, DunMoves DEF GraceInv, Lapsed
  <2>3. CASE dun' = [dun EXCEPT !.pc = "loop", !.cur = NoOrg]
    BY <1>1, <2>1, <2>3, DunReturns DEF GraceInv, Lapsed, TodoLapsed
  <2> QED
    BY <1>8, <2>2, <2>3 DEF DunFails
<1> QED
  BY <1>4, <1>5, <1>6, <1>7, <1>8 DEF Dunning

LEMMA GraceStep ==
  ASSUME TypeOK, GraceInv, [Next]_vars
  PROVE  GraceInv'
<1>1. ASSUME UNCHANGED <<sub, lapsed, dun>>
      PROVE  GraceInv'
  BY <1>1 DEF GraceInv, Lapsed, TodoLapsed
<1>2. ASSUME NEW o \in Org, StripeStep(o) PROVE GraceInv'
  BY <1>1, <1>2, Emits DEF Emit, ghosts
<1>3. ASSUME NEW o \in Org, NEW p \in Plan, SetPlan(o, p) PROVE GraceInv'
  <2>1. lapsed' = lapsed /\ dun' = dun
    BY <1>3 DEF SetPlan
  <2>2. CASE ActivateRows(o, p, FALSE)
    <3>1. /\ \A i \in Rows(o) : sub'[i].st = "active"
          /\ \A i \in SubId \ Rows(o) : sub'[i] = sub[i]
      BY <2>2, ActivateWrites
    <3> QED
      BY <2>1, <3>1 DEF GraceInv, Lapsed, TodoLapsed
  <2>3. CASE InsertRow(o, p, FALSE)
    <3>1. Inserted(o, p)
      BY <2>3, InsertWrites
    <3> QED
      BY <2>1, <3>1 DEF GraceInv, Lapsed, TodoLapsed, Inserted
  <2> QED
    BY <1>3, <2>2, <2>3 DEF SetPlan
<1>4. ASSUME NEW o \in Org, NEW p \in Plan, AdminSetOrgPlan(o, p)
      PROVE  GraceInv'
  BY <1>1, <1>4 DEF AdminSetOrgPlan
<1>5. ASSUME NEW o \in Org, GraceElapses(o) PROVE GraceInv'
  <2>1. \A i \in SubId : \/ sub'[i] = sub[i]
                         \/ /\ i \in Rows(o) /\ sub[i].grace = "pending"
                            /\ sub'[i].st = sub[i].st
    BY <1>5, GraceWrites
  <2>2. \A i \in SubId : sub'[i].org = sub[i].org
    BY <1>5, GraceWrites DEF StatusWrites
  <2>3. /\ dun' = dun /\ lapsed \subseteq lapsed'
        /\ \A i \in Rows(o) :
             sub[i].grace = "pending" /\ sub[i].st = "past_due" => o \in lapsed'
    BY <1>5 DEF GraceElapses
  <2>4. \A i \in Rows(o) : sub[i].org = o
    BY DEF Rows
  <2> QED
    BY <2>1, <2>2, <2>3, <2>4 DEF GraceInv, Lapsed, TodoLapsed
<1>6. ASSUME NEW h \in Hook, \/ \E e \in net : Deliver(h, e)
                             \/ StatementFails(h) \/ RequestCut(h)
      PROVE  GraceInv'
  BY <1>1, <1>6 DEF Deliver, StatementFails, RequestCut, ghosts
<1>7. CASE Crash
  BY <1>7 DEF Crash, IdleDun, GraceInv, Lapsed, TodoLapsed
<1>8. CASE UNCHANGED vars
  BY <1>1, <1>8 DEF vars, ghosts
<1> QED
  BY <1>2, <1>3, <1>4, <1>5, <1>6, <1>7, <1>8, HookGrace, DunGrace
     DEF Next, StripeStep, Dunning

Cause(o) == \/ SetPlan(o, "free") \/ AdminSetOrgPlan(o, "free")
            \/ o \in ended \/ o \in lapsed

LEMMA CauseStep ==
  ASSUME TypeOK, DeliveryInv, GraceInv, Next, NEW o \in Org,
         plan[o] # "free", plan'[o] = "free"
  PROVE  Cause(o)
<1>1. ASSUME NEW q \in Org, NEW p \in Plan, SetOrgPlan(q, p)
      PROVE  q = o /\ p = "free"
  BY <1>1 DEF SetOrgPlan, TypeOK
<1>2. plan' # plan
  OBVIOUS
<1>3. ASSUME NEW q \in Org, StripeStep(q) PROVE FALSE
  BY <1>2, <1>3, Emits DEF Emit
<1>4. ASSUME NEW q \in Org, NEW p \in Plan,
             SetPlan(q, p) \/ AdminSetOrgPlan(q, p)
      PROVE  Cause(o)
  <2>1. q = o /\ p = "free"
    BY <1>1, <1>4 DEF SetPlan, AdminSetOrgPlan
  <2> QED
    BY <1>4, <2>1 DEF Cause
<1>5. ASSUME NEW q \in Org, DunDowngradeOrg(q) PROVE Cause(o)
  <2>1. q = o /\ dun.todo[q] > 0
    BY <1>1, <1>5, BillingAssumption DEF DunDowngradeOrg
  <2> QED
    BY <2>1 DEF GraceInv, TodoLapsed, Cause
<1>6. ASSUME NEW h \in Hook, HookStep(h) PROVE Cause(o)
  <2>1. CASE CheckoutOrg(h)
    <3>1. hook[h].ev \in net /\ hook[h].ev.k = "checkout"
      BY <2>1 DEF CheckoutOrg, DeliveryInv, RequestsServe, Serves
    <3>2. hook[h].ev.plan # "free"
      BY <3>1 DEF DeliveryInv, EventsTrue
    <3> QED
      BY <1>1, <2>1, <3>2, EventFields DEF CheckoutOrg
  <2>2. CASE DeletedOrg(h)
    <3>1. hook[h].ev \in net /\ hook[h].ev.k = "deleted"
      BY <2>2 DEF DeletedOrg, DeliveryInv, RequestsServe, Serves
    <3>2. hook[h].ev.org \in ended
      BY <3>1 DEF DeliveryInv, EventsTrue
    <3> QED
      BY <1>1, <2>2, <3>2, EventFields, BillingAssumption DEF DeletedOrg, Cause
  <2> QED
    BY <1>2, <1>6, <2>1, <2>2
       DEF HookStep, CheckoutSub, CheckoutInsert, PaymentFailed,
           PaymentSucceeded, CreateInvoice, DeletedSub, Ack
<1>7. ASSUME \/ \E q \in Org : GraceElapses(q)
             \/ \E h \in Hook : \/ \E e \in net : Deliver(h, e)
                                \/ StatementFails(h) \/ RequestCut(h)
             \/ DunSnapshot \/ DunCancelSub \/ DunDone \/ DunFails \/ Crash
      PROVE  FALSE
  BY <1>2, <1>7 DEF GraceElapses, Deliver, StatementFails, RequestCut,
                    DunSnapshot, DunCancelSub, DunDone, DunFails, Crash
<1> QED
  BY <1>3, <1>4, <1>5, <1>6, <1>7 DEF Next, StripeStep

\* All that was used, as one invariant of the specification.
BillingInv == TypeOK /\ DunHolds /\ DeliveryInv /\ PlansInv /\ GraceInv

THEOREM BillingInvariant == Spec => []BillingInv
<1>1. Init => BillingInv
  <2>1. Init => DunHolds /\ GraceInv
    BY DEF Init, IdleDun, DunHolds, GraceInv, Lapsed, TodoLapsed
  <2> QED
    BY <2>1, InitType, InitDelivery, InitPlans DEF BillingInv
<1>2. BillingInv /\ [Next]_vars => BillingInv'
  BY TypeStep, DeliveryStep, PlansStep, GraceStep DEF BillingInv
<1> QED
  BY <1>1, <1>2, PTL DEF Spec

\* No org falls to Free but by its own choice, by the staff's, because Stripe
\* deleted the subscription, or because it was past_due until the grace ended.
THEOREM BillingDowngradeHasCause == Spec => DowngradeHasCause
<1>1. BillingInv /\ [Next]_vars
        => [\A o \in Org :
              (plan[o] # "free" /\ plan'[o] = "free")
                => \/ SetPlan(o, "free") \/ AdminSetOrgPlan(o, "free")
                   \/ o \in ended \/ o \in lapsed]_vars
  BY CauseStep DEF BillingInv, Cause
<1> QED
  BY <1>1, BillingInvariant, PTL DEF Spec, DowngradeHasCause
=============================================================================
