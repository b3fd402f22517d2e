-------------------------------- MODULE Pool --------------------------------
(***************************************************************************)
(* The workers tab of the configuration page (config/page.tsx): the shared *)
(* pool and the pinned workers, with the handlers pool, pinnedWorkers,     *)
(* pinnedWorkersBulk and pinnedWorkerByID (httpapi/api.go, db/db.go).      *)
(*                                                                         *)
(* The page works on copies: it shows what the last poll brought, changes  *)
(* the copy at once and sends the WHOLE object to the server.  Another     *)
(* administrator does the same elsewhere (config, interventions and live   *)
(* pages), which is an environment here.                                   *)
(***************************************************************************)
EXTENDS Naturals, FiniteSets

CONSTANTS
  Field,      \* the settings of the pool: paused, auto_merge, mode, ...
  Pinned,     \* bound: ids of pinned workers
  PinLimit,   \* pinned workers the page lets one create (8)
  PoolReq,    \* POST and DELETE requests of the page under way at once
  PoolGet,    \* GET requests of one list under way at once
  MaxClicks   \* bound: changes asked for, here or elsewhere

ASSUME ClicksAssumption == MaxClicks \in Nat

VARIABLES
  cfg,        \* the pool_config row
  pool,       \* the copy on the page
  poolGets,
  pinned,     \* rows of table pinned_worker
  pinShown,   \* the copy on the page
  pinGets,
  pinForm,    \* the dialog of a pinned worker
  poolReq,
  clicks

poolVars == <<cfg, pool, poolGets, pinned, pinShown, pinGets, pinForm,
              poolReq, clicks>>

\* two values of a setting are enough to tell old from new; "blank" is what the
\* server stores for a setting the page left out (0, false)
Value == {0, 1}
Blank == 2
Settings == [Field -> Value \cup {Blank}]
Unloaded == [f \in {} |-> Blank]   \* null: no answer yet
\* {}, which safeJson makes of an answer that is not JSON
EmptyPool == [f \in Field |-> Blank]

Absent == [on |-> FALSE, rules |-> "absent"]
Worker == [on : BOOLEAN, rules : {"old", "new"}]

\* id 0: a new worker
FormClosed == [open |-> FALSE, id |-> 0, on |-> TRUE, rules |-> "old",
               busy |-> FALSE]
NoPoolReq == [what |-> "none", id |-> 0, body |-> Unloaded, st |-> "free"]

Listed == {<<i, pinned[i]>> : i \in {j \in Pinned : pinned[j] # Absent}}

PinPoll == INSTANCE UsePoll WITH Get <- PoolGet, server <- Listed,
                                 data <- pinShown, gets <- pinGets

PoolTypeOK ==
  /\ cfg \in Settings
  /\ pool \in Settings \cup {Unloaded}
  /\ pinned \in [Pinned -> Worker \cup {Absent}]
  /\ pinShown \subseteq Pinned \X Worker
  /\ pinForm \in [open : BOOLEAN, id : Pinned \cup {0}, on : BOOLEAN,
                  rules : {"old", "new"}, busy : BOOLEAN]
  /\ \A k \in PoolReq :
       poolReq[k].what \in {"none", "pool", "save", "toggle", "delete", "bulk"}
  /\ clicks \in 0..MaxClicks

PoolInit ==
  /\ cfg \in [Field -> Value]
  /\ pool = Unloaded
  /\ poolGets = [g \in PoolGet |-> {}]
  /\ pinned \in [Pinned -> {Absent, [on |-> TRUE, rules |-> "old"]}]
  /\ PinPoll!PollInit({})
  /\ pinForm = FormClosed
  /\ poolReq = [k \in PoolReq |-> NoPoolReq]
  /\ clicks = 0

----------------------------------------------------------------------------
(* The page: the pool.                                                     *)

\* loadPool, at once and every five seconds
LoadPool(g) ==
  /\ poolGets[g] = {}
  /\ poolGets' = [poolGets EXCEPT ![g] = {cfg}]
  /\ UNCHANGED <<cfg, pool, pinned, pinShown, pinGets, pinForm, poolReq, clicks>>

\* an answer that is not JSON: safeJson makes {} of it, which has no `error'
\* and replaces the copy
LoadPoolBlank(g) ==
  /\ poolGets[g] = {}
  /\ poolGets' = [poolGets EXCEPT ![g] = {EmptyPool}]
  /\ UNCHANGED <<cfg, pool, pinned, pinShown, pinGets, pinForm, poolReq, clicks>>

ReceivePool(g) ==
  /\ poolGets[g] # {}
  /\ pool' \in poolGets[g]
  /\ poolGets' = [poolGets EXCEPT ![g] = {}]
  /\ UNCHANGED <<cfg, pinned, pinShown, pinGets, pinForm, poolReq, clicks>>

PoolSend(k, what, i, body) ==
  /\ poolReq[k] = NoPoolReq
  /\ \A j \in PoolReq : j < k => poolReq[j] # NoPoolReq
  /\ poolReq' = [poolReq EXCEPT ![k] = [what |-> what, id |-> i,
                                        body |-> body, st |-> "sent"]]

\* a change asked for by somebody
Click == clicks < MaxClicks /\ clicks' = clicks + 1

\* savePool: the copy first, then the server, whose answer is not looked at.
\* Before the first answer there is nothing to change (if (!pool) return)
SavePool(f, v, k) ==
  /\ pool # Unloaded
  /\ Click
  /\ pool' = [pool EXCEPT ![f] = v]
  /\ PoolSend(k, "pool", 0, [pool EXCEPT ![f] = v])
  /\ UNCHANGED <<cfg, poolGets, pinned, pinShown, pinGets, pinForm>>

----------------------------------------------------------------------------
(* The page: pinned workers.                                               *)

OpenPwCreate ==
  /\ ~pinForm.open /\ Cardinality(pinShown) < PinLimit
  /\ pinForm' = [FormClosed EXCEPT !.open = TRUE, !.busy = pinForm.busy]
  /\ UNCHANGED <<cfg, pool, poolGets, pinned, pinShown, pinGets, poolReq, clicks>>

\* the form starts from the copy
OpenPwEdit(x) ==
  /\ ~pinForm.open /\ x \in pinShown
  /\ pinForm' = [pinForm EXCEPT !.open = TRUE, !.id = x[1], !.on = x[2].on,
                                !.rules = x[2].rules]
  /\ UNCHANGED <<cfg, pool, poolGets, pinned, pinShown, pinGets, poolReq, clicks>>

EditRules ==
  /\ pinForm.open /\ pinForm.rules = "old"
  /\ pinForm' = [pinForm EXCEPT !.rules = "new"]
  /\ UNCHANGED <<cfg, pool, poolGets, pinned, pinShown, pinGets, poolReq, clicks>>

\* pwBusy outlives the dialog
ClosePw ==
  /\ pinForm.open
  /\ pinForm' = [FormClosed EXCEPT !.busy = pinForm.busy]
  /\ UNCHANGED <<cfg, pool, poolGets, pinned, pinShown, pinGets, poolReq, clicks>>

SavePw(k) ==
  /\ pinForm.open /\ ~pinForm.busy
  /\ Click
  /\ pinForm' = [pinForm EXCEPT !.busy = TRUE]
  /\ PoolSend(k, "save", pinForm.id,
              [on |-> pinForm.on, rules |-> pinForm.rules])
  /\ UNCHANGED <<cfg, pool, poolGets, pinned, pinShown, pinGets>>

\* a card of the list: on/off with everything else as the copy has it, or gone
TogglePinned(x, k) ==
  /\ ~pinForm.open /\ x \in pinShown
  /\ Click
  /\ PoolSend(k, "toggle", x[1], [x[2] EXCEPT !.on = ~@])
  /\ UNCHANGED <<cfg, pool, poolGets, pinned, pinShown, pinGets, pinForm>>

DelPinned(x, k) ==
  /\ ~pinForm.open /\ x \in pinShown
  /\ Click
  /\ PoolSend(k, "delete", x[1], Unloaded)
  /\ UNCHANGED <<cfg, pool, poolGets, pinned, pinShown, pinGets, pinForm>>

\* all on becomes all off, anything else all on
ToggleAllPinned(k) ==
  /\ ~pinForm.open /\ pinShown # {}
  /\ Click
  /\ PoolSend(k, "bulk", 0, [on |-> \E x \in pinShown : ~x[2].on])
  /\ UNCHANGED <<cfg, pool, poolGets, pinned, pinShown, pinGets, pinForm>>

\* savePw closes the dialog on every answer, a refusal too, whichever worker it
\* shows by now; the other calls only ask for the list again
ReceivePinned(k) ==
  /\ poolReq[k].st \in {"answered", "lost"}
  /\ poolReq' = [poolReq EXCEPT ![k] = NoPoolReq]
  /\ pinForm' = IF poolReq[k].what # "save" THEN pinForm
                ELSE IF poolReq[k].st = "answered" THEN FormClosed
                ELSE [pinForm EXCEPT !.busy = FALSE]
  /\ UNCHANGED <<cfg, pool, poolGets, pinned, pinShown, pinGets, clicks>>

----------------------------------------------------------------------------
(* The cerebro.                                                            *)

PoolReply(k, st) ==
  poolReq' = [poolReq EXCEPT ![k] = [NoPoolReq EXCEPT
                !.what = poolReq[k].what, !.st = st]]

\* UpdatePoolConfig writes every column
UpdatePoolConfig(k) ==
  /\ poolReq[k].what = "pool" /\ poolReq[k].st = "sent"
  /\ cfg' = poolReq[k].body
  /\ PoolReply(k, "answered")
  /\ UNCHANGED <<pool, poolGets, pinned, pinShown, pinGets, pinForm, clicks>>

\* CreatePinnedWorker counts nothing: the limit is the page's alone
CreatePinnedWorker(k) ==
  /\ poolReq[k].what = "save" /\ poolReq[k].id = 0 /\ poolReq[k].st = "sent"
  /\ \E i \in Pinned :
       /\ pinned[i] = Absent
       /\ \A j \in Pinned : j < i => pinned[j] # Absent
       /\ pinned' = [pinned EXCEPT ![i] = poolReq[k].body]
  /\ PoolReply(k, "answered")
  /\ UNCHANGED <<cfg, pool, poolGets, pinShown, pinGets, pinForm, clicks>>

\* UpdatePinnedWorker: a worker that is gone is an error, which reads alike
UpdatePinnedWorker(k) ==
  LET r == poolReq[k] IN
  /\ r.what \in {"save", "toggle"} /\ r.id # 0 /\ r.st = "sent"
  /\ pinned' = IF pinned[r.id] = Absent THEN pinned
               ELSE [pinned EXCEPT ![r.id] = r.body]
  /\ PoolReply(k, "answered")
  /\ UNCHANGED <<cfg, pool, poolGets, pinShown, pinGets, pinForm, clicks>>

SetAllPinnedEnabled(k) ==
  /\ poolReq[k].what = "bulk" /\ poolReq[k].st = "sent"
  /\ pinned' = [i \in Pinned |->
                  IF pinned[i] = Absent THEN Absent
                  ELSE [pinned[i] EXCEPT !.on = poolReq[k].body.on]]
  /\ PoolReply(k, "answered")
  /\ UNCHANGED <<cfg, pool, poolGets, pinShown, pinGets, pinForm, clicks>>

DeletePinnedWorker(k) ==
  /\ poolReq[k].what = "delete" /\ poolReq[k].st = "sent"
  /\ pinned' = [pinned EXCEPT ![poolReq[k].id] = Absent]
  /\ PoolReply(k, "answered")
  /\ UNCHANGED <<cfg, pool, poolGets, pinShown, pinGets, pinForm, clicks>>

\* refused (no role for it, rate limit, database) or lost on either way
RejectPool(k) ==
  /\ poolReq[k].st = "sent"
  /\ PoolReply(k, "answered")
  /\ UNCHANGED <<cfg, pool, poolGets, pinned, pinShown, pinGets, pinForm, clicks>>

LosePool(k) ==
  /\ poolReq[k].st \in {"sent", "answered"}
  /\ PoolReply(k, "lost")
  /\ UNCHANGED <<cfg, pool, poolGets, pinned, pinShown, pinGets, pinForm, clicks>>

\* another page, or another administrator
OtherSavesPool(f, v) ==
  /\ Click
  /\ cfg' = [cfg EXCEPT ![f] = v]
  /\ UNCHANGED <<pool, poolGets, pinned, pinShown, pinGets, pinForm, poolReq>>

OtherDeletesPinned(i) ==
  /\ Click
  /\ pinned[i] # Absent
  /\ pinned' = [pinned EXCEPT ![i] = Absent]
  /\ UNCHANGED <<cfg, pool, poolGets, pinShown, pinGets, pinForm, poolReq>>

----------------------------------------------------------------------------
PoolUser ==
  \/ \E k \in PoolReq :
       \/ \E f \in Field, v \in Value : SavePool(f, v, k)
       \/ SavePw(k) \/ ToggleAllPinned(k)
       \/ \E x \in pinShown : TogglePinned(x, k) \/ DelPinned(x, k)
  \/ OpenPwCreate \/ EditRules \/ ClosePw
  \/ \E x \in pinShown : OpenPwEdit(x)
  \/ \E f \in Field, v \in Value : OtherSavesPool(f, v)
  \/ \E i \in Pinned : OtherDeletesPinned(i)

PoolServe(k) ==
  \/ UpdatePoolConfig(k) \/ CreatePinnedWorker(k) \/ UpdatePinnedWorker(k)
  \/ SetAllPinnedEnabled(k) \/ DeletePinnedWorker(k)
  \/ RejectPool(k) \/ LosePool(k)

PoolPolls(g) == LoadPool(g) \/ LoadPoolBlank(g) \/ ReceivePool(g)

PoolStays == UNCHANGED <<cfg, pool, poolGets, pinned, pinForm, poolReq, clicks>>

PoolNext ==
  \/ PoolUser
  \/ \E k \in PoolReq : ReceivePinned(k) \/ PoolServe(k)
  \/ \E g \in PoolGet : PoolPolls(g)
  \/ PinPoll!Poll /\ PoolStays

----------------------------------------------------------------------------
(* Properties.                                                             *)

\* Once nobody changes anything any more, the list of pinned workers becomes
\* what the server has and stays so, whatever polls miss or overtake each
\* other ("keeps the last good value", usePoll); the pool, which loadPool
\* replaces by whatever arrives, is right again and again.
PoolConverges ==
  /\ <>[](pinShown = Listed)
  /\ []<>(pool = cfg)

\* An inert "Save" of the dialog of a pinned worker has its request under way
\* (pwBusy outlives the dialog).
PwBusyIsReal == pinForm.busy => \E k \in PoolReq : poolReq[k].what = "save"
=============================================================================
