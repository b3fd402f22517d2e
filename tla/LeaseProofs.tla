----------------------------- MODULE LeaseProofs -----------------------------
(***************************************************************************)
(* Proofs about Lease, for every set of orgs, devices, streams and slots   *)
(* and every plan catalogue.                                               *)
(***************************************************************************)
EXTENDS Lease, FiniteSetTheorems, TLAPS

-----------------------------------------------------------------------------
(* Type correctness. *)

LEMMA InitType == Init => TypeOK
<1> SUFFICES ASSUME Init PROVE TypeOK
  OBVIOUS
<1>1. lease \in [Slot -> LeaseRow]
  BY ConstAssumption DEF Init, NoLease, LeaseRow
<1>2. grant \in [Conn -> GrantState] /\ reaper \in ReaperState
  BY ConstAssumption
  DEF Init, IdleGrant, GrantState, GrantPc, IdleReaper, ReaperState, ReaperPc
<1> QED
  BY <1>1, <1>2, ConstAssumption DEF Init, TypeOK

LEMMA StreamType ==
  ASSUME TypeOK, NEW c \in Conn, OpenStream(c) \/ CloseStream(c)
  PROVE  TypeOK'
<1>0. Requests \in Nat /\ "free" \in Plan
  BY ConstAssumption
<1>1. CASE OpenStream(c)
  <2>1. conn' \in [Conn -> [open : BOOLEAN, reqs : 0..Requests]]
    BY <1>0, <1>1 DEF TypeOK, OpenStream
  <2> QED
    BY <1>1, <2>1 DEF TypeOK, OpenStream, envVars, dbVars, failVars
<1>2. CASE CloseStream(c)
  <2>1. conn' \in [Conn -> [open : BOOLEAN, reqs : 0..Requests]]
    BY <1>0, <1>2 DEF TypeOK, CloseStream
  <2>2. grant' \in [Conn -> GrantState]
    BY <1>0, <1>2 DEF TypeOK, CloseStream, IdleGrant, GrantState, GrantPc
  <2> QED
    BY <1>2, <2>1, <2>2 DEF TypeOK, CloseStream, envVars, dbVars, failVars
<1> QED
  BY <1>1, <1>2

LEMMA FailsType ==
  ASSUME TypeOK, Fails, crashes' = crashes
  PROVE  crashes' \in Nat /\ errs' \in Nat /\ crashes' + errs' <= MaxFaults
BY ConstAssumption DEF TypeOK, Fails

LEMMA ConnOrgType == \A c \in Conn : DevOf[c] \in Device /\ ConnOrg(c) \in Org
BY ConstAssumption DEF ConnOrg

\* The cap a grant reads is -1 (no limit) or a number of workers, and with a
\* catalogue of limited plans it is at most the largest of them.
LEMMA CapType ==
  ASSUME TypeOK, NEW o \in Org
  PROVE  /\ EffectiveCap(o) \in Nat \cup {-1}
         /\ EffectiveCap(o) <= TopCap \/ EffectiveCap(o) = pool[o].conc
         /\ AllPlansLimited => EffectiveCap(o) \in 0..TopCap
         /\ MaxWorkers[plan[o]] \in Nat \cup {-1}
         /\ AllPlansLimited => MaxWorkers[plan[o]] \in 0..TopCap
<1>1. /\ MaxWorkers[plan[o]] \in Nat \cup {-1}
      /\ MaxWorkers[plan[o]] <= TopCap
      /\ AllPlansLimited => MaxWorkers[plan[o]] # -1
      /\ TopCap \in Nat
  BY ConstAssumption DEF TypeOK, AllPlansLimited
<1>2. pool[o].conc \in Nat
  BY ConstAssumption DEF TypeOK, PoolCfg
<1> QED
  BY <1>1, <1>2 DEF EffectiveCap

LEMMA GrantType ==
  ASSUME TypeOK, NEW c \in Conn, GrantStep(c)
  PROVE  TypeOK'
<1>0. Requests \in Nat /\ "free" \in Plan /\ TtlPlan \subseteq Plan
  BY ConstAssumption
<1>1. ConnOrg(c) \in Org /\ DevOf[c] \in Device
  BY ConnOrgType
<1>2. grant[c] \in GrantState
  BY DEF TypeOK
<1>a. \A cap \in Nat \cup {-1} : Begun(c, cap) \in GrantState
  BY <1>1 DEF Begun, GrantState, GrantPc, TypeOK
<1>b. IdleGrant \in GrantState
  BY <1>0 DEF IdleGrant, GrantState, GrantPc
<1>3. CASE GrantBegin(c)
  <2>1. EffectiveCap(ConnOrg(c)) \in Nat \cup {-1}
    BY <1>1, CapType
  <2>3. conn' \in [Conn -> [open : BOOLEAN, reqs : 0..Requests]]
    BY <1>0, <1>3 DEF TypeOK, GrantBegin
  <2>4. grant' \in [Conn -> GrantState]
    BY <1>3, <1>a, <2>1 DEF TypeOK, GrantBegin
  <2> QED
    BY <1>3, <2>3, <2>4 DEF TypeOK, GrantBegin, envVars, dbVars, failVars
<1>8. CASE GrantMisread(c)
  <2>1. /\ EffectiveCap(ConnOrg(c)) \in Nat \cup {-1}
        /\ MaxWorkers[plan[ConnOrg(c)]] \in Nat \cup {-1}
    BY <1>1, CapType
  <2>3. conn' \in [Conn -> [open : BOOLEAN, reqs : 0..Requests]]
    BY <1>0, <1>8 DEF TypeOK, GrantMisread
  <2>4. grant' \in [Conn -> GrantState]
    BY <1>8, <1>a, <2>1 DEF TypeOK, GrantMisread
  <2>5. Fails /\ crashes' = crashes
    BY <1>8 DEF GrantMisread, envVars
  <2> QED
    BY <1>8, <2>3, <2>4, <2>5, FailsType DEF TypeOK, GrantMisread, envVars, dbVars
<1>4. CASE GrantCount(c)
  <2>1. grant' \in [Conn -> GrantState]
    BY <1>b, <1>2, <1>4 DEF TypeOK, GrantCount, GrantState, GrantPc
  <2> QED
    BY <1>4, <2>1 DEF TypeOK, GrantCount, envVars, dbVars, failVars
<1>9. CASE GrantCountMisread(c)
  <2>1. PICK n \in {0, ActiveLeaseCount(c)} :
          grant' = [grant EXCEPT ![c] =
                      IF AtCap(c, n) THEN IdleGrant
                      ELSE [@ EXCEPT !.pc = "worker",
                        !.count = IF n = ActiveLeaseCount(c) THEN "read" ELSE "unread"]]
    BY <1>9 DEF GrantCountMisread
  <2>2. grant' \in [Conn -> GrantState]
    BY <1>b, <1>2, <2>1 DEF TypeOK, GrantState, GrantPc
  <2>3. Fails /\ crashes' = crashes
    BY <1>9 DEF GrantCountMisread, envVars
  <2> QED
    BY <1>9, <2>2, <2>3, FailsType DEF TypeOK, GrantCountMisread, envVars, dbVars
<1>10. CASE GrantFails(c)
  <2>1. grant' \in [Conn -> GrantState]
    BY <1>b, <1>10 DEF TypeOK, GrantFails
  <2>2. Fails /\ crashes' = crashes
    BY <1>10 DEF GrantFails, envVars
  <2> QED
    BY <1>10, <2>1, <2>2, FailsType DEF TypeOK, GrantFails, envVars, dbVars
<1>5. CASE InsertWorker(c)
  <2>1. PICK s \in Slot :
          /\ worker' = [worker EXCEPT ![s] = "running"]
          /\ grant' = [grant EXCEPT ![c] =
                         [@ EXCEPT !.pc = "lease", !.slot = s]]
    BY <1>5 DEF InsertWorker
  <2>2. grant' \in [Conn -> GrantState]
    BY <1>2, <2>1 DEF TypeOK, GrantState, GrantPc
  <2>3. worker' \in [Slot -> {"none", "running", "paused", "stopped"}]
    BY <2>1 DEF TypeOK
  <2> QED
    BY <1>5, <2>2, <2>3 DEF TypeOK, InsertWorker, envVars, failVars
<1>6. CASE InsertLease(c)
  <2>1. grant' \in [Conn -> GrantState]
    <3>1. \A g \in GrantState : /\ [g EXCEPT !.pc = "usage"] \in GrantState
                                /\ [g EXCEPT !.count = "raced"] \in GrantState
      BY DEF GrantState, GrantPc
    <3>2. \A d \in Conn : grant[d] \in GrantState
      BY DEF TypeOK
    <3> QED
      BY <1>6, <3>1, <3>2 DEF InsertLease
  <2>3. uncounted' \subseteq Slot \cup {NoSlot}
    BY <1>2, <1>6 DEF InsertLease, TypeOK, GrantState
  <2>2. lease' \in [Slot -> LeaseRow]
    <3> DEFINE row == [st |-> "active", org |-> ConnOrg(c),
                  renew |-> grant[c].plan # "free",
                  exp |-> IF grant[c].plan \in TtlPlan THEN "pending"
                                                       ELSE "never",
                  why |-> "none"]
    <3>1. row \in LeaseRow
      BY <1>1 DEF LeaseRow
    <3>2. lease' = [lease EXCEPT ![grant[c].slot] = row]
      BY <1>6 DEF InsertLease
    <3> HIDE DEF row
    <3> QED
      BY <3>1, <3>2 DEF TypeOK
  <2> QED
    BY <1>6, <2>1, <2>2, <2>3 DEF TypeOK, InsertLease, envVars
<1>7. CASE RecordIssued(c)
  <2>1. grant' \in [Conn -> GrantState]
    BY <1>0, <1>7 DEF TypeOK, RecordIssued, IdleGrant, GrantState, GrantPc
  <2>2. ledger' \in [Slot -> [issued : Nat, ended : Nat]]
    <3>1. \A s \in Slot : ledger[s] \in [issued : Nat, ended : Nat]
      BY DEF TypeOK
    <3>2. \A s \in Slot : [issued |-> ledger[s].issued + 1,
                           ended |-> ledger[s].ended]
                             \in [issued : Nat, ended : Nat]
      BY <3>1
    <3> QED
      BY <1>7, <3>2 DEF TypeOK, RecordIssued
  <2> QED
    BY <1>7, <2>1, <2>2 DEF TypeOK, RecordIssued, envVars, failVars
<1> QED
  BY <1>3, <1>4, <1>5, <1>6, <1>7, <1>8, <1>9, <1>10 DEF GrantStep

LEMMA ReasonType ==
  ASSUME NEW s, NEW unread
  PROVE  ReasonBut(s, unread) \in Reason \cup {"none"}
BY DEF ReasonBut, Reason

LEMMA JudgesType ==
  ASSUME TypeOK, NEW r \in Reason \cup {"none"}, Judges(r)
  PROVE  reaper' \in ReaperState
BY DEF Judges, TypeOK, ReaperState, ReaperPc

LEMMA RenewType ==
  ASSUME TypeOK, NEW s \in Slot \cup {NoSlot}, NEW r
  PROVE  RenewedIf(s, r) \in [Slot -> LeaseRow]
<1>1. RenewedIf(s, r) = lease
      \/ RenewedIf(s, r) = [lease EXCEPT ![s] = Renewed(lease[s])]
  BY DEF RenewedIf
<1>2. \A l \in LeaseRow : Renewed(l) \in LeaseRow
  BY DEF Renewed, LeaseRow
<1>3. s \in Slot => lease[s] \in LeaseRow
  BY DEF TypeOK
<1> QED
  BY <1>1, <1>2, <1>3 DEF TypeOK

\* The steps of the reaper between the look-ups of a pass.
LEMMA PassType ==
  ASSUME TypeOK,
         \/ ReapSnapshot \/ (\E s \in Slot : ReapTake(s) \/ ReapTakeUncharged(s))
         \/ ReapCheck \/ ReapCheckMisread \/ ReapDone
  PROVE  TypeOK'
<1> USE DEF ReaperVarsOnly, envVars, dbVars
<1>0. MaxTicks \in Nat
  BY ConstAssumption
<1>1. CASE ReapSnapshot
  <2>1. reaper' \in ReaperState
    BY <1>1 DEF TypeOK, ReapSnapshot, ActiveSlots, ReaperState, ReaperPc
  <2> QED
    BY <1>1, <2>1 DEF TypeOK, ReapSnapshot
<1>2. ASSUME NEW s \in Slot, TakesNext(s) PROVE reaper' \in ReaperState
  BY <1>2 DEF TypeOK, TakesNext, ReaperState, ReaperPc
<1>3. ASSUME NEW s \in Slot, ReapTake(s) PROVE TypeOK'
  <2>1. used' \in [Org -> 0..MaxTicks]
    <3>1. \A o \in Org : used[o] \in 0..MaxTicks
      BY DEF TypeOK
    <3>2. \A o \in Org :
            (IF used[o] < MaxTicks THEN used[o] + 1 ELSE used[o])
              \in 0..MaxTicks
      BY <1>0, <3>1
    <3> QED
      BY <1>3, <3>2 DEF TypeOK, ReapTake
  <2> QED
    BY <1>2, <1>3, <2>1 DEF TypeOK, ReapTake, TakesNext
<1>4. ASSUME NEW s \in Slot, ReapTakeUncharged(s) PROVE TypeOK'
  <2>1. Fails /\ crashes' = crashes
    BY <1>4 DEF ReapTakeUncharged, TakesNext
  <2> QED
    BY <1>2, <1>4, <2>1, FailsType DEF TypeOK, ReapTakeUncharged, TakesNext
<1>5. reaper.cur \in Slot \cup {NoSlot}
  BY DEF TypeOK, ReaperState
<1>6. CASE ReapCheck
  <2>1. reaper' \in ReaperState
    BY <1>6, ReasonType, JudgesType DEF ReapCheck, RevokeReason
  <2>2. lease' \in [Slot -> LeaseRow]
    BY <1>5, <1>6, RenewType DEF ReapCheck
  <2> QED
    BY <1>6, <2>1, <2>2 DEF TypeOK, ReapCheck
<1>7. CASE ReapCheckMisread
  <2>1. PICK unread \in SUBSET {"killed", "hours_cap"} :
          /\ Judges(ReasonBut(reaper.cur, unread))
          /\ lease' \in {lease, RenewedIf(reaper.cur,
                                          ReasonBut(reaper.cur, unread))}
    BY <1>7 DEF ReapCheckMisread
  <2>2. reaper' \in ReaperState
    BY <2>1, ReasonType, JudgesType
  <2>5. lease \in [Slot -> LeaseRow]
    BY DEF TypeOK
  <2>3. lease' \in [Slot -> LeaseRow]
    BY <1>5, <2>1, <2>5, RenewType
  <2>4. Fails /\ crashes' = crashes
    BY <1>7 DEF ReapCheckMisread
  <2> QED
    BY <1>7, <2>2, <2>3, <2>4, FailsType DEF TypeOK, ReapCheckMisread
<1>8. CASE ReapDone
  <2>1. reaper' \in ReaperState
    BY <1>8 DEF ReapDone, IdleReaper, ReaperState, ReaperPc
  <2> QED
    BY <1>8, <2>1 DEF TypeOK, ReapDone
<1> QED
  BY <1>1, <1>3, <1>4, <1>6, <1>7, <1>8

LEMMA RevokeType ==
  ASSUME TypeOK,
         EndLease \/ ParkWorker \/ RevokeTears \/ RecordEnded \/ RecordEndedFails
  PROVE  TypeOK'
<1> USE DEF ReaperVarsOnly, envVars, dbVars
<1>1. CASE EndLease
  <2>1. reaper' \in ReaperState
    BY <1>1 DEF TypeOK, EndLease, ReaperState, ReaperPc
  <2>2. lease' \in [Slot -> LeaseRow]
    <3>1. reaper.why \in Reason \cup {"none"}
      BY DEF TypeOK, ReaperState
    <3>2. \A l \in LeaseRow : \A w \in Reason \cup {"none"} :
            [l EXCEPT !.st = "ended", !.why = w] \in LeaseRow
      BY DEF LeaseRow
    <3>3. \A l \in LeaseRow :
            [l EXCEPT !.st = "ended", !.why = reaper.why] \in LeaseRow
      BY <3>1, <3>2
    <3> QED
      BY <1>1, <3>3 DEF TypeOK, EndLease
  <2> QED
    BY <1>1, <2>1, <2>2 DEF TypeOK, EndLease
<1>2. CASE ParkWorker
  <2>1. reaper' \in ReaperState
    BY <1>2 DEF TypeOK, ParkWorker, ReaperState, ReaperPc
  <2>2. worker' \in [Slot -> {"none", "running", "paused", "stopped"}]
    BY <1>2 DEF TypeOK, ParkWorker
  <2> QED
    BY <1>2, <2>1, <2>2 DEF TypeOK, ParkWorker
<1>3. CASE RevokeTears
  <2>1. reaper' \in ReaperState /\ torn' \subseteq Slot \cup {NoSlot}
    BY <1>3 DEF TypeOK, RevokeTears, ReaperState, ReaperPc
  <2>2. Fails /\ crashes' = crashes
    BY <1>3 DEF RevokeTears
  <2> QED
    BY <1>3, <2>1, <2>2, FailsType DEF TypeOK, RevokeTears
<1>4. ASSUME NextLease PROVE reaper' \in ReaperState
  BY <1>4 DEF TypeOK, NextLease, ReaperState, ReaperPc
<1>5. CASE RecordEnded
  <2>1. ledger' \in [Slot -> [issued : Nat, ended : Nat]]
    <3>1. \A s \in Slot : ledger[s] \in [issued : Nat, ended : Nat]
      BY DEF TypeOK
    <3>2. \A s \in Slot : [issued |-> ledger[s].issued,
                           ended |-> ledger[s].ended + 1]
                             \in [issued : Nat, ended : Nat]
      BY <3>1
    <3> QED
      BY <1>5, <3>2 DEF TypeOK, RecordEnded
  <2> QED
    BY <1>4, <1>5, <2>1 DEF TypeOK, RecordEnded, NextLease
<1>6. CASE RecordEndedFails
  <2>1. Fails /\ crashes' = crashes
    BY <1>6 DEF RecordEndedFails, NextLease
  <2> QED
    BY <1>4, <1>6, <2>1, FailsType DEF TypeOK, RecordEndedFails, NextLease
<1> QED
  BY <1>1, <1>2, <1>3, <1>5, <1>6

LEMMA ReaperType ==
  ASSUME TypeOK, ReaperStep
  PROVE  TypeOK'
BY PassType, RevokeType DEF ReaperStep

LEMMA EnvironmentType ==
  ASSUME TypeOK, Environment
  PROVE  TypeOK'
<1> USE DEF envVars, dbVars, failVars
<1>0. MaxTicks \in Nat /\ Requests \in Nat /\ MaxFaults \in Nat
      /\ "free" \in Plan
  BY ConstAssumption
<1>1. CASE \E o \in Org : ChangePlan(o)
  BY <1>1 DEF TypeOK, ChangePlan
<1>2. CASE \E o \in Org : UpdatePool(o)
  BY <1>2 DEF TypeOK, UpdatePool
<1>3. CASE \E d \in Device : RevokeDevice(d)
  BY <1>3 DEF TypeOK, RevokeDevice
<1>4. CASE \E s \in Slot : TtlElapses(s)
  <2>1. PICK s \in Slot : TtlElapses(s)
    BY <1>4
  <2>2. [lease[s] EXCEPT !.exp = "past"] \in LeaseRow
    <3>1. lease[s] \in LeaseRow
      BY DEF TypeOK
    <3>2. \A l \in LeaseRow : [l EXCEPT !.exp = "past"] \in LeaseRow
      BY DEF LeaseRow
    <3> QED
      BY <3>1, <3>2
  <2>3. lease' \in [Slot -> LeaseRow]
    BY <2>1, <2>2 DEF TypeOK, TtlElapses
  <2> QED
    BY <2>1, <2>3 DEF TypeOK, TtlElapses
<1>5. CASE WeekRolls
  BY <1>0, <1>5 DEF TypeOK, WeekRolls
<1>6. CASE Crash
  <2>1. conn' \in [Conn -> [open : BOOLEAN, reqs : 0..Requests]]
    BY <1>0, <1>6 DEF Crash
  <2>2. grant' \in [Conn -> GrantState] /\ reaper' \in ReaperState
    BY <1>0, <1>6
    DEF Crash, IdleGrant, GrantState, GrantPc, IdleReaper, ReaperState, ReaperPc
  <2>3. crashes' \in Nat /\ crashes' + errs <= MaxFaults
    BY <1>0, <1>6 DEF TypeOK, Crash
  <2>4. torn' \subseteq Slot \cup {NoSlot}
    BY <1>6 DEF TypeOK, Crash, ReaperState
  <2> QED
    BY <1>6, <2>1, <2>2, <2>3, <2>4 DEF TypeOK, Crash
<1> QED
  BY <1>1, <1>2, <1>3, <1>4, <1>5, <1>6 DEF Environment

LEMMA NextType == TypeOK /\ [Next]_vars => TypeOK'
<1> SUFFICES ASSUME TypeOK, [Next]_vars PROVE TypeOK'
  OBVIOUS
<1>1. CASE UNCHANGED vars
  BY <1>1 DEF TypeOK, vars
<1>2. CASE Next
  BY <1>2, StreamType, GrantType, ReaperType, EnvironmentType DEF Next
<1> QED
  BY <1>1, <1>2

\* Every table column, handler and reaper state stays within its type.
THEOREM LeaseTypeCorrect == Spec => []TypeOK
BY InitType, NextType, PTL DEF Spec

-----------------------------------------------------------------------------
(* The inductive invariant Bookkeeping. *)

LEMMA InitRows == Init => RowsKept
BY DEF Init, RowsKept, GrantsOwnSlots, RowsAgree, ReaperHoldsLive,
       ActiveMeansRunning, EndReasonSound, LedgerClosedOnce, IdleGrant,
       IdleReaper, NoLease, ActiveSlots

\* Steps that leave the tables and the reaper alone and put no grant into the
\* middle of GrantLease.
LEMMA QuietBookkeeping ==
  ASSUME TypeOK, RowsKept,
         UNCHANGED <<worker, lease, ledger, reaper, torn>>,
         revoked \subseteq revoked',
         \A c \in Conn : grant'[c].pc \in {"lease", "usage"}
                            => grant'[c] = grant[c]
  PROVE  RowsKept'
<1>1. GrantsOwnSlots'
  BY DEF RowsKept, GrantsOwnSlots
<1>2. \A o : OrgHasRevokedDevice(o) => OrgHasRevokedDevice(o)'
  BY DEF OrgHasRevokedDevice
<1>3. RowsAgree' /\ ActiveMeansRunning' /\ LedgerClosedOnce'
  BY DEF RowsKept, RowsAgree, ActiveMeansRunning, LedgerClosedOnce
<1>4. EndReasonSound'
  BY <1>2 DEF RowsKept, EndReasonSound
<1>5. ReaperHoldsLive'
  BY <1>2 DEF RowsKept, ReaperHoldsLive, ActiveSlots
<1> QED
  BY <1>1, <1>3, <1>4, <1>5 DEF RowsKept

LEMMA InsertWorkerBookkeeping ==
  ASSUME TypeOK, RowsKept, NEW c \in Conn, InsertWorker(c)
  PROVE  RowsKept'
<1>1. PICK s \in Slot :
        /\ worker[s] = "none"
        /\ worker' = [worker EXCEPT ![s] = "running"]
        /\ grant' = [grant EXCEPT ![c] =
                       [@ EXCEPT !.pc = "lease", !.slot = s]]
  BY DEF InsertWorker
<1>2. UNCHANGED <<lease, ledger, reaper, revoked, torn>>
  BY DEF InsertWorker, envVars, failVars
<1>3. lease[s].st = "none"
  BY <1>1 DEF RowsKept, RowsAgree
<1>4. /\ grant'[c].pc = "lease" /\ grant'[c].slot = s
      /\ \A d \in Conn \ {c} : grant'[d] = grant[d]
  BY <1>1 DEF TypeOK, GrantState
<1>5. worker'[s] = "running" /\ \A t \in Slot \ {s} : worker'[t] = worker[t]
  BY <1>1 DEF TypeOK
<1>6. GrantsOwnSlots'
  <2>1. \A d \in Conn \ {c} :
          grant[d].pc \in {"lease", "usage"} => grant[d].slot # s
    BY <1>1, <1>3 DEF RowsKept, GrantsOwnSlots
  <2> QED
    BY <1>2, <1>3, <1>4, <1>5, <2>1 DEF RowsKept, GrantsOwnSlots
<1>7. RowsAgree' /\ ActiveMeansRunning' /\ LedgerClosedOnce'
  BY <1>2, <1>3, <1>5
  DEF RowsKept, RowsAgree, ActiveMeansRunning, LedgerClosedOnce
<1>8. EndReasonSound'
  BY <1>2, <1>5 DEF RowsKept, EndReasonSound, OrgHasRevokedDevice
<1>9. ReaperHoldsLive'
  BY <1>2, <1>3, <1>5
  DEF RowsKept, ReaperHoldsLive, ActiveSlots, OrgHasRevokedDevice
<1> QED
  BY <1>6, <1>7, <1>8, <1>9 DEF RowsKept

\* What InsertLease does to the handlers: c moves on, and others learn at most
\* that their counts are out of date.
LEMMA InsertLeaseGrant ==
  ASSUME TypeOK, NEW c \in Conn, InsertLease(c)
  PROVE  /\ grant'[c].pc = "usage" /\ grant'[c].slot = grant[c].slot
         /\ \A d \in Conn \ {c} :
              /\ grant'[d].pc = grant[d].pc /\ grant'[d].slot = grant[d].slot
              /\ grant'[d].capW = grant[d].capW
              /\ grant'[d].count = IF Overtakes(c, d) THEN "raced"
                                   ELSE grant[d].count
<1>1. \A d \in Conn : grant[d] \in GrantState
  BY DEF TypeOK
<1>2. \A d \in Conn :
        grant'[d] = IF d = c THEN [grant[d] EXCEPT !.pc = "usage"]
                    ELSE IF Overtakes(c, d)
                    THEN [grant[d] EXCEPT !.count = "raced"]
                    ELSE grant[d]
  BY DEF InsertLease
<1>3. grant'[c] = [grant[c] EXCEPT !.pc = "usage"]
  BY <1>2
<1>4. \A d \in Conn \ {c} :
        grant'[d] = IF Overtakes(c, d) THEN [grant[d] EXCEPT !.count = "raced"]
                    ELSE grant[d]
  BY <1>2
<1> QED
  BY <1>1, <1>3, <1>4 DEF GrantState

LEMMA InsertLeaseBookkeeping ==
  ASSUME TypeOK, RowsKept, NEW c \in Conn, InsertLease(c)
  PROVE  RowsKept'
<1> DEFINE s == grant[c].slot
<1>1. s \in Slot /\ worker[s] = "running" /\ lease[s].st = "none"
  BY DEF InsertLease, RowsKept, GrantsOwnSlots
<1>2. UNCHANGED <<worker, ledger, reaper, revoked, torn>>
  BY DEF InsertLease, envVars
<1>3. /\ lease'[s].st = "active" /\ lease'[s].why = "none"
      /\ \A t \in Slot \ {s} : lease'[t] = lease[t]
  BY <1>1 DEF TypeOK, InsertLease
<1>4. /\ grant'[c].pc = "usage" /\ grant'[c].slot = s
      /\ \A d \in Conn \ {c} : grant'[d].pc = grant[d].pc
                              /\ grant'[d].slot = grant[d].slot
  BY InsertLeaseGrant
<1>5. ledger[s].issued = 0 /\ s \notin torn /\ ledger[s].ended = 0
  BY <1>1 DEF RowsKept, RowsAgree
<1>6. GrantsOwnSlots'
  <2>1. \A d \in Conn \ {c} :
          grant[d].pc \in {"lease", "usage"} => grant[d].slot # s
    BY DEF InsertLease, RowsKept, GrantsOwnSlots
  <2>2. \A d \in Conn \ {c} :
          grant[d].pc \in {"lease", "usage"} =>
            grant[d].slot \in Slot /\ lease'[grant[d].slot] = lease[grant[d].slot]
    BY <1>3, <2>1 DEF RowsKept, GrantsOwnSlots
  <2> HIDE DEF s
  <2> QED
    BY <1>1, <1>2, <1>3, <1>4, <1>5, <2>1, <2>2 DEF RowsKept, GrantsOwnSlots
<1> HIDE DEF s
<1>7. RowsAgree' /\ ActiveMeansRunning' /\ LedgerClosedOnce'
  BY <1>1, <1>2, <1>3, <1>5
  DEF RowsKept, RowsAgree, ActiveMeansRunning, LedgerClosedOnce
<1>8. EndReasonSound'
  BY <1>1, <1>2, <1>3 DEF RowsKept, EndReasonSound, OrgHasRevokedDevice
<1>9. ReaperHoldsLive'
  BY <1>1, <1>2, <1>3
  DEF RowsKept, ReaperHoldsLive, ActiveSlots, OrgHasRevokedDevice
<1> QED
  BY <1>6, <1>7, <1>8, <1>9 DEF RowsKept

LEMMA RecordIssuedBookkeeping ==
  ASSUME TypeOK, RowsKept, NEW c \in Conn, RecordIssued(c)
  PROVE  RowsKept'
<1> DEFINE s == grant[c].slot
<1>1. s \in Slot /\ lease[s].st # "none" /\ ledger[s].issued = 0
  BY DEF RecordIssued, RowsKept, GrantsOwnSlots
<1>2. UNCHANGED <<worker, lease, reaper, revoked, torn>>
  BY DEF RecordIssued, envVars, failVars
<1>3. /\ ledger'[s].issued = 1 /\ ledger'[s].ended = ledger[s].ended
      /\ \A t \in Slot \ {s} : ledger'[t] = ledger[t]
  BY <1>1 DEF TypeOK, RecordIssued
<1>4. /\ grant'[c].pc = "idle"
      /\ \A d \in Conn \ {c} : grant'[d] = grant[d]
  BY DEF RecordIssued, TypeOK, IdleGrant
<1>5. GrantsOwnSlots'
  <2>1. \A d \in Conn \ {c} :
          grant[d].pc \in {"lease", "usage"} =>
            grant[d].slot \in Slot \ {s}
    BY DEF RecordIssued, RowsKept, GrantsOwnSlots
  <2> HIDE DEF s
  <2> QED
    BY <1>1, <1>2, <1>3, <1>4, <2>1 DEF RowsKept, GrantsOwnSlots
<1> HIDE DEF s
<1>6. RowsAgree' /\ ActiveMeansRunning' /\ LedgerClosedOnce'
  BY <1>1, <1>2, <1>3
  DEF RowsKept, RowsAgree, ActiveMeansRunning, LedgerClosedOnce
<1>7. EndReasonSound'
  BY <1>2 DEF RowsKept, EndReasonSound, OrgHasRevokedDevice
<1>8. ReaperHoldsLive'
  BY <1>1, <1>2, <1>3
  DEF RowsKept, ReaperHoldsLive, ActiveSlots, OrgHasRevokedDevice
<1> QED
  BY <1>5, <1>6, <1>7, <1>8 DEF RowsKept

\* A pass of the reaper starts, takes a lease or ends: only its own record and
\* the weekly counter move.
LEMMA ReaperMovesBookkeeping ==
  ASSUME TypeOK, RowsKept,
         ReapSnapshot \/ (\E s \in Slot : TakesNext(s)) \/ ReapDone
  PROVE  RowsKept'
<1>1. UNCHANGED <<worker, lease, ledger, grant, revoked, torn>>
  BY DEF ReapSnapshot, TakesNext, ReapDone, ReaperVarsOnly, envVars, dbVars
<1>2. /\ GrantsOwnSlots' /\ RowsAgree' /\ ActiveMeansRunning'
      /\ EndReasonSound' /\ LedgerClosedOnce'
  BY <1>1
  DEF RowsKept, GrantsOwnSlots, RowsAgree, ActiveMeansRunning,
      EndReasonSound, LedgerClosedOnce, OrgHasRevokedDevice
<1>3. CASE ReapSnapshot
  <2>1. reaper'.pc = "loop" /\ reaper'.todo = ActiveSlots
    BY <1>3 DEF ReapSnapshot, TypeOK, ReaperState
  <2>2. ReaperHoldsLive'
    BY <1>1, <2>1 DEF ReaperHoldsLive, ActiveSlots
  <2> QED
    BY <1>2, <2>2 DEF RowsKept
<1>4. ASSUME NEW s \in Slot, TakesNext(s) PROVE RowsKept'
  <2>1. /\ reaper'.pc = "check" /\ reaper'.cur = s
        /\ reaper'.todo = reaper.todo \ {s} /\ s \in reaper.todo
    BY <1>4 DEF TakesNext, TypeOK, ReaperState
  <2>2. ReaperHoldsLive'
    BY <1>1, <2>1 DEF RowsKept, ReaperHoldsLive, ActiveSlots
  <2> QED
    BY <1>2, <2>2 DEF RowsKept
<1>5. CASE ReapDone
  <2>1. ReaperHoldsLive'
    BY <1>5 DEF ReapDone, IdleReaper, ReaperHoldsLive
  <2> QED
    BY <1>2, <2>1 DEF RowsKept
<1> QED
  BY <1>3, <1>4, <1>5

\* What a look at a lease finds, whatever it fails to read: a reason found is
\* one that holds, and a lease changes only by its renewal.
LEMMA ReapCheckFinds ==
  ASSUME TypeOK, RowsKept, ReapCheck \/ ReapCheckMisread
  PROVE  /\ reaper.cur \in Slot \ reaper.todo /\ lease[reaper.cur].st = "active"
         /\ UNCHANGED <<worker, ledger, grant, revoked, torn>>
         /\ reaper'.pc \in {"loop", "end"} /\ reaper'.todo = reaper.todo
         /\ reaper'.pc = "end" =>
              /\ lease' = lease
              /\ reaper'.cur = reaper.cur /\ reaper'.why \in Reason
              /\ reaper'.why = "killed" =>
                   OrgHasRevokedDevice(lease[reaper.cur].org)
              /\ reaper'.why = "expired" =>
                   lease[reaper.cur].exp = "past" /\ ~lease[reaper.cur].renew
         /\ lease'[reaper.cur].st = "active"
         /\ lease'[reaper.cur].why = lease[reaper.cur].why
         /\ lease'[reaper.cur].org = lease[reaper.cur].org
         /\ \A t \in Slot \ {reaper.cur} : lease'[t] = lease[t]
<1> DEFINE s == reaper.cur
<1>1. s \in Slot \ reaper.todo /\ lease[s].st = "active" /\ lease[s] \in LeaseRow
  BY DEF ReapCheck, ReapCheckMisread, RowsKept, ReaperHoldsLive, TypeOK
<1>2. UNCHANGED <<worker, ledger, grant, revoked, torn>>
  BY DEF ReapCheck, ReapCheckMisread, ReaperVarsOnly, envVars
<1>3. PICK unread \in SUBSET {"killed", "hours_cap"} :
        /\ Judges(ReasonBut(s, unread))
        /\ lease' \in {lease, RenewedIf(s, ReasonBut(s, unread))}
  BY DEF ReapCheck, ReapCheckMisread, RevokeReason
<1>4. PICK r : r = ReasonBut(s, unread)
  OBVIOUS
<1>5. /\ r \in Reason \cup {"none"}
      /\ r = "killed" => OrgHasRevokedDevice(lease[s].org)
      /\ r = "expired" => lease[s].exp = "past" /\ ~lease[s].renew
  BY <1>4 DEF ReasonBut, Reason
<1>6. /\ r # "none" => /\ reaper'.pc = "end" /\ reaper'.why = r
                       /\ reaper'.cur = s /\ reaper'.todo = reaper.todo
      /\ r = "none" => reaper'.pc = "loop" /\ reaper'.todo = reaper.todo
  BY <1>3, <1>4 DEF Judges, TypeOK, ReaperState
<1>7. lease' = lease \/ (r = "none" /\ lease' = [lease EXCEPT ![s] = Renewed(lease[s])])
  BY <1>3, <1>4 DEF RenewedIf
<1>8. /\ Renewed(lease[s]).st = "active"
      /\ Renewed(lease[s]).why = lease[s].why
      /\ Renewed(lease[s]).org = lease[s].org
  BY <1>1 DEF Renewed, LeaseRow
<1>9. /\ lease'[s].st = "active" /\ lease'[s].why = lease[s].why
      /\ lease'[s].org = lease[s].org
      /\ \A t \in Slot \ {s} : lease'[t] = lease[t]
  BY <1>1, <1>7, <1>8 DEF TypeOK
<1> QED
  BY <1>1, <1>2, <1>5, <1>6, <1>7, <1>9

\* The decision holds of the rows as they are now, so the reason is sound; a
\* renewal touches the expiry of an active lease only.
LEMMA ReapCheckBookkeeping ==
  ASSUME TypeOK, RowsKept, ReapCheck \/ ReapCheckMisread
  PROVE  RowsKept'
<1> DEFINE s == reaper.cur
<1>1. /\ s \in Slot \ reaper.todo /\ lease[s].st = "active"
      /\ UNCHANGED <<worker, ledger, grant, revoked, torn>>
      /\ reaper'.pc \in {"loop", "end"} /\ reaper'.todo = reaper.todo
      /\ reaper'.pc = "end" =>
           /\ lease' = lease
           /\ reaper'.cur = s /\ reaper'.why \in Reason
           /\ reaper'.why = "killed" => OrgHasRevokedDevice(lease[s].org)
           /\ reaper'.why = "expired" => lease[s].exp = "past" /\ ~lease[s].renew
      /\ lease'[s].st = "active" /\ lease'[s].why = lease[s].why
      /\ \A t \in Slot \ {s} : lease'[t] = lease[t]
  BY ReapCheckFinds
<1>2. lease[s].why = "none"
  BY <1>1 DEF RowsKept, RowsAgree
<1> HIDE DEF s
<1>7. \A t \in Slot : lease'[t].st = lease[t].st /\ lease'[t].why = lease[t].why
  BY <1>1
<1>8. GrantsOwnSlots'
  BY <1>1, <1>7 DEF RowsKept, GrantsOwnSlots
<1>9. RowsAgree' /\ ActiveMeansRunning' /\ LedgerClosedOnce'
  BY <1>1, <1>7
  DEF RowsKept, RowsAgree, ActiveMeansRunning, LedgerClosedOnce
<1>10. EndReasonSound'
  BY <1>1, <1>2, <1>7 DEF RowsKept, EndReasonSound, OrgHasRevokedDevice
<1>11. ReaperHoldsLive'
  <2>1. reaper'.todo \subseteq ActiveSlots'
    BY <1>1, <1>7 DEF RowsKept, ReaperHoldsLive, ActiveSlots
  <2> QED
    BY <1>1, <2>1 DEF ReaperHoldsLive, OrgHasRevokedDevice
<1> QED
  BY <1>8, <1>9, <1>10, <1>11 DEF RowsKept

LEMMA EndLeaseBookkeeping ==
  ASSUME TypeOK, RowsKept, EndLease
  PROVE  RowsKept'
<1> DEFINE s == reaper.cur
<1>1. /\ s \in Slot \ reaper.todo /\ lease[s].st = "active"
      /\ reaper.why \in Reason
      /\ reaper.why = "killed" => OrgHasRevokedDevice(lease[s].org)
      /\ reaper.why = "expired" => lease[s].exp = "past" /\ ~lease[s].renew
  BY DEF EndLease, RowsKept, ReaperHoldsLive
<1>2. UNCHANGED <<worker, ledger, grant, revoked, torn>>
  BY DEF EndLease, ReaperVarsOnly, envVars
<1>3. /\ reaper'.pc = "worker" /\ reaper'.why = reaper.why
      /\ reaper'.cur = s /\ reaper'.todo = reaper.todo
  BY DEF EndLease, TypeOK, ReaperState
<1>4. /\ lease'[s].st = "ended" /\ lease'[s].why = reaper.why
      /\ lease'[s].exp = lease[s].exp /\ lease'[s].renew = lease[s].renew
      /\ lease'[s].org = lease[s].org
      /\ \A t \in Slot \ {s} : lease'[t] = lease[t]
  BY <1>1 DEF EndLease, TypeOK, LeaseRow
<1>5. s \notin torn => worker[s] = "running" /\ ledger[s].ended = 0
  BY <1>1 DEF RowsKept, ActiveMeansRunning, RowsAgree
<1> HIDE DEF s
<1>6. GrantsOwnSlots'
  BY <1>1, <1>2, <1>4 DEF RowsKept, GrantsOwnSlots
<1>7. RowsAgree' /\ ActiveMeansRunning' /\ LedgerClosedOnce'
  BY <1>1, <1>2, <1>4, <1>5
  DEF RowsKept, RowsAgree, ActiveMeansRunning, LedgerClosedOnce
<1>8. EndReasonSound'
  BY <1>1, <1>2, <1>4, <1>5
  DEF RowsKept, EndReasonSound, OrgHasRevokedDevice
<1>9. ReaperHoldsLive'
  <2>1. reaper'.todo \subseteq ActiveSlots'
    BY <1>1, <1>3, <1>4 DEF RowsKept, ReaperHoldsLive, ActiveSlots
  <2> QED
    BY <1>1, <1>2, <1>3, <1>4, <1>5, <2>1
    DEF ReaperHoldsLive, OrgHasRevokedDevice
<1> QED
  BY <1>6, <1>7, <1>8, <1>9 DEF RowsKept

\* What revoke knows of the slot it is at, once it is past EndLease.
LEMMA ParkWorkerBookkeeping ==
  ASSUME TypeOK, RowsKept, ParkWorker
  PROVE  RowsKept'
<1> DEFINE s == reaper.cur
<1>1. /\ s \in Slot \ reaper.todo /\ reaper.why \in Reason
      /\ lease[s].st # "none"
      /\ reaper.why = "killed" => OrgHasRevokedDevice(lease[s].org)
      /\ reaper.why = "expired" => lease[s].exp = "past" /\ ~lease[s].renew
      /\ s \notin torn => /\ lease[s].st = "ended" /\ lease[s].why = reaper.why
                          /\ ledger[s].ended = 0 /\ worker[s] = "running"
  BY DEF ParkWorker, RowsKept, ReaperHoldsLive
<1>2. UNCHANGED <<lease, ledger, grant, revoked, torn>>
  BY DEF ParkWorker, ReaperVarsOnly, envVars
<1>3. /\ reaper'.pc = "ledger" /\ reaper'.why = reaper.why
      /\ reaper'.cur = s /\ reaper'.todo = reaper.todo
  BY DEF ParkWorker, TypeOK, ReaperState
<1>4. /\ worker'[s] \in {"paused", "stopped"}
      /\ s \notin torn =>
           worker'[s] = IF reaper.why = "expired" THEN "paused" ELSE "stopped"
      /\ \A t \in Slot \ {s} : worker'[t] = worker[t]
  BY <1>1 DEF ParkWorker, TypeOK
<1> HIDE DEF s
<1>5. GrantsOwnSlots'
  BY <1>1, <1>2, <1>4 DEF RowsKept, GrantsOwnSlots
<1>6. RowsAgree' /\ ActiveMeansRunning' /\ LedgerClosedOnce'
  BY <1>1, <1>2, <1>4
  DEF RowsKept, RowsAgree, ActiveMeansRunning, LedgerClosedOnce
<1>7. EndReasonSound'
  BY <1>1, <1>2, <1>4
  DEF RowsKept, EndReasonSound, OrgHasRevokedDevice, Reason
<1>8. ReaperHoldsLive'
  <2>2. reaper'.todo \subseteq ActiveSlots'
    BY <1>2, <1>3 DEF RowsKept, ReaperHoldsLive, ActiveSlots
  <2> QED
    BY <1>1, <1>2, <1>3, <1>4, <2>2
    DEF ReaperHoldsLive, OrgHasRevokedDevice
<1> QED
  BY <1>5, <1>6, <1>7, <1>8 DEF RowsKept

\* EndLease or ParkWorker fails: the rows stay, and the slot is no longer one
\* that is spoken of.
LEMMA RevokeTearsBookkeeping ==
  ASSUME TypeOK, RowsKept, RevokeTears
  PROVE  RowsKept'
<1> DEFINE s == reaper.cur
<1>1. /\ s \in Slot \ reaper.todo /\ reaper.why \in Reason
      /\ lease[s].st # "none" /\ worker[s] # "none"
      /\ reaper.why = "killed" => OrgHasRevokedDevice(lease[s].org)
      /\ reaper.why = "expired" => lease[s].exp = "past" /\ ~lease[s].renew
  BY DEF RevokeTears, RowsKept, ReaperHoldsLive, RowsAgree
<1>2. UNCHANGED <<lease, worker, ledger, grant, revoked>> /\ torn' = torn \cup {s}
  BY DEF RevokeTears, ReaperVarsOnly, envVars, dbVars
<1>3. /\ reaper'.pc \in {"worker", "ledger"} /\ reaper'.why = reaper.why
      /\ reaper'.cur = s /\ reaper'.todo = reaper.todo
  BY DEF RevokeTears, TypeOK, ReaperState
<1> HIDE DEF s
<1>4. GrantsOwnSlots'
  BY <1>2 DEF RowsKept, GrantsOwnSlots
<1>5. RowsAgree' /\ ActiveMeansRunning' /\ LedgerClosedOnce'
  BY <1>1, <1>2 DEF RowsKept, RowsAgree, ActiveMeansRunning, LedgerClosedOnce
<1>6. EndReasonSound'
  BY <1>2 DEF RowsKept, EndReasonSound, OrgHasRevokedDevice
<1>7. ReaperHoldsLive'
  <2>1. reaper'.todo \subseteq ActiveSlots'
    BY <1>2, <1>3 DEF RowsKept, ReaperHoldsLive, ActiveSlots
  <2> QED
    BY <1>1, <1>2, <1>3, <2>1 DEF ReaperHoldsLive, OrgHasRevokedDevice
<1> QED
  BY <1>4, <1>5, <1>6, <1>7 DEF RowsKept

LEMMA RecordEndedBookkeeping ==
  ASSUME TypeOK, RowsKept, RecordEnded
  PROVE  RowsKept'
<1> DEFINE s == reaper.cur
<1>1. /\ s \in Slot
      /\ s \notin torn => /\ lease[s].st = "ended" /\ ledger[s].ended = 0
                          /\ worker[s] \in {"paused", "stopped"}
  BY DEF RecordEnded, NextLease, RowsKept, ReaperHoldsLive
<1>2. UNCHANGED <<lease, worker, grant, revoked, torn>>
  BY DEF RecordEnded, NextLease, ReaperVarsOnly, envVars
<1>3. reaper'.pc = "loop" /\ reaper'.todo = reaper.todo
  BY DEF RecordEnded, NextLease, TypeOK, ReaperState
<1>4. /\ s \notin torn => ledger'[s].ended = 1
      /\ ledger'[s].issued = ledger[s].issued
      /\ \A t \in Slot \ {s} : ledger'[t] = ledger[t]
  BY <1>1 DEF RecordEnded, TypeOK
<1> HIDE DEF s
<1>5. GrantsOwnSlots'
  BY <1>1, <1>2, <1>4 DEF RowsKept, GrantsOwnSlots
<1>6. RowsAgree' /\ ActiveMeansRunning' /\ LedgerClosedOnce'
  BY <1>1, <1>2, <1>4
  DEF RowsKept, RowsAgree, ActiveMeansRunning, LedgerClosedOnce
<1>7. EndReasonSound'
  BY <1>2 DEF RowsKept, EndReasonSound, OrgHasRevokedDevice
<1>8. ReaperHoldsLive'
  BY <1>2, <1>3 DEF RowsKept, ReaperHoldsLive, ActiveSlots
<1> QED
  BY <1>5, <1>6, <1>7, <1>8 DEF RowsKept

LEMMA RecordEndedFailsBookkeeping ==
  ASSUME TypeOK, RowsKept, RecordEndedFails
  PROVE  RowsKept'
<1>1. UNCHANGED <<lease, worker, ledger, grant, revoked, torn>>
  BY DEF RecordEndedFails, NextLease, ReaperVarsOnly, envVars
<1>2. reaper'.pc = "loop" /\ reaper'.todo = reaper.todo
  BY DEF RecordEndedFails, NextLease, TypeOK, ReaperState
<1>3. /\ GrantsOwnSlots' /\ RowsAgree' /\ ActiveMeansRunning'
      /\ EndReasonSound' /\ LedgerClosedOnce'
  BY <1>1
  DEF RowsKept, GrantsOwnSlots, RowsAgree, ActiveMeansRunning,
      EndReasonSound, LedgerClosedOnce, OrgHasRevokedDevice
<1>4. ReaperHoldsLive'
  BY <1>1, <1>2 DEF RowsKept, ReaperHoldsLive, ActiveSlots
<1> QED
  BY <1>3, <1>4 DEF RowsKept

LEMMA TtlElapsesBookkeeping ==
  ASSUME TypeOK, RowsKept, NEW s \in Slot, TtlElapses(s)
  PROVE  RowsKept'
<1>1. UNCHANGED <<worker, ledger, grant, revoked, reaper, torn>>
  BY DEF TtlElapses, envVars, failVars
<1>2. /\ lease[s].st = "active" /\ lease[s].exp = "pending"
      /\ lease'[s].st = "active" /\ lease'[s].why = lease[s].why
      /\ lease'[s].exp = "past" /\ lease'[s].renew = lease[s].renew
      /\ lease'[s].org = lease[s].org
      /\ \A t \in Slot \ {s} : lease'[t] = lease[t]
  BY DEF TtlElapses, TypeOK, LeaseRow
<1>3. \A t \in Slot : lease'[t].st = lease[t].st /\ lease'[t].why = lease[t].why
                     /\ lease'[t].org = lease[t].org
  BY <1>2
<1>4. GrantsOwnSlots'
  BY <1>1, <1>3 DEF RowsKept, GrantsOwnSlots
<1>5. RowsAgree' /\ ActiveMeansRunning' /\ LedgerClosedOnce'
  BY <1>1, <1>3
  DEF RowsKept, RowsAgree, ActiveMeansRunning, LedgerClosedOnce
<1>6. EndReasonSound'
  BY <1>1, <1>2 DEF RowsKept, EndReasonSound, OrgHasRevokedDevice
<1>7. ReaperHoldsLive'
  <2>1. reaper.todo \subseteq ActiveSlots'
    BY <1>3 DEF RowsKept, ReaperHoldsLive, ActiveSlots
  <2>2. reaper.pc \in {"check", "end", "worker", "ledger"} => reaper.cur \in Slot
    BY DEF RowsKept, ReaperHoldsLive
  <2> QED
    BY <1>1, <1>2, <1>3, <2>1, <2>2
    DEF RowsKept, ReaperHoldsLive, OrgHasRevokedDevice
<1> QED
  BY <1>4, <1>5, <1>6, <1>7 DEF RowsKept

\* A crash forgets the goroutines, so what was owed to the rows stays undone.
LEMMA CrashBookkeeping ==
  ASSUME TypeOK, RowsKept, Crash
  PROVE  RowsKept'
<1>1. UNCHANGED <<worker, lease, ledger, revoked>>
  BY DEF Crash, dbVars
<1>2. (\A c \in Conn : grant'[c].pc = "idle") /\ reaper' = IdleReaper
  BY DEF Crash, IdleGrant
<1>3. GrantsOwnSlots' /\ ReaperHoldsLive'
  BY <1>2 DEF GrantsOwnSlots, ReaperHoldsLive, IdleReaper
<1>4. torn \subseteq torn'
      /\ \A s \in torn' \ torn : s = reaper.cur /\ reaper.pc = "worker"
  BY DEF Crash
<1>5. \A s \in Slot : s \in torn' => worker[s] # "none" /\ lease[s].st # "none"
  BY <1>4 DEF RowsKept, ReaperHoldsLive, RowsAgree
<1>6. RowsAgree' /\ ActiveMeansRunning' /\ LedgerClosedOnce'
  BY <1>1, <1>4, <1>5
  DEF RowsKept, RowsAgree, ActiveMeansRunning, LedgerClosedOnce
<1>7. EndReasonSound'
  BY <1>1, <1>4 DEF RowsKept, EndReasonSound, OrgHasRevokedDevice
<1> QED
  BY <1>3, <1>6, <1>7 DEF RowsKept

\* What the steps of tryGrant that write no row do to the handlers.
LEMMA QuietGrant ==
  ASSUME TypeOK, NEW c \in Conn,
         \/ OpenStream(c) \/ CloseStream(c) \/ GrantBegin(c)
         \/ GrantMisread(c) \/ GrantCount(c) \/ GrantCountMisread(c)
         \/ GrantFails(c)
  PROVE  \A d \in Conn : grant'[d].pc \in {"lease", "usage"}
                            => grant'[d] = grant[d]
<1>1. grant[c] \in GrantState
  BY DEF TypeOK
<1>2. IdleGrant.pc = "idle" /\ \A cap : Begun(c, cap).pc = "count"
  BY DEF IdleGrant, Begun
<1>4. CASE OpenStream(c) \/ CloseStream(c) \/ GrantFails(c)
  BY <1>2, <1>4 DEF OpenStream, CloseStream, GrantFails, TypeOK
<1>5. CASE GrantBegin(c)
  BY <1>2, <1>5 DEF GrantBegin, TypeOK
<1>6. CASE GrantMisread(c)
  BY <1>2, <1>6 DEF GrantMisread, TypeOK
<1>7. CASE GrantCount(c)
  BY <1>1, <1>2, <1>7 DEF GrantCount, TypeOK, GrantState
<1>8. CASE GrantCountMisread(c)
  BY <1>1, <1>2, <1>8 DEF GrantCountMisread, TypeOK, GrantState
<1> QED
  BY <1>4, <1>5, <1>6, <1>7, <1>8

\* What a step does to the counters of failures.
LEMMA FaultsGrow ==
  ASSUME TypeOK, [Next]_vars
  PROVE  crashes' + errs' >= crashes + errs /\ errs' >= errs
<1> USE DEF Fails, envVars, failVars, ReaperVarsOnly
<1>0. crashes \in Nat /\ errs \in Nat
  BY DEF TypeOK
<1>1. crashes' \in {crashes, crashes + 1} /\ errs' \in {errs, errs + 1}
  <2>1. ASSUME NEW c \in Conn, OpenStream(c) \/ CloseStream(c) \/ GrantStep(c)
        PROVE  crashes' = crashes /\ errs' \in {errs, errs + 1}
    BY <2>1 DEF OpenStream, CloseStream, GrantStep, GrantBegin, GrantMisread,
         GrantCount, GrantCountMisread, InsertWorker, InsertLease, RecordIssued,
         GrantFails
  <2>2. CASE ReaperStep
    BY <2>2 DEF ReaperStep, ReapSnapshot, ReapTake, ReapTakeUncharged, TakesNext,
         ReapCheck, ReapCheckMisread, EndLease, ParkWorker, RevokeTears,
         NextLease, RecordEnded, RecordEndedFails, ReapDone
  <2>3. CASE Environment
    BY <2>3 DEF Environment, ChangePlan, UpdatePool, RevokeDevice, TtlElapses,
         WeekRolls, Crash
  <2>4. CASE UNCHANGED vars
    BY <2>4 DEF vars
  <2> QED
    BY <2>1, <2>2, <2>3, <2>4 DEF Next
<1> HIDE DEF Fails, envVars, failVars, ReaperVarsOnly
<1>2. PICK x, y, u, v : x = crashes /\ y = errs /\ u = crashes' /\ v = errs'
  OBVIOUS
<1>3. x \in Nat /\ y \in Nat /\ u \in {x, x + 1} /\ v \in {y, y + 1}
  BY <1>0, <1>1, <1>2
<1>4. u + v >= x + y /\ v >= y
  BY <1>3
<1> QED
  BY <1>2, <1>4

LEMMA TornKept ==
  ASSUME [Next]_vars
  PROVE  torn' = torn \/ Crash \/ RevokeTears
<1> USE DEF failVars
<1>1. ASSUME NEW c \in Conn, OpenStream(c) \/ CloseStream(c) \/ GrantStep(c)
      PROVE  torn' = torn
  BY <1>1 DEF OpenStream, CloseStream, GrantStep, GrantBegin, GrantMisread,
       GrantCount, GrantCountMisread, InsertWorker, InsertLease, RecordIssued,
       GrantFails
<1>2. CASE ReaperStep
  BY <1>2 DEF ReaperStep, ReapSnapshot, ReapTake, ReapTakeUncharged, TakesNext,
       ReapCheck, ReapCheckMisread, EndLease, ParkWorker,
       NextLease, RecordEnded, RecordEndedFails, ReapDone
<1>3. CASE Environment
  BY <1>3 DEF Environment, ChangePlan, UpdatePool, RevokeDevice, TtlElapses,
       WeekRolls
<1>4. CASE UNCHANGED vars
  BY <1>4 DEF vars
<1> QED
  BY <1>1, <1>2, <1>3, <1>4 DEF Next

LEMMA NextRows == TypeOK /\ RowsKept /\ [Next]_vars => RowsKept'
<1> SUFFICES ASSUME TypeOK, RowsKept, [Next]_vars PROVE RowsKept'
  OBVIOUS
<1> USE DEF envVars, dbVars, failVars
<1>1. CASE UNCHANGED vars
  BY <1>1, QuietBookkeeping DEF vars
<1>2. ASSUME NEW c \in Conn,
             \/ OpenStream(c) \/ CloseStream(c) \/ GrantBegin(c)
             \/ GrantMisread(c) \/ GrantCount(c) \/ GrantCountMisread(c)
             \/ GrantFails(c)
      PROVE  RowsKept'
  <2>1. UNCHANGED <<worker, lease, ledger, reaper, revoked, torn>>
    BY <1>2 DEF OpenStream, CloseStream, GrantBegin, GrantMisread, GrantCount,
                GrantCountMisread, GrantFails
  <2>2. \A d \in Conn : grant'[d].pc \in {"lease", "usage"}
                           => grant'[d] = grant[d]
    BY <1>2, QuietGrant
  <2> QED
    BY <2>1, <2>2, QuietBookkeeping
<1>4. ASSUME NEW c \in Conn, GrantStep(c) PROVE RowsKept'
  BY <1>2, <1>4, InsertWorkerBookkeeping, InsertLeaseBookkeeping,
     RecordIssuedBookkeeping DEF GrantStep
<1>5. CASE ReaperStep
  BY <1>5, ReaperMovesBookkeeping, ReapCheckBookkeeping, EndLeaseBookkeeping,
     ParkWorkerBookkeeping, RevokeTearsBookkeeping, RecordEndedBookkeeping,
     RecordEndedFailsBookkeeping
  DEF ReaperStep, ReapTake, ReapTakeUncharged
<1>6. CASE Environment
  <2>1. ASSUME NEW o \in Org, ChangePlan(o) \/ UpdatePool(o) PROVE RowsKept'
    BY <2>1, QuietBookkeeping DEF ChangePlan, UpdatePool
  <2>2. ASSUME NEW d \in Device, RevokeDevice(d) PROVE RowsKept'
    BY <2>2, QuietBookkeeping DEF RevokeDevice
  <2>3. CASE WeekRolls
    BY <2>3, QuietBookkeeping DEF WeekRolls
  <2> QED
    BY <1>6, <2>1, <2>2, <2>3, TtlElapsesBookkeeping, CrashBookkeeping
    DEF Environment
<1> QED
  BY <1>1, <1>2, <1>4, <1>5, <1>6 DEF Next

\* A slot is torn by RevokeTears, which is a failure, or by a crash.
LEMMA NextTorn ==
  ASSUME TypeOK, TornExplained, [Next]_vars
  PROVE  TornExplained'
<1>1. IsFiniteSet(torn) /\ Cardinality(torn) \in Nat
  <2>1. IsFiniteSet(Slot \cup {NoSlot})
    BY ConstAssumption, FS_AddElement
  <2>2. torn \subseteq Slot \cup {NoSlot}
    BY DEF TypeOK
  <2> QED
    BY <2>1, <2>2, FS_Subset, FS_CardinalityType
<1>2. crashes \in Nat /\ errs \in Nat
  BY DEF TypeOK
<1>3. ASSUME NEW s PROVE Cardinality(torn \cup {s}) <= Cardinality(torn) + 1
  <2>1. \/ Cardinality(torn \cup {s}) = Cardinality(torn)
        \/ Cardinality(torn \cup {s}) = Cardinality(torn) + 1
    BY <1>1, FS_AddElement, Zenon
  <2> QED
    BY <1>1, <2>1
<1>4. \/ torn' = torn
      \/ torn' = torn \cup {reaper.cur} /\ crashes' + errs' = crashes + errs + 1
  <2>1. CASE Crash
    BY <1>2, <2>1 DEF Crash
  <2>2. CASE RevokeTears
    BY <1>2, <2>2 DEF RevokeTears, Fails, ReaperVarsOnly, envVars
  <2> QED
    BY <2>1, <2>2, TornKept
<1>5. crashes' + errs' >= crashes + errs
  BY <1>2, FaultsGrow
<1>6. crashes' \in Nat /\ errs' \in Nat
  BY NextType DEF TypeOK
<1>7. PICK x, y, u, v, n, m :
        /\ x = crashes /\ y = errs /\ u = crashes' /\ v = errs'
        /\ n = Cardinality(torn) /\ m = Cardinality(torn')
  OBVIOUS
<1>8. m = n \/ (m <= n + 1 /\ u + v = x + y + 1)
  BY <1>3, <1>4, <1>7
<1>9. /\ x \in Nat /\ y \in Nat /\ u \in Nat /\ v \in Nat
      /\ n \in Nat /\ m \in Nat /\ n <= y + x /\ u + v >= x + y
  <2>1. torn' \subseteq Slot \cup {NoSlot}
    BY NextType DEF TypeOK
  <2>2. Cardinality(torn') \in Nat
    BY <2>1, ConstAssumption, FS_AddElement, FS_Subset, FS_CardinalityType
  <2> QED
    BY <1>1, <1>2, <1>5, <1>6, <1>7, <2>2 DEF TornExplained
<1>10. m <= v + u
  BY <1>8, <1>9
<1> QED
  BY <1>7, <1>10 DEF TornExplained

LEMMA NextBookkeeping == TypeOK /\ Bookkeeping /\ [Next]_vars => Bookkeeping'
BY NextRows, NextTorn DEF Bookkeeping

LEMMA InitBookkeeping == Init => Bookkeeping
<1>1. Init => TornExplained
  BY FS_EmptySet DEF Init, TornExplained
<1> QED
  BY <1>1, InitRows DEF Bookkeeping

\* Whatever the interleaving of grants, passes, disconnects, failures and
\* crashes, the handlers and the reaper find the rows they are about to write as
\* they left them, except of the slots torn.
THEOREM LeaseBookkeeping == Spec => []Bookkeeping
<1>1. Init => TypeOK /\ Bookkeeping
  BY InitType, InitBookkeeping
<1>2. (TypeOK /\ Bookkeeping) /\ [Next]_vars => (TypeOK /\ Bookkeeping)'
  BY NextType, NextBookkeeping
<1> QED
  BY <1>1, <1>2, PTL DEF Spec

\* An active lease always has a running worker (the order of the writes in
\* GrantLease and revoke).
THEOREM LeaseActiveMeansRunning == Spec => []ActiveMeansRunning
<1>1. Bookkeeping => ActiveMeansRunning
  BY DEF Bookkeeping, RowsKept
<1> QED
  BY <1>1, LeaseBookkeeping, PTL

\* end_reason is true when it is written and stays true.
THEOREM LeaseEndReasonSound == Spec => []EndReasonSound
<1>1. Bookkeeping => EndReasonSound
  BY DEF Bookkeeping, RowsKept
<1> QED
  BY <1>1, LeaseBookkeeping, PTL

\* The ledger has at most one issue and one close of a grant.
THEOREM LeaseLedgerClosedOnce == Spec => []LedgerClosedOnce
<1>1. Bookkeeping => LedgerClosedOnce
  BY DEF Bookkeeping, RowsKept
<1> QED
  BY <1>1, LeaseBookkeeping, PTL

-----------------------------------------------------------------------------
(* Ended leases. *)

\* A lease row that has ended is never written again: InsertLease writes only a
\* row still to be inserted, and renewal and EndLease only an active one.
THEOREM LeaseEndedIsFinal == Spec => EndedIsFinal
<1> DEFINE P == \A s \in Slot : lease[s].st = "ended" => lease'[s] = lease[s]
<1>1. TypeOK /\ Bookkeeping /\ [Next]_vars => [P]_vars
  <2> SUFFICES ASSUME TypeOK, RowsKept, [Next]_vars PROVE P
    BY DEF Bookkeeping
  <2>1. CASE lease' = lease
    BY <2>1
  <2>2. ASSUME NEW c \in Conn, InsertLease(c) PROVE P
    <3>1. lease[grant[c].slot].st = "none"
      BY <2>2 DEF InsertLease, RowsKept, GrantsOwnSlots
    <3> QED
      BY <2>2, <3>1 DEF InsertLease, TypeOK
  <2>3. CASE ReapCheck \/ ReapCheckMisread
    BY <2>3, ReapCheckFinds
  <2>4. CASE EndLease
    BY <2>4 DEF EndLease, RowsKept, ReaperHoldsLive, TypeOK
  <2>5. ASSUME NEW s \in Slot, TtlElapses(s) PROVE P
    BY <2>5 DEF TtlElapses, TypeOK
  <2>6. ASSUME NEW c \in Conn, OpenStream(c) \/ CloseStream(c) \/ GrantStep(c),
               ~InsertLease(c)
        PROVE  lease' = lease
    BY <2>6 DEF OpenStream, CloseStream, GrantStep, GrantBegin, GrantMisread,
         GrantCount, GrantCountMisread, InsertWorker, RecordIssued, GrantFails,
         dbVars
  <2>7. CASE ReaperStep /\ ~ReapCheck /\ ~ReapCheckMisread /\ ~EndLease
    <3>1. lease' = lease
      BY <2>7
      DEF ReaperStep, ReapSnapshot, ReapTake, ReapTakeUncharged, TakesNext,
          ParkWorker, RevokeTears, NextLease, RecordEnded, RecordEndedFails,
          ReapDone, dbVars
    <3> QED
      BY <2>1, <3>1
  <2>8. CASE (\E o \in Org : ChangePlan(o) \/ UpdatePool(o))
             \/ (\E d \in Device : RevokeDevice(d)) \/ WeekRolls \/ Crash
    BY <2>8, <2>1 DEF ChangePlan, UpdatePool, RevokeDevice, WeekRolls, Crash,
                      dbVars
  <2>9. CASE UNCHANGED vars
    BY <2>9, <2>1 DEF vars
  <2> HIDE DEF P
  <2>10. ASSUME NEW c \in Conn, OpenStream(c) \/ CloseStream(c) \/ GrantStep(c)
         PROVE  P
    BY <2>1, <2>2, <2>6, <2>10
  <2>11. CASE ReaperStep
    BY <2>3, <2>4, <2>7, <2>11
  <2> QED
    BY <2>5, <2>8, <2>9, <2>10, <2>11 DEF Next, Environment
<1> QED
  BY <1>1, LeaseTypeCorrect, LeaseBookkeeping, PTL DEF Spec, EndedIsFinal

-----------------------------------------------------------------------------
(* How many leases an org holds. *)

\* The counted leases an org holds, and the handlers about to insert one.
Counted(o) == Active(o) \ uncounted
Counting(o) == {c \in Inserting(o) : grant[c].count # "unread"}

LEMMA FiniteSides ==
  ASSUME NEW o \in Org
  PROVE  /\ IsFiniteSet(Active(o)) /\ Cardinality(Active(o)) \in Nat
         /\ IsFiniteSet(Inserting(o)) /\ Cardinality(Inserting(o)) \in Nat
         /\ IsFiniteSet(Counted(o)) /\ Cardinality(Counted(o)) \in Nat
         /\ IsFiniteSet(Counting(o)) /\ Cardinality(Counting(o)) \in Nat
         /\ IsFiniteSet(Conns(o)) /\ Cardinality(Conns(o)) \in Nat
<1>1. /\ Active(o) \subseteq Slot /\ Counted(o) \subseteq Slot
      /\ Inserting(o) \subseteq Conn /\ Counting(o) \subseteq Conn
      /\ Conns(o) \subseteq Conn
  BY DEF Active, ActiveSlots, Inserting, Conns, Counted, Counting
<1>2. IsFiniteSet(Slot) /\ IsFiniteSet(Conn)
  BY ConstAssumption
<1> QED
  BY <1>1, <1>2, FS_Subset, FS_CardinalityType

LEMMA FiniteSidesNext ==
  ASSUME NEW o \in Org
  PROVE  /\ IsFiniteSet(Active(o)') /\ Cardinality(Active(o)') \in Nat
         /\ IsFiniteSet(Inserting(o)') /\ Cardinality(Inserting(o)') \in Nat
         /\ IsFiniteSet(Counted(o)') /\ Cardinality(Counted(o)') \in Nat
         /\ IsFiniteSet(Counting(o)') /\ Cardinality(Counting(o)') \in Nat
<1>1. /\ Active(o)' \subseteq Slot /\ Counted(o)' \subseteq Slot
      /\ Inserting(o)' \subseteq Conn /\ Counting(o)' \subseteq Conn
  BY DEF Active, ActiveSlots, Inserting, Conns, Counted, Counting
<1>2. IsFiniteSet(Slot) /\ IsFiniteSet(Conn)
  BY ConstAssumption
<1> QED
  BY <1>1, <1>2, FS_Subset, FS_CardinalityType

\* OvershootBounded, one org at a time.
LEMMA OvershootOf ==
  ASSUME OvershootBounded, AllPlansLimited, NEW o \in Org, Conns(o) # {}
  PROVE  /\ Cardinality(Counted(o)) + Cardinality(Counting(o))
              <= TopCap + Cardinality(Conns(o)) - 1
         /\ Cardinality(Active(o)) + Cardinality(Inserting(o))
              <= TopCap + Cardinality(Conns(o)) - 1 + errs
BY DEF OvershootBounded, Counted, Counting

LEMMA OvershootNext ==
  ASSUME ASSUME AllPlansLimited, NEW o \in Org, Conns(o) # {}
         PROVE  /\ Cardinality(Counted(o)') + Cardinality(Counting(o)')
                     <= TopCap + Cardinality(Conns(o)) - 1
                /\ Cardinality(Active(o)') + Cardinality(Inserting(o)')
                     <= TopCap + Cardinality(Conns(o)) - 1 + errs'
  PROVE  OvershootBounded'
BY DEF OvershootBounded, Counted, Counting, AllPlansLimited, Conns, ConnOrg

\* Between two states the failures are not forgotten.
ErrsGrow == errs \in Nat /\ errs' \in Nat /\ errs' >= errs

LEMMA CountingIs ==
  /\ \A o \in Org : \A d : d \in Counting(o) <=>
       d \in Inserting(o) /\ grant[d].count # "unread"
  /\ \A o \in Org : \A d : d \in Counting(o)' <=>
       d \in Inserting(o)' /\ grant'[d].count # "unread"
  /\ \A o \in Org : \A d : d \in Inserting(o) =>
       d \in Conn /\ grant[d].pc \in {"worker", "lease"}
  /\ \A o \in Org : \A d : d \in Inserting(o)' =>
       d \in Conn /\ grant'[d].pc \in {"worker", "lease"}
<1>1. /\ \A o \in Org : \A d : d \in Counting(o) <=>
           d \in Inserting(o) /\ grant[d].count # "unread"
      /\ \A o \in Org : \A d : d \in Counting(o)' <=>
           d \in Inserting(o)' /\ grant'[d].count # "unread"
  BY DEF Counting
<1>2. /\ \A o \in Org : \A d : d \in Inserting(o) =>
           d \in Conn /\ grant[d].pc \in {"worker", "lease"}
      /\ \A o \in Org : \A d : d \in Inserting(o)' =>
           d \in Conn /\ grant'[d].pc \in {"worker", "lease"}
  BY DEF Inserting, Conns
<1> QED
  BY <1>1, <1>2

LEMMA FewerOvershoot ==
  ASSUME OvershootBounded, ErrsGrow,
         \A o \in Org : /\ Active(o)' \subseteq Active(o)
                        /\ Inserting(o)' \subseteq Inserting(o)
                        /\ Counted(o)' \subseteq Counted(o)
                        /\ Counting(o)' \subseteq Counting(o)
  PROVE  OvershootBounded'
<1> SUFFICES ASSUME AllPlansLimited, NEW o \in Org, Conns(o) # {}
             PROVE  /\ Cardinality(Counted(o)') + Cardinality(Counting(o)')
                         <= TopCap + Cardinality(Conns(o)) - 1
                    /\ Cardinality(Active(o)') + Cardinality(Inserting(o)')
                         <= TopCap + Cardinality(Conns(o)) - 1 + errs'
  BY OvershootNext
<1>1. /\ Cardinality(Active(o)') <= Cardinality(Active(o))
      /\ Cardinality(Inserting(o)') <= Cardinality(Inserting(o))
      /\ Cardinality(Counted(o)') <= Cardinality(Counted(o))
      /\ Cardinality(Counting(o)') <= Cardinality(Counting(o))
  BY FiniteSides, FS_Subset
<1>2. TopCap \in Nat
  BY ConstAssumption
<1> QED
  BY <1>1, <1>2, OvershootOf, FiniteSides, FiniteSidesNext DEF ErrsGrow

\* GrantFits of one handler, and the same once a step has been taken.
FitsIn(g, active) ==
  /\ (AllPlansLimited /\ g.pc = "count") => g.capW \in 0..TopCap
  /\ (g.pc \in {"worker", "lease"} /\ g.count = "read" /\ g.capW >= 0)
       => Cardinality(active) < g.capW

LEMMA FitsOf ==
  ASSUME GrantFits, NEW c \in Conn
  PROVE  FitsIn(grant[c], Active(ConnOrg(c)))
BY DEF GrantFits, FitsIn

LEMMA FitsNext ==
  ASSUME ASSUME NEW c \in Conn PROVE FitsIn(grant'[c], Active(ConnOrg(c))')
  PROVE  GrantFits'
<1>1. ASSUME NEW c \in Conn
      PROVE  /\ (AllPlansLimited /\ grant'[c].pc = "count")
                   => grant'[c].capW \in 0..TopCap
             /\ (/\ grant'[c].pc \in {"worker", "lease"}
                 /\ grant'[c].count = "read" /\ grant'[c].capW >= 0)
                  => Cardinality(Active(ConnOrg(c))') < grant'[c].capW
  BY DEF FitsIn
<1> QED
  BY <1>1 DEF GrantFits, AllPlansLimited

\* Steps after which no org has more active leases or more handlers about to
\* insert one.
LEMMA ShrinkingCap ==
  ASSUME TypeOK, GrantFits, OvershootBounded, ErrsGrow, uncounted' = uncounted,
         \A s \in Slot : lease'[s].st = "active" =>
             lease[s].st = "active" /\ lease'[s].org = lease[s].org,
         \A c \in Conn :
           grant'[c].pc \in {"count", "worker", "lease"} =>
             /\ grant'[c].capW = grant[c].capW
             /\ grant'[c].count = grant[c].count
             /\ grant'[c].pc = grant[c].pc
                  \/ {grant[c].pc, grant'[c].pc} = {"worker", "lease"}
  PROVE  GrantFits' /\ OvershootBounded'
<1>1. \A o \in Org : /\ Active(o)' \subseteq Active(o)
                     /\ Inserting(o)' \subseteq Inserting(o)
  BY DEF Active, ActiveSlots, Inserting, Conns
<1>2. \A o \in Org : /\ Counted(o)' \subseteq Counted(o)
                     /\ Counting(o)' \subseteq Counting(o)
  <2>1. \A o \in Org : Counted(o)' \subseteq Counted(o)
    BY <1>1 DEF Counted
  <2>2. \A o \in Org : Counting(o)' \subseteq Counting(o)
    BY <1>1, CountingIs
  <2> QED
    BY <2>1, <2>2
<1>3. GrantFits'
  <2> SUFFICES ASSUME NEW c \in Conn
               PROVE  FitsIn(grant'[c], Active(ConnOrg(c))')
    BY FitsNext
  <2>1. grant[c].capW \in Nat \cup {-1} /\ ConnOrg(c) \in Org
    BY ConnOrgType DEF TypeOK, GrantState
  <2>2. FitsIn(grant[c], Active(ConnOrg(c)))
    BY FitsOf
  <2>3. Cardinality(Active(ConnOrg(c))') <= Cardinality(Active(ConnOrg(c)))
    <3>1. PICK o \in Org : o = ConnOrg(c)
      BY <2>1
    <3>2. Cardinality(Active(o)') <= Cardinality(Active(o))
      BY <1>1, FiniteSides, FS_Subset
    <3> QED
      BY <3>1, <3>2 DEF ConnOrg
  <2>4. Cardinality(Active(ConnOrg(c))') \in Nat /\ Cardinality(Active(ConnOrg(c))) \in Nat
    <3>1. PICK o \in Org : o = ConnOrg(c)
      BY <2>1
    <3>2. Cardinality(Active(o)') \in Nat /\ Cardinality(Active(o)) \in Nat
      BY FiniteSides, FiniteSidesNext
    <3> QED
      BY <3>1, <3>2 DEF ConnOrg
  <2> QED
    BY <2>1, <2>2, <2>3, <2>4 DEF FitsIn
<1> QED
  BY <1>1, <1>2, <1>3, FewerOvershoot

\* A handler begins with a cap of the catalogue.
LEMMA GrantBeginCap ==
  ASSUME TypeOK, GrantFits, OvershootBounded, ErrsGrow,
         NEW c \in Conn, GrantBegin(c) \/ GrantMisread(c)
  PROVE  GrantFits' /\ OvershootBounded'
<1>1. lease' = lease /\ uncounted' = uncounted
  BY DEF GrantBegin, GrantMisread, dbVars, failVars
<1>2. CASE grant' = grant
  BY <1>1, <1>2, ShrinkingCap
<1>3. ASSUME NEW cap \in {EffectiveCap(ConnOrg(c)), MaxWorkers[plan[ConnOrg(c)]]},
             grant' = [grant EXCEPT ![c] = Begun(c, cap)]
      PROVE  GrantFits' /\ OvershootBounded'
  <2>1. /\ grant'[c].pc = "count" /\ grant'[c].capW = cap
        /\ \A d \in Conn \ {c} : grant'[d] = grant[d]
    BY <1>3 DEF TypeOK, Begun
  <2>2. AllPlansLimited => cap \in 0..TopCap
    BY <1>3, CapType, ConnOrgType
  <2>3. \A o \in Org : /\ Active(o)' \subseteq Active(o)
                       /\ Active(o) \subseteq Active(o)'
                       /\ Inserting(o)' \subseteq Inserting(o)
    BY <1>1, <2>1 DEF Active, ActiveSlots, Inserting, Conns
  <2>4. \A o \in Org : /\ Counted(o)' \subseteq Counted(o)
                       /\ Counting(o)' \subseteq Counting(o)
    <3>1. \A o \in Org : Counted(o)' \subseteq Counted(o)
      BY <1>1, <2>3 DEF Counted
    <3>2. \A o \in Org : Counting(o)' \subseteq Counting(o)
      BY <2>1, <2>3, CountingIs
    <3> QED
      BY <3>1, <3>2
  <2>5. GrantFits'
    <3> SUFFICES ASSUME NEW d \in Conn
                 PROVE  FitsIn(grant'[d], Active(ConnOrg(d))')
      BY FitsNext
    <3>1. CASE d = c
      BY <2>1, <2>2, <3>1 DEF FitsIn
    <3>2. CASE d # c
      <4>1. Active(ConnOrg(d))' = Active(ConnOrg(d))
        BY <1>1 DEF Active, ActiveSlots, ConnOrg
      <4> QED
        BY <2>1, <3>2, <4>1, FitsOf
    <3> QED
      BY <3>1, <3>2
  <2> QED
    BY <2>3, <2>4, <2>5, FewerOvershoot
<1> QED
  BY <1>2, <1>3 DEF GrantBegin, GrantMisread

\* A handler that passes the count has seen fewer leases than its cap, or has
\* failed to count them; and the handlers about to insert are never more than
\* the org's streams.
LEMMA GrantCountCap ==
  ASSUME TypeOK, GrantFits, OvershootBounded, ErrsGrow, errs' \in {errs, errs + 1},
         NEW c \in Conn, GrantCount(c) \/ GrantCountMisread(c)
  PROVE  GrantFits' /\ OvershootBounded'
<1> DEFINE q == ConnOrg(c)
           k == grant[c].capW
<1>1. lease' = lease /\ uncounted' = uncounted /\ grant[c].pc = "count"
  BY DEF GrantCount, GrantCountMisread, dbVars, failVars
<1>2. \A d \in Conn \ {c} : grant'[d] = grant[d]
  BY DEF GrantCount, GrantCountMisread, TypeOK
<1>3. grant[c] \in GrantState
  BY DEF TypeOK
<1>4. q \in Org /\ k \in Nat \cup {-1} /\ TopCap \in Nat
  BY <1>3, ConnOrgType, ConstAssumption DEF GrantState
<1>5. AllPlansLimited => k \in 0..TopCap
  BY <1>1, FitsOf DEF FitsIn
<1>6. \A o \in Org : Active(o)' = Active(o) /\ Counted(o)' = Counted(o)
  BY <1>1 DEF Active, ActiveSlots, Counted
<1>7. \A d \in Conn : Active(ConnOrg(d))' = Active(ConnOrg(d))
  BY <1>1 DEF Active, ActiveSlots, ConnOrg
<1>8. \A o \in Org \ {q} : /\ Inserting(o)' = Inserting(o)
                           /\ Counting(o)' = Counting(o)
  BY <1>2 DEF Inserting, Counting, Conns
<1>9. CASE grant'[c].pc = "idle"
  BY <1>1, <1>2, <1>9, ShrinkingCap
<1>10. ASSUME grant'[c].pc = "worker", grant'[c].capW = k, grant'[c].count = "read"
                                                        \/ grant'[c].count = grant[c].count,
              k >= 0 => Cardinality(Active(q)) < k
       PROVE  GrantFits' /\ OvershootBounded'
  <2>1. Cardinality(Inserting(q)') <= Cardinality(Conns(q))
        /\ Cardinality(Counting(q)') <= Cardinality(Conns(q))
    <3>1. Inserting(q)' \subseteq Conns(q) /\ Counting(q)' \subseteq Conns(q)
      BY DEF Inserting, Counting, Conns, ConnOrg
    <3> QED
      BY <1>4, <3>1, FiniteSides, FS_Subset
  <2>2. Cardinality(Counted(q)) <= Cardinality(Active(q))
    BY <1>4, FiniteSides, FS_Subset DEF Counted
  <2>3. OvershootBounded'
    <3> SUFFICES ASSUME AllPlansLimited, NEW o \in Org, Conns(o) # {}
                 PROVE  /\ Cardinality(Counted(o)') + Cardinality(Counting(o)')
                             <= TopCap + Cardinality(Conns(o)) - 1
                        /\ Cardinality(Active(o)') + Cardinality(Inserting(o)')
                             <= TopCap + Cardinality(Conns(o)) - 1 + errs'
      BY OvershootNext
    <3>1. CASE o = q
      <4>1. PICK a, b, n, i, j :
              /\ a = Cardinality(Active(q)) /\ b = Cardinality(Counted(q))
              /\ n = Cardinality(Conns(q)) /\ i = Cardinality(Inserting(q)')
              /\ j = Cardinality(Counting(q)')
        OBVIOUS
      <4>2. a \in Nat /\ b \in Nat /\ n \in Nat /\ i \in Nat /\ j \in Nat
        BY <1>4, <4>1, FiniteSides, FiniteSidesNext
      <4>3. i <= n /\ j <= n /\ b <= a /\ a < TopCap
        BY <1>4, <1>5, <1>10, <2>1, <2>2, <4>1, <4>2
      <4>4. b + j <= TopCap + n - 1 /\ a + i <= TopCap + n - 1 + errs'
        BY <1>4, <4>2, <4>3 DEF ErrsGrow
      <4> QED
        BY <1>6, <3>1, <4>1, <4>4
    <3>2. CASE o # q
      BY <1>4, <1>6, <1>8, <3>2, OvershootOf, FiniteSides DEF ErrsGrow
    <3> QED
      BY <3>1, <3>2
  <2>4. GrantFits'
    <3> SUFFICES ASSUME NEW d \in Conn
                 PROVE  FitsIn(grant'[d], Active(ConnOrg(d))')
      BY FitsNext
    <3>1. CASE d = c
      BY <1>7, <1>10, <3>1 DEF FitsIn
    <3>2. CASE d # c
      BY <1>2, <1>7, <3>2, FitsOf
    <3> QED
      BY <3>1, <3>2
  <2> QED
    BY <2>3, <2>4
<1>11. ASSUME grant'[c].pc = "worker", grant'[c].count = "unread", errs' = errs + 1
       PROVE  GrantFits' /\ OvershootBounded'
  <2>1. Cardinality(Inserting(q)') <= Cardinality(Inserting(q)) + 1
    <3>1. Inserting(q)' \subseteq Inserting(q) \cup {c}
      BY <1>2 DEF Inserting, Conns, ConnOrg
    <3>2. /\ IsFiniteSet(Inserting(q) \cup {c})
          /\ \/ Cardinality(Inserting(q) \cup {c}) = Cardinality(Inserting(q))
             \/ Cardinality(Inserting(q) \cup {c}) = Cardinality(Inserting(q)) + 1
      BY <1>4, FiniteSides, FS_AddElement, Zenon
    <3>3. /\ Cardinality(Inserting(q)') <= Cardinality(Inserting(q) \cup {c})
          /\ Cardinality(Inserting(q)') \in Nat
          /\ Cardinality(Inserting(q)) \in Nat
      BY <1>4, <3>1, <3>2, FiniteSides, FS_Subset, FiniteSidesNext
    <3> QED
      BY <3>2, <3>3
  <2>2. Counting(q)' \subseteq Counting(q)
    BY <1>2, <1>11 DEF Counting, Inserting, Conns, ConnOrg
  <2>3. Cardinality(Counting(q)') <= Cardinality(Counting(q))
    BY <1>4, <2>2, FiniteSides, FS_Subset
  <2>4. OvershootBounded'
    <3> SUFFICES ASSUME AllPlansLimited, NEW o \in Org, Conns(o) # {}
                 PROVE  /\ Cardinality(Counted(o)') + Cardinality(Counting(o)')
                             <= TopCap + Cardinality(Conns(o)) - 1
                        /\ Cardinality(Active(o)') + Cardinality(Inserting(o)')
                             <= TopCap + Cardinality(Conns(o)) - 1 + errs'
      BY OvershootNext
    <3>1. CASE o = q
      <4>1. PICK a, b, n, i, j, i2, j2 :
              /\ a = Cardinality(Active(q)) /\ b = Cardinality(Counted(q))
              /\ n = Cardinality(Conns(q)) /\ i = Cardinality(Inserting(q))
              /\ j = Cardinality(Counting(q)) /\ i2 = Cardinality(Inserting(q)')
              /\ j2 = Cardinality(Counting(q)')
        OBVIOUS
      <4>2. /\ a \in Nat /\ b \in Nat /\ n \in Nat /\ i \in Nat /\ j \in Nat
            /\ i2 \in Nat /\ j2 \in Nat
        BY <1>4, <4>1, FiniteSides, FiniteSidesNext
      <4>3. /\ i2 <= i + 1 /\ j2 <= j
            /\ b + j <= TopCap + n - 1 /\ a + i <= TopCap + n - 1 + errs
        BY <2>1, <2>3, <3>1, <4>1, OvershootOf
      <4>4. b + j2 <= TopCap + n - 1 /\ a + i2 <= TopCap + n - 1 + errs'
        BY <1>4, <1>11, <4>2, <4>3 DEF ErrsGrow
      <4> QED
        BY <1>6, <3>1, <4>1, <4>4
    <3>2. CASE o # q
      BY <1>4, <1>6, <1>8, <3>2, OvershootOf, FiniteSides DEF ErrsGrow
    <3> QED
      BY <3>1, <3>2
  <2>5. GrantFits'
    <3> SUFFICES ASSUME NEW d \in Conn
                 PROVE  FitsIn(grant'[d], Active(ConnOrg(d))')
      BY FitsNext
    <3>1. CASE d = c
      BY <1>11, <3>1 DEF FitsIn
    <3>2. CASE d # c
      BY <1>2, <1>7, <3>2, FitsOf
    <3> QED
      BY <3>1, <3>2
  <2> QED
    BY <2>4, <2>5
<1>12. ASSUME NEW n \in Nat, ~AtCap(c, n), n = ActiveLeaseCount(c)
       PROVE  k >= 0 => Cardinality(Active(q)) < k
  BY <1>4, <1>12 DEF AtCap, ActiveLeaseCount
<1>13. ActiveLeaseCount(c) \in Nat
  BY <1>4, FiniteSides DEF ActiveLeaseCount
<1>14. IdleGrant.pc = "idle"
  BY DEF IdleGrant
<1>15. CASE GrantCount(c)
  <2>1. grant'[c] = IdleGrant \/ ( /\ grant'[c] = [grant[c] EXCEPT !.pc = "worker"]
                                   /\ ~AtCap(c, ActiveLeaseCount(c)))
    BY <1>15 DEF GrantCount, TypeOK
  <2>2. CASE grant'[c] = IdleGrant
    BY <1>9, <1>14, <2>2
  <2>3. CASE grant'[c] = [grant[c] EXCEPT !.pc = "worker"]
             /\ ~AtCap(c, ActiveLeaseCount(c))
    BY <1>3, <1>10, <1>12, <1>13, <2>3 DEF GrantState
  <2> QED
    BY <2>1, <2>2, <2>3
<1>16. CASE GrantCountMisread(c)
  <2>1. PICK n \in {0, ActiveLeaseCount(c)} :
          grant' = [grant EXCEPT ![c] =
                      IF AtCap(c, n) THEN IdleGrant
                      ELSE [@ EXCEPT !.pc = "worker",
                        !.count = IF n = ActiveLeaseCount(c) THEN "read"
                                                             ELSE "unread"]]
    BY <1>16 DEF GrantCountMisread
  <2>2. errs' = errs + 1 /\ n \in Nat
    BY <1>13, <1>16, <2>1 DEF GrantCountMisread, Fails
  <2>3. \/ grant'[c] = IdleGrant
        \/ /\ ~AtCap(c, n)
           /\ grant'[c] = [grant[c] EXCEPT !.pc = "worker",
                !.count = IF n = ActiveLeaseCount(c) THEN "read" ELSE "unread"]
    BY <2>1 DEF TypeOK
  <2>4. CASE grant'[c] = IdleGrant
    BY <1>9, <1>14, <2>4
  <2>5. CASE /\ ~AtCap(c, n) /\ n = ActiveLeaseCount(c)
             /\ grant'[c] = [grant[c] EXCEPT !.pc = "worker", !.count = "read"]
    BY <1>3, <1>10, <1>12, <2>2, <2>5 DEF GrantState
  <2>6. CASE grant'[c] = [grant[c] EXCEPT !.pc = "worker", !.count = "unread"]
    BY <1>3, <1>11, <2>2, <2>6 DEF GrantState
  <2> QED
    BY <2>3, <2>4, <2>5, <2>6
<1> QED
  BY <1>15, <1>16

\* The lease that is inserted was already accounted for by its handler; the
\* handlers it overtakes no longer go by their counts.
LEMMA InsertLeaseCap ==
  ASSUME TypeOK, RowsKept, GrantFits, OvershootBounded, ErrsGrow,
         NEW c \in Conn, InsertLease(c)
  PROVE  /\ GrantFits' /\ OvershootBounded'
         /\ (grant[c].count = "read" /\ grant[c].capW >= 0)
              => Cardinality(Active(ConnOrg(c)))' <= grant[c].capW
<1> DEFINE q == ConnOrg(c)
           s == grant[c].slot
<1>1. /\ q \in Org /\ s \in Slot /\ lease[s].st = "none" /\ grant[c].pc = "lease"
      /\ TopCap \in Nat /\ grant[c].capW \in Nat \cup {-1}
  BY ConnOrgType, ConstAssumption
  DEF InsertLease, RowsKept, GrantsOwnSlots, TypeOK, GrantState
<1>2. /\ lease'[s].st = "active" /\ lease'[s].org = q
      /\ \A t \in Slot \ {s} : lease'[t] = lease[t]
  BY <1>1 DEF InsertLease, TypeOK
<1>3. /\ grant'[c].pc = "usage" /\ grant'[c].slot = grant[c].slot
      /\ \A d \in Conn \ {c} :
           /\ grant'[d].pc = grant[d].pc /\ grant'[d].capW = grant[d].capW
           /\ grant'[d].count = IF Overtakes(c, d) THEN "raced" ELSE grant[d].count
  BY InsertLeaseGrant
<1>4. /\ uncounted' = IF grant[c].count = "unread" THEN uncounted \cup {s}
                                                   ELSE uncounted
      /\ errs' = errs
  BY DEF InsertLease
<1>5. c \in Conns(q) /\ \A o \in Org \ {q} : c \notin Conns(o)
  BY DEF Conns
<1>6. \A d \in Conn \ {c} : (grant'[d].count = "unread") <=> (grant[d].count = "unread")
  BY <1>3 DEF Overtakes
<1>7. \A d \in Conn : ConnOrg(d)' = ConnOrg(d) /\ ConnOrg(d) \in Org
  BY ConnOrgType DEF ConnOrg
<1> HIDE DEF q, s
<1>8. ASSUME NEW o \in Org \ {q}
      PROVE  /\ Active(o)' = Active(o) /\ Inserting(o)' = Inserting(o)
             /\ Counted(o)' = Counted(o) /\ Counting(o)' = Counting(o)
  <2>1. Active(o)' = Active(o)
    BY <1>1, <1>2 DEF Active, ActiveSlots
  <2>2. Inserting(o)' = Inserting(o)
    BY <1>3, <1>5 DEF Inserting, Conns
  <2>3. Counted(o)' = Counted(o)
    <3>1. s \notin Active(o)
      BY <1>1 DEF Active, ActiveSlots
    <3> QED
      BY <1>4, <2>1, <3>1 DEF Counted
  <2>4. Counting(o)' = Counting(o)
    BY <1>5, <1>6, <2>2 DEF Counting, Inserting, Conns
  <2> QED
    BY <2>1, <2>2, <2>3, <2>4
<1>9. Active(q)' = Active(q) \cup {s} /\ s \notin Active(q)
  BY <1>1, <1>2 DEF Active, ActiveSlots
<1>10. Cardinality(Active(q)') = Cardinality(Active(q)) + 1
  BY <1>1, <1>9, FiniteSides, FS_AddElement
<1>11. Inserting(q)' = Inserting(q) \ {c} /\ c \in Inserting(q)
  BY <1>1, <1>3, <1>5 DEF Inserting, Conns, ConnOrg
<1>12. Cardinality(Inserting(q)') = Cardinality(Inserting(q)) - 1
  BY <1>1, <1>11, FiniteSides, FS_RemoveElement
<1>13. Cardinality(Counted(q)') + Cardinality(Counting(q)')
         <= Cardinality(Counted(q)) + Cardinality(Counting(q))
  <2>1. CASE grant[c].count = "unread"
    <3>1. Counted(q)' \subseteq Counted(q)
      BY <1>4, <1>9, <2>1 DEF Counted
    <3>2. Counting(q)' \subseteq Counting(q)
      BY <1>1, <1>6, <1>11, CountingIs
    <3>3. /\ Cardinality(Counted(q)') <= Cardinality(Counted(q))
          /\ Cardinality(Counting(q)') <= Cardinality(Counting(q))
      BY <1>1, <3>1, <3>2, FiniteSides, FS_Subset
    <3> QED
      BY <1>1, <3>3, FiniteSides, FiniteSidesNext
  <2>2. CASE grant[c].count # "unread"
    <3>1. Counted(q)' \subseteq Counted(q) \cup {s} /\ s \notin Counted(q)
      BY <1>4, <1>9, <2>2 DEF Counted
    <3>2. Counting(q)' = Counting(q) \ {c} /\ c \in Counting(q)
      BY <1>1, <1>6, <1>11, <2>2, CountingIs
    <3>3. /\ IsFiniteSet(Counted(q) \cup {s})
          /\ Cardinality(Counted(q) \cup {s}) = Cardinality(Counted(q)) + 1
      BY <1>1, <3>1, FiniteSides, FS_AddElement
    <3>4. Cardinality(Counted(q)') <= Cardinality(Counted(q)) + 1
      BY <3>1, <3>3, FS_Subset
    <3>5. Cardinality(Counting(q)') = Cardinality(Counting(q)) - 1
      BY <1>1, <3>2, FiniteSides, FS_RemoveElement
    <3> QED
      BY <1>1, <3>4, <3>5, FiniteSides, FiniteSidesNext
  <2> QED
    BY <2>1, <2>2
<1>14. OvershootBounded'
  <2> SUFFICES ASSUME AllPlansLimited, NEW o \in Org, Conns(o) # {}
               PROVE  /\ Cardinality(Counted(o)') + Cardinality(Counting(o)')
                           <= TopCap + Cardinality(Conns(o)) - 1
                      /\ Cardinality(Active(o)') + Cardinality(Inserting(o)')
                           <= TopCap + Cardinality(Conns(o)) - 1 + errs'
    BY OvershootNext
  <2>1. CASE o = q
    <3>1. PICK a, b, n, i, j, a2, b2, i2, j2 :
            /\ a = Cardinality(Active(q)) /\ b = Cardinality(Counted(q))
            /\ n = Cardinality(Conns(q)) /\ i = Cardinality(Inserting(q))
            /\ j = Cardinality(Counting(q)) /\ a2 = Cardinality(Active(q)')
            /\ b2 = Cardinality(Counted(q)') /\ i2 = Cardinality(Inserting(q)')
            /\ j2 = Cardinality(Counting(q)')
      OBVIOUS
    <3>2. /\ a \in Nat /\ b \in Nat /\ n \in Nat /\ i \in Nat /\ j \in Nat
          /\ b2 \in Nat /\ j2 \in Nat
      BY <1>1, <3>1, FiniteSides, FiniteSidesNext
    <3>3. /\ a2 = a + 1 /\ i2 = i - 1 /\ b2 + j2 <= b + j
          /\ b + j <= TopCap + n - 1 /\ a + i <= TopCap + n - 1 + errs
      BY <1>10, <1>12, <1>13, <2>1, <3>1, OvershootOf
    <3>4. b2 + j2 <= TopCap + n - 1 /\ a2 + i2 <= TopCap + n - 1 + errs'
      BY <1>1, <1>4, <3>2, <3>3 DEF ErrsGrow
    <3> QED
      BY <2>1, <3>1, <3>4
  <2>2. CASE o # q
    BY <1>4, <1>8, <2>2, OvershootOf
  <2> QED
    BY <2>1, <2>2
<1>15. GrantFits'
  <2> SUFFICES ASSUME NEW d \in Conn
               PROVE  FitsIn(grant'[d], Active(ConnOrg(d))')
    BY FitsNext
  <2>1. CASE d = c
    BY <1>3, <2>1 DEF FitsIn
  <2>2. CASE d # c /\ ConnOrg(d) = q
    <3>1. grant'[d].pc \in {"worker", "lease"} => grant'[d].count # "read"
      BY <1>3, <2>2 DEF Overtakes, q
    <3> QED
      BY <1>3, <2>2, <3>1, FitsOf DEF FitsIn
  <2>3. CASE d # c /\ ConnOrg(d) # q
    <3>1. PICK o \in Org \ {q} : o = ConnOrg(d)
      BY <1>7, <2>3
    <3>2. Active(ConnOrg(d))' = Active(ConnOrg(d))
      BY <1>8, <3>1 DEF ConnOrg
    <3>3. ~Overtakes(c, d)
      BY <2>3 DEF Overtakes, q
    <3> QED
      BY <1>3, <2>3, <3>2, <3>3, FitsOf DEF FitsIn
  <2> QED
    BY <2>1, <2>2, <2>3
<1>16. ASSUME grant[c].count = "read", grant[c].capW >= 0
       PROVE  Cardinality(Active(ConnOrg(c)))' <= grant[c].capW
  <2>1. Cardinality(Active(ConnOrg(c))) < grant[c].capW
    BY <1>1, <1>16, FitsOf DEF FitsIn
  <2>2. Cardinality(Active(ConnOrg(c)))' = Cardinality(Active(q)')
    BY DEF q, ConnOrg
  <2>3. Cardinality(Active(ConnOrg(c))) = Cardinality(Active(q))
    BY DEF q
  <2> QED
    BY <1>1, <1>10, <2>1, <2>2, <2>3, FiniteSides
<1> QED
  BY <1>14, <1>15, <1>16

LEMMA NextCap ==
  ASSUME TypeOK, RowsKept, GrantFits, OvershootBounded, [Next]_vars
  PROVE  GrantFits' /\ OvershootBounded'
<1> USE DEF envVars, dbVars, failVars
<1>0. ErrsGrow
  BY NextType, FaultsGrow DEF ErrsGrow, TypeOK
<1>1. CASE lease' = lease /\ grant' = grant /\ uncounted' = uncounted
  BY <1>0, <1>1, ShrinkingCap
<1>2. ASSUME NEW c \in Conn, OpenStream(c) \/ CloseStream(c) \/ GrantFails(c)
      PROVE  GrantFits' /\ OvershootBounded'
  <2>1. /\ lease' = lease /\ uncounted' = uncounted
        /\ \A d \in Conn : grant'[d] = grant[d] \/ grant'[d].pc = "idle"
    BY <1>2 DEF OpenStream, CloseStream, GrantFails, IdleGrant, TypeOK
  <2> QED
    BY <1>0, <2>1, ShrinkingCap
<1>3. ASSUME NEW c \in Conn, InsertWorker(c) \/ RecordIssued(c)
      PROVE  GrantFits' /\ OvershootBounded'
  <2>1. /\ lease' = lease /\ uncounted' = uncounted
        /\ \A d \in Conn \ {c} : grant'[d] = grant[d]
    BY <1>3 DEF InsertWorker, RecordIssued, TypeOK
  <2>2. \/ grant'[c].pc = "idle"
        \/ /\ grant[c].pc = "worker" /\ grant'[c].pc = "lease"
           /\ grant'[c].capW = grant[c].capW /\ grant'[c].count = grant[c].count
    <3>1. CASE InsertWorker(c)
      <4>1. grant[c] \in GrantState
        BY DEF TypeOK
      <4>2. PICK s \in Slot :
              grant' = [grant EXCEPT ![c] =
                          [@ EXCEPT !.pc = "lease", !.slot = s]]
        BY <3>1 DEF InsertWorker
      <4> QED
        BY <3>1, <4>1, <4>2 DEF InsertWorker, TypeOK, GrantState
    <3>2. CASE RecordIssued(c)
      BY <3>2 DEF RecordIssued, TypeOK, IdleGrant
    <3> QED
      BY <1>3, <3>1, <3>2
  <2> QED
    BY <1>0, <2>1, <2>2, ShrinkingCap
<1>4. CASE ReaperStep
  <2>1. grant' = grant /\ uncounted' = uncounted
    BY <1>4 DEF ReaperStep, ReapSnapshot, ReapTake, ReapTakeUncharged, TakesNext,
       ReapCheck, ReapCheckMisread, EndLease, ParkWorker, RevokeTears, NextLease,
       RecordEnded, RecordEndedFails, ReapDone, ReaperVarsOnly
  <2>2. \A s \in Slot : lease'[s].st = "active" =>
           lease[s].st = "active" /\ lease'[s].org = lease[s].org
    <3>1. CASE ReapCheck \/ ReapCheckMisread
      BY <3>1, ReapCheckFinds
    <3>2. CASE EndLease
      BY <3>2 DEF EndLease, TypeOK, LeaseRow
    <3>3. CASE lease' = lease
      BY <3>3
    <3> QED
      BY <1>4, <3>1, <3>2, <3>3
      DEF ReaperStep, ReapSnapshot, ReapTake, ReapTakeUncharged, TakesNext,
          ParkWorker, RevokeTears, NextLease, RecordEnded, RecordEndedFails,
          ReapDone
  <2> QED
    BY <1>0, <2>1, <2>2, ShrinkingCap
<1>5. ASSUME NEW s \in Slot, TtlElapses(s) PROVE GrantFits' /\ OvershootBounded'
  <2>1. grant' = grant /\ uncounted' = uncounted
    BY <1>5 DEF TtlElapses
  <2>2. \A t \in Slot : lease'[t].st = "active" =>
           lease[t].st = "active" /\ lease'[t].org = lease[t].org
    BY <1>5 DEF TtlElapses, TypeOK, LeaseRow
  <2> QED
    BY <1>0, <2>1, <2>2, ShrinkingCap
<1>6. CASE Crash
  <2>1. /\ lease' = lease /\ uncounted' = uncounted
        /\ \A d \in Conn : grant'[d].pc = "idle"
    BY <1>6 DEF Crash, IdleGrant
  <2> QED
    BY <1>0, <2>1, ShrinkingCap
<1>7. CASE (\E o \in Org : ChangePlan(o) \/ UpdatePool(o))
           \/ (\E d \in Device : RevokeDevice(d)) \/ WeekRolls
  BY <1>7, <1>1 DEF ChangePlan, UpdatePool, RevokeDevice, WeekRolls
<1>8. CASE UNCHANGED vars
  BY <1>8, <1>1 DEF vars
<1>9. ASSUME NEW c \in Conn, GrantCount(c) \/ GrantCountMisread(c)
      PROVE  GrantFits' /\ OvershootBounded'
  <2>1. errs' \in {errs, errs + 1}
    BY <1>9 DEF GrantCount, GrantCountMisread, Fails
  <2> QED
    BY <1>0, <1>9, <2>1, GrantCountCap
<1>10. ASSUME NEW c \in Conn, GrantStep(c) PROVE GrantFits' /\ OvershootBounded'
  BY <1>0, <1>2, <1>3, <1>9, <1>10, GrantBeginCap, InsertLeaseCap DEF GrantStep
<1> QED
  BY <1>2, <1>4, <1>5, <1>6, <1>7, <1>8, <1>10 DEF Next, Environment

LEMMA InitCap == Init => GrantFits /\ OvershootBounded
<1> SUFFICES ASSUME Init PROVE GrantFits /\ OvershootBounded
  OBVIOUS
<1>1. GrantFits
  BY DEF Init, GrantFits, IdleGrant
<1>2. \A o \in Org : /\ Active(o) = {} /\ Inserting(o) = {}
                     /\ Active(o) \ uncounted = {}
                     /\ {c \in Inserting(o) : grant[c].count # "unread"} = {}
  BY DEF Init, NoLease, IdleGrant, Active, ActiveSlots, Inserting, Conns
<1>3. \A o \in Org : Conns(o) # {} => Cardinality(Conns(o)) >= 1
  BY FiniteSides, FS_EmptySet
<1>4. TopCap \in Nat /\ errs = 0
  BY ConstAssumption DEF Init
<1>5. \A o \in Org : Cardinality(Conns(o)) \in Nat
  BY FiniteSides
<1>6. OvershootBounded
  BY <1>2, <1>3, <1>4, <1>5, FS_EmptySet DEF OvershootBounded
<1> QED
  BY <1>1, <1>6

\* The invariant of the cap, with what it rests on.
CapInv == TypeOK /\ Bookkeeping /\ GrantFits /\ OvershootBounded

LEMMA CapInvariant == Spec => []CapInv
<1>1. Init => CapInv
  BY InitType, InitBookkeeping, InitCap DEF CapInv
<1>2. CapInv /\ [Next]_vars => CapInv'
  BY NextType, NextBookkeeping, NextCap DEF CapInv, Bookkeeping
<1> QED
  BY <1>1, <1>2, PTL DEF Spec

\* The cap can be exceeded (the count and the insert are separate statements and
\* a count that fails refuses nothing): among the leases that were counted by at
\* most one for each other stream of the org, in all by one more for each
\* statement that failed.
THEOREM LeaseOvershootBounded == Spec => []OvershootBounded
<1>1. CapInv => OvershootBounded
  BY DEF CapInv
<1> QED
  BY <1>1, CapInvariant, PTL

\* A lease goes over the cap its grant read only where the count failed or
\* another handler inserted its lease between the count and the insert.
THEOREM LeaseGrantWithinCap == Spec => GrantWithinCap
<1> DEFINE P == \A c \in Conn :
                  (InsertLease(c) /\ grant[c].count = "read" /\ grant[c].capW >= 0)
                    => Cardinality(Active(ConnOrg(c)))' <= grant[c].capW
<1>1. CapInv /\ [Next]_vars => [P]_vars
  <2> SUFFICES ASSUME CapInv, [Next]_vars PROVE P
    OBVIOUS
  <2>1. ErrsGrow
    BY NextType, FaultsGrow DEF ErrsGrow, TypeOK, CapInv
  <2> QED
    BY <2>1, InsertLeaseCap DEF CapInv, Bookkeeping
<1> QED
  BY <1>1, CapInvariant, PTL DEF Spec, GrantWithinCap

\* Between its count and its insert a handler that read the count, and that no
\* other has overtaken, still has room for its lease under the cap it read.
THEOREM LeaseGrantFits == Spec => []GrantFits
<1>1. CapInv => GrantFits
  BY DEF CapInv
<1> QED
  BY <1>1, CapInvariant, PTL

-----------------------------------------------------------------------------
(* The lease manager implements LeaseLife. *)

LEMMA InitLife == Init => Life!LifeInit
<1> SUFFICES ASSUME Init PROVE Life!LifeInit
  OBVIOUS
<1>1. \A s \in Slot : StageOf(s) = "free"
  BY DEF Init, NoLease, StageOf
<1>2. \A s \in Slot : lease[s].org \in Org /\ lease[s].why = "none"
  BY ConstAssumption DEF Init, NoLease
<1>3. \A s \in Slot : ~(ledger[s].issued > 0)
  BY DEF Init
<1>4. uncounted = {}
  BY DEF Init
<1> QED
  BY <1>1, <1>2, <1>3, <1>4 DEF Life!LifeInit

\* A step that writes none of what LeaseLife sees.
LEMMA LifeStutters ==
  ASSUME uncounted' = uncounted,
         \A s \in Slot : /\ StageOf(s)' = StageOf(s)
                         /\ lease'[s].org = lease[s].org
                         /\ lease'[s].why = lease[s].why
                         /\ ledger'[s].issued = ledger[s].issued
  PROVE  Life!LifeNext
BY DEF Life!LifeNext, Life!lifeVars

LEMMA LifeMoves ==
  ASSUME NEW g \in Slot, NEW from, NEW to,
         StageOf(g) = from, StageOf(g)' = to,
         \A t \in Slot \ {g} : StageOf(t)' = StageOf(t)
  PROVE  Life!Moves(g, from, to)
BY DEF Life!Moves

\* LeaseLife counts with the Cardinality of its own FiniteSets.
LEMMA SameCardinality == \A S : Life!Cardinality(S) = Cardinality(S)
BY DEF Cardinality, Life!Cardinality

LEMMA InsertWorkerLife ==
  ASSUME TypeOK, RowsKept, NEW c \in Conn, InsertWorker(c)
  PROVE  Life!LifeNext
<1>1. PICK s \in Slot : worker[s] = "none" /\ worker' = [worker EXCEPT ![s] = "running"]
  BY DEF InsertWorker
<1>2. UNCHANGED <<lease, ledger, uncounted, torn>>
  BY DEF InsertWorker, failVars
<1>3. lease[s].st = "none"
  BY <1>1 DEF RowsKept, RowsAgree
<1>4. StageOf(s) = "free" /\ StageOf(s)' = "started"
  BY <1>1, <1>2, <1>3 DEF StageOf, TypeOK
<1>5. \A t \in Slot \ {s} : StageOf(t)' = StageOf(t)
  BY <1>1, <1>2 DEF StageOf, TypeOK
<1>6. Life!Start(s)
  BY <1>2, <1>4, <1>5, LifeMoves DEF Life!Start
<1> QED
  BY <1>6 DEF Life!LifeNext, Life!Advance

LEMMA RecordIssuedLife ==
  ASSUME TypeOK, RowsKept, NEW c \in Conn, RecordIssued(c)
  PROVE  Life!LifeNext
<1>1. PICK g \in Slot : /\ g = grant[c].slot /\ lease[g].st # "none"
                       /\ ledger[g].issued = 0
  BY DEF RecordIssued, RowsKept, GrantsOwnSlots
<1>2. UNCHANGED <<worker, lease, uncounted, torn>>
  BY DEF RecordIssued, failVars
<1>3. /\ ledger'[g].issued = 1 /\ ledger'[g].ended = ledger[g].ended
      /\ \A t \in Slot \ {g} : ledger'[t] = ledger[t]
  BY <1>1 DEF RecordIssued, TypeOK
<1>4. \A t \in Slot : StageOf(t)' = StageOf(t)
  BY <1>2, <1>3 DEF StageOf
<1>5. StageOf(g) \notin {"free", "started"}
  BY <1>1 DEF StageOf, TypeOK, LeaseRow
<1>6. /\ g \notin {s \in Slot : ledger[s].issued > 0}
      /\ {s \in Slot : ledger[s].issued > 0}'
           = {s \in Slot : ledger[s].issued > 0} \cup {g}
  BY <1>1, <1>3
<1>7. Life!Bill(g)
  BY <1>1, <1>2, <1>4, <1>5, <1>6 DEF Life!Bill
<1> QED
  BY <1>1, <1>7 DEF Life!LifeNext, Life!Advance

\* tryGrant's insert of a counted lease stays below the quota: the counted leases
\* of the org and the handlers about to insert one together do not exceed it.
LEMMA InsertLeaseLife ==
  ASSUME TypeOK, RowsKept, OvershootBounded, NEW c \in Conn, InsertLease(c)
  PROVE  Life!LifeNext
<1>0. PICK g \in Slot : g = grant[c].slot
  BY DEF InsertLease, RowsKept, GrantsOwnSlots
<1> DEFINE o == ConnOrg(c)
<1>1. /\ o \in Org /\ worker[g] = "running"
      /\ lease[g].st = "none" /\ grant[c].pc = "lease"
  BY <1>0, ConnOrgType DEF InsertLease, RowsKept, GrantsOwnSlots
<1>2. UNCHANGED <<worker, ledger, torn>>
  BY DEF InsertLease
<1>3. /\ lease'[g].st = "active" /\ lease'[g].org = o /\ lease'[g].why = "none"
      /\ \A t \in Slot \ {g} : lease'[t] = lease[t]
  BY <1>0, <1>1 DEF InsertLease, TypeOK
<1>4. lease[g].why = "none"
  BY <1>1 DEF RowsKept, RowsAgree
<1>5. c \in Inserting(o)
  BY <1>1 DEF Inserting, Conns
<1>12. uncounted' = IF grant[c].count = "unread" THEN uncounted \cup {g}
                                                 ELSE uncounted
  BY <1>0 DEF InsertLease
<1> HIDE DEF o
<1>6. StageOf(g) = "started" /\ StageOf(g)' = "held"
  BY <1>1, <1>2, <1>3 DEF StageOf
<1>7. \A t \in Slot \ {g} : StageOf(t)' = StageOf(t)
  BY <1>2, <1>3 DEF StageOf
<1>10. [s \in Slot |-> lease[s].org]'
         = [[s \in Slot |-> lease[s].org] EXCEPT ![g] = o]
  BY <1>1, <1>3
<1>11. /\ [s \in Slot |-> lease[s].why]' = [s \in Slot |-> lease[s].why]
       /\ {s \in Slot : ledger[s].issued > 0}'
            = {s \in Slot : ledger[s].issued > 0}
  BY <1>2, <1>3, <1>4
<1>13. CASE grant[c].count = "unread"
  <2>1. Life!HoldUncounted(g, o)
    BY <1>1, <1>6, <1>7, <1>10, <1>11, <1>12, <1>13, LifeMoves
    DEF Life!HoldUncounted
  <2> QED
    BY <1>1, <2>1 DEF Life!LifeNext, Life!Advance
<1>14. CASE grant[c].count # "unread"
  <2>1. Cardinality(Active(o) \ uncounted) < QuotaOf(o)
    <3>1. CASE AllPlansLimited
      <4>1. Conns(o) # {} /\ c \in Counting(o)
        BY <1>1, <1>5, <1>14, CountingIs DEF Inserting
      <4>2. Cardinality(Counted(o)) + Cardinality(Counting(o))
              <= TopCap + Cardinality(Conns(o)) - 1
        BY <1>1, <3>1, <4>1, OvershootOf
      <4>3. Cardinality(Counting(o)) # 0
        BY <1>1, <4>1, FiniteSides, FS_EmptySet
      <4>4. TopCap \in Nat
        BY ConstAssumption
      <4>5. Cardinality(Counted(o)) < TopCap + Cardinality(Conns(o)) - 1
        BY <1>1, <4>2, <4>3, <4>4, FiniteSides
      <4> QED
        BY <3>1, <4>5 DEF QuotaOf, Counted
    <3>2. CASE ~AllPlansLimited
      <4>1. Counted(o) \subseteq Slot /\ g \in Slot /\ g \notin Counted(o)
        BY <1>1 DEF Counted, Active, ActiveSlots
      <4>2. IsFiniteSet(Slot)
        BY ConstAssumption
      <4>3. Cardinality(Counted(o)) < Cardinality(Slot)
        BY <4>1, <4>2, FS_Subset, FiniteSides, <1>1, FS_CardinalityType
      <4> QED
        BY <3>2, <4>3 DEF QuotaOf, Counted
    <3> QED
      BY <3>1, <3>2
  <2>2. Life!Held(o) = Active(o)
    <3>1. \A s \in Slot : StageOf(s) = "held" <=> lease[s].st = "active"
      BY DEF StageOf, TypeOK, LeaseRow, RowsKept, ActiveMeansRunning
    <3> QED
      BY <3>1 DEF Life!Held, Active, ActiveSlots
  <2>3. uncounted' = uncounted
    BY <1>12, <1>14
  <2>4. Life!Hold(g, o)
    BY <1>1, <1>6, <1>7, <1>10, <1>11, <2>1, <2>2, <2>3, LifeMoves,
       SameCardinality DEF Life!Hold
  <2> QED
    BY <1>1, <2>4 DEF Life!LifeNext, Life!Advance
<1> QED
  BY <1>13, <1>14

\* A revoke that tears leaves its slot in the stage it was in: what its worker
\* does no longer counts.
LEMMA TearStutters ==
  ASSUME TypeOK, RowsKept, reaper.pc \in {"end", "worker"},
         torn' = torn \cup {reaper.cur},
         UNCHANGED <<worker, lease, ledger, uncounted>>
  PROVE  Life!LifeNext
<1>1. PICK g \in Slot : g = reaper.cur
  BY DEF RowsKept, ReaperHoldsLive
<1>2. /\ lease[g].st \in {"active", "ended"}
      /\ worker[g] = "running" \/ g \in torn
  BY <1>1 DEF RowsKept, ReaperHoldsLive, ActiveMeansRunning, TypeOK, LeaseRow
<1>3. StageOf(g)' = StageOf(g)
  BY <1>1, <1>2 DEF StageOf
<1>4. \A t \in Slot \ {g} : StageOf(t)' = StageOf(t)
  BY <1>1 DEF StageOf
<1> QED
  BY <1>3, <1>4, LifeStutters

\* The reaper: a renewal is nothing to LeaseLife, and revoke is its three steps.
LEMMA ReaperLife ==
  ASSUME TypeOK, RowsKept, ReaperStep
  PROVE  Life!LifeNext
<1>0. uncounted' = uncounted
  BY DEF ReaperStep, ReapSnapshot, ReapTake, ReapTakeUncharged, TakesNext,
     ReapCheck, ReapCheckMisread, EndLease, ParkWorker, RevokeTears, NextLease,
     RecordEnded, RecordEndedFails, ReapDone, ReaperVarsOnly
<1>1. CASE UNCHANGED <<worker, lease, ledger, torn>>
  BY <1>0, <1>1, LifeStutters DEF StageOf
<1>2. CASE ReapCheck \/ ReapCheckMisread
  <2>1. UNCHANGED <<worker, ledger, torn>>
    BY <1>2, ReapCheckFinds
  <2>2. \A s \in Slot : /\ lease'[s].st = lease[s].st
                        /\ lease'[s].org = lease[s].org
                        /\ lease'[s].why = lease[s].why
    BY <1>2, ReapCheckFinds
  <2>3. \A s \in Slot : StageOf(s)' = StageOf(s)
    BY <2>1, <2>2 DEF StageOf
  <2> QED
    BY <1>0, <2>1, <2>2, <2>3, LifeStutters
<1>3. CASE EndLease
  <2>1. PICK g \in Slot, w \in Reason :
          /\ g = reaper.cur /\ w = reaper.why
          /\ lease[g].st = "active" /\ (worker[g] = "running" \/ g \in torn)
    BY <1>3 DEF EndLease, RowsKept, ReaperHoldsLive, ActiveMeansRunning
  <2>2. UNCHANGED <<worker, ledger, torn>>
    BY <1>3 DEF EndLease
  <2>3. /\ lease'[g].st = "ended" /\ lease'[g].why = w
        /\ lease'[g].org = lease[g].org
        /\ \A t \in Slot \ {g} : lease'[t] = lease[t]
    BY <1>3, <2>1 DEF EndLease, TypeOK, LeaseRow
  <2>4. StageOf(g) = "held" /\ StageOf(g)' = "revoked"
    BY <2>1, <2>2, <2>3 DEF StageOf
  <2>5. \A t \in Slot \ {g} : StageOf(t)' = StageOf(t)
    BY <2>2, <2>3 DEF StageOf
  <2>6. /\ [s \in Slot |-> lease[s].why]'
             = [[s \in Slot |-> lease[s].why] EXCEPT ![g] = w]
        /\ [s \in Slot |-> lease[s].org]' = [s \in Slot |-> lease[s].org]
    BY <2>1, <2>3
  <2>7. Life!Revoke(g, w)
    BY <1>0, <2>1, <2>2, <2>4, <2>5, <2>6, LifeMoves DEF Life!Revoke
  <2> QED
    BY <2>1, <2>7 DEF Life!LifeNext, Life!Advance
<1>4. CASE ParkWorker
  <2>1. PICK g \in Slot : g = reaper.cur
    BY <1>4 DEF ParkWorker, RowsKept, ReaperHoldsLive
  <2>2. UNCHANGED <<lease, ledger, torn>>
    BY <1>4 DEF ParkWorker
  <2>3. /\ worker'[g] \in {"paused", "stopped"}
        /\ \A t \in Slot \ {g} : worker'[t] = worker[t]
    BY <1>4, <2>1 DEF ParkWorker, TypeOK
  <2>4. \A t \in Slot \ {g} : StageOf(t)' = StageOf(t)
    BY <2>2, <2>3 DEF StageOf
  <2>5. CASE g \in torn
    <3>1. lease[g].st \in {"active", "ended"}
      BY <1>4, <2>1 DEF ParkWorker, RowsKept, ReaperHoldsLive, TypeOK, LeaseRow
    <3>2. StageOf(g)' = StageOf(g)
      BY <2>2, <2>5, <3>1 DEF StageOf
    <3> QED
      BY <1>0, <2>2, <2>4, <3>2, LifeStutters
  <2>6. CASE g \notin torn
    <3>1. lease[g].st = "ended" /\ worker[g] = "running" /\ ledger[g].ended = 0
      BY <1>4, <2>1, <2>6 DEF ParkWorker, RowsKept, ReaperHoldsLive
    <3>2. StageOf(g) = "revoked" /\ StageOf(g)' = "parked"
      BY <2>2, <2>3, <2>6, <3>1 DEF StageOf
    <3>3. Life!Park(g)
      BY <1>0, <2>1, <2>2, <2>4, <3>2, LifeMoves DEF Life!Park
    <3> QED
      BY <2>1, <3>3 DEF Life!LifeNext, Life!Advance
  <2> QED
    BY <2>5, <2>6
<1>5. CASE RecordEnded
  <2>1. PICK g \in Slot : g = reaper.cur /\ lease[g].st # "none"
    BY <1>5 DEF RecordEnded, NextLease, RowsKept, ReaperHoldsLive
  <2>2. UNCHANGED <<lease, worker, torn>>
    BY <1>5 DEF RecordEnded, NextLease
  <2>3. /\ ledger'[g].ended = ledger[g].ended + 1
        /\ ledger'[g].issued = ledger[g].issued
        /\ \A t \in Slot \ {g} : ledger'[t] = ledger[t]
    BY <1>5, <2>1 DEF RecordEnded, TypeOK
  <2>4. \A t \in Slot \ {g} : StageOf(t)' = StageOf(t)
    BY <2>2, <2>3 DEF StageOf
  <2>5. CASE g \in torn
    <3>1. StageOf(g)' = StageOf(g)
      BY <2>1, <2>2, <2>5 DEF StageOf, TypeOK, LeaseRow
    <3> QED
      BY <1>0, <2>2, <2>3, <2>4, <3>1, LifeStutters
  <2>6. CASE g \notin torn
    <3>1. /\ lease[g].st = "ended" /\ ledger[g].ended = 0
          /\ worker[g] \in {"paused", "stopped"}
      BY <1>5, <2>1, <2>6 DEF RecordEnded, NextLease, RowsKept, ReaperHoldsLive
    <3>2. StageOf(g) = "parked" /\ StageOf(g)' = "closed"
      BY <2>2, <2>3, <2>6, <3>1 DEF StageOf
    <3>3. {s \in Slot : ledger[s].issued > 0}'
            = {s \in Slot : ledger[s].issued > 0}
      BY <2>3
    <3>4. Life!Close(g)
      BY <1>0, <2>1, <2>2, <2>4, <3>2, <3>3, LifeMoves DEF Life!Close
    <3> QED
      BY <2>1, <3>4 DEF Life!LifeNext, Life!Advance
  <2> QED
    BY <2>5, <2>6
<1>6. CASE RevokeTears
  BY <1>0, <1>6, TearStutters DEF RevokeTears, dbVars
<1> QED
  BY <1>1, <1>2, <1>3, <1>4, <1>5, <1>6
  DEF ReaperStep, ReapSnapshot, ReapTake, ReapTakeUncharged, TakesNext,
      NextLease, RecordEndedFails, ReapDone, dbVars

LEMMA NextLife ==
  ASSUME TypeOK, RowsKept, OvershootBounded, [Next]_vars
  PROVE  Life!LifeNext
<1> USE DEF dbVars, failVars
<1>1. CASE UNCHANGED <<worker, lease, ledger, uncounted, torn>>
  BY <1>1, LifeStutters DEF StageOf
<1>2. ASSUME NEW s \in Slot, TtlElapses(s) PROVE Life!LifeNext
  <2>1. \A t \in Slot : /\ lease'[t].st = lease[t].st
                        /\ lease'[t].org = lease[t].org
                        /\ lease'[t].why = lease[t].why
    BY <1>2 DEF TtlElapses, TypeOK, LeaseRow
  <2>2. UNCHANGED <<worker, ledger, uncounted, torn>>
    BY <1>2 DEF TtlElapses
  <2>3. \A t \in Slot : StageOf(t)' = StageOf(t)
    BY <2>1, <2>2 DEF StageOf
  <2> QED
    BY <2>1, <2>2, <2>3, LifeStutters
<1>3. ASSUME NEW c \in Conn,
             \/ OpenStream(c) \/ CloseStream(c) \/ GrantBegin(c)
             \/ GrantMisread(c) \/ GrantCount(c) \/ GrantCountMisread(c)
             \/ GrantFails(c)
      PROVE  UNCHANGED <<worker, lease, ledger, uncounted, torn>>
  BY <1>3 DEF OpenStream, CloseStream, GrantBegin, GrantMisread, GrantCount,
              GrantCountMisread, GrantFails
<1>4. CASE \/ \E o \in Org : ChangePlan(o) \/ UpdatePool(o)
           \/ \E d \in Device : RevokeDevice(d)
           \/ WeekRolls
  BY <1>1, <1>4 DEF ChangePlan, UpdatePool, RevokeDevice, WeekRolls
<1>5. CASE Crash
  <2>1. CASE reaper.pc = "worker"
    BY <1>5, <2>1, TearStutters DEF Crash
  <2>2. CASE reaper.pc # "worker"
    BY <1>1, <1>5, <2>2 DEF Crash
  <2> QED
    BY <2>1, <2>2
<1>6. CASE UNCHANGED vars
  BY <1>1, <1>6 DEF vars
<1>7. ASSUME NEW c \in Conn, GrantStep(c) PROVE Life!LifeNext
  BY <1>1, <1>3, <1>7, InsertWorkerLife, InsertLeaseLife, RecordIssuedLife
  DEF GrantStep
<1> QED
  BY <1>1, <1>2, <1>3, <1>4, <1>5, <1>6, <1>7, ReaperLife
  DEF Next, Environment

\* tryGrant, revoke and whatever fails or cuts them short never take a grant
\* anywhere LeaseLife does not, and never give out more counted leases than its
\* quota.
THEOREM LeaseImplementsLife == Spec => ImplementsLife
<1>1. CapInv /\ [Next]_vars => [Life!LifeNext]_(Life!lifeVars)
  BY NextLife DEF CapInv, Bookkeeping
<1> QED
  BY <1>1, CapInvariant, InitLife, PTL DEF Spec, ImplementsLife, Life!LifeSpec
=============================================================================
