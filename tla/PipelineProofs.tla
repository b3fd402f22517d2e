--------------------------- MODULE PipelineProofs ---------------------------
(***************************************************************************)
(* Proofs about Pipeline, for every set of tasks, executors and streams,   *)
(* queues of any length, and any number of disconnections, answers,        *)
(* crashes and failed statements.                                          *)
(***************************************************************************)
EXTENDS Pipeline, FiniteSetTheorems, TLAPS

-----------------------------------------------------------------------------
(* Type correctness. *)

HndRow == [pc : HndPc, t : Task, ok : BOOLEAN]
Flags == {"unsaved", "green", "skipped", "approved", "human", "ungated",
          "overruled"}

LEMMA HndFields ==
  ASSUME TypeOK, NEW s \in Sess
  PROVE  /\ hnd[s] \in HndRow /\ hnd[s].t \in Task /\ hnd[s].pc \in HndPc
         /\ hnd[s].ok \in BOOLEAN
BY DEF TypeOK, HndRow

\* A handler moves to its next statement and keeps its task and its verdict.
Moved(s, p) ==
  /\ hnd' \in [Sess -> HndRow]
  /\ hnd'[s].pc = p /\ hnd'[s].t = hnd[s].t /\ hnd'[s].ok = hnd[s].ok
  /\ \A r \in Sess \ {s} : hnd'[r] = hnd[r]

LEMMA Moves ==
  ASSUME TypeOK, NEW s \in Sess, NEW p \in HndPc, Goto(s, p)
  PROVE  Moved(s, p)
<1> DEFINE h == [hnd[s] EXCEPT !.pc = p]
<1>1. h \in HndRow /\ h.pc = p /\ h.t = hnd[s].t /\ h.ok = hnd[s].ok
  <2>1. hnd[s] \in HndRow
    BY HndFields
  <2> QED
    BY <2>1 DEF HndRow
<1>2. hnd' = [hnd EXCEPT ![s] = h] /\ hnd \in [Sess -> HndRow]
  BY DEF Goto, TypeOK, HndRow
<1> HIDE DEF h
<1> QED
  BY <1>1, <1>2 DEF Moved

\* What is in a queue, wherever it is.
Sent(s, k, t) == \E i \in DOMAIN down[s] : down[s][i].k = k /\ down[s][i].t = t
Reported(s, k, t) == \E i \in DOMAIN up[s] : up[s][i].k = k /\ up[s][i].t = t

LEMMA Push ==
  ASSUME TypeOK, NEW s \in Sess, NEW k \in Kind, NEW t \in Task,
         down' = [down EXCEPT ![s] = Append(@, [k |-> k, t |-> t])]
  PROVE  /\ down' \in [Sess -> Seq(Command)]
         /\ \A r \in Sess \ {s} : down'[r] = down[r]
         /\ down'[s] = Append(down[s], [k |-> k, t |-> t])
<1>1. down \in [Sess -> Seq(Command)] /\ [k |-> k, t |-> t] \in Command
  BY DEF TypeOK, Command
<1>2. Append(down[s], [k |-> k, t |-> t]) \in Seq(Command)
  BY <1>1
<1> QED
  BY <1>1, <1>2

\* A push adds at most its own command, at the end of one queue.
Pushed(k, t) ==
  /\ down' \in [Sess -> Seq(Command)]
  /\ \A s \in Sess : \/ down'[s] = down[s]
                     \/ s = hub /\ down'[s] = Append(down[s], [k |-> k, t |-> t])

LEMMA HubPush ==
  ASSUME TypeOK, NEW k \in Kind, NEW t \in Task,
         HubSend(k, t) \/ DispatchStep(k, t)
  PROVE  Pushed(k, t)
<1>1. CASE down' = down
  BY <1>1 DEF TypeOK, Pushed
<1>2. CASE hub # NoSess /\ HubSend(k, t)
  <2>1. hub \in Sess /\
        down' = [down EXCEPT ![hub] = Append(@, [k |-> k, t |-> t])]
    BY <1>2 DEF TypeOK, HubSend
  <2> QED
    BY <2>1, Push DEF Pushed
<1> QED
  BY <1>1, <1>2 DEF HubSend, DispatchStep

LEMMA RememberTypes ==
  ASSUME TypeOK, NEW t \in Task, NEW f \in Flags, Remember(t, f)
  PROVE  /\ past' \in [Task -> Past]
         /\ past'[t] = [past[t] EXCEPT ![f] = TRUE]
         /\ \A q \in Task \ {t} : past'[q] = past[q]
<1>1. past \in [Task -> Past]
  BY DEF TypeOK, Past
<1> DEFINE r == [past[t] EXCEPT ![f] = TRUE]
<1>2. r \in Past
  <2>1. past[t] \in Past
    BY <1>1
  <2>2. CASE f = "green"
    BY <2>1, <2>2 DEF Past
  <2>3. CASE f = "skipped"
    BY <2>1, <2>3 DEF Past
  <2>4. CASE f = "approved"
    BY <2>1, <2>4 DEF Past
  <2>5. CASE f = "human"
    BY <2>1, <2>5 DEF Past
  <2>6. CASE f = "ungated"
    BY <2>1, <2>6 DEF Past
  <2>7. CASE f = "unsaved"
    BY <2>1, <2>7 DEF Past
  <2>8. CASE f = "overruled"
    BY <2>1, <2>8 DEF Past
  <2> QED
    BY <2>2, <2>3, <2>4, <2>5, <2>6, <2>7, <2>8 DEF Flags
<1>3. past' = [past EXCEPT ![t] = r]
  BY DEF Remember
<1> HIDE DEF r
<1>4. past' \in [Task -> Past] /\ past'[t] = r
      /\ \A q \in Task \ {t} : past'[q] = past[q]
  BY <1>1, <1>2, <1>3
<1> QED
  BY <1>4 DEF r

LEMMA PrTypes ==
  ASSUME TypeOK, NEW t \in Task, NEW new \in PrRow, SetPr(t, new)
  PROVE  /\ pr' \in [Task -> PrRow]
         /\ \A q \in Task \ {t} : pr'[q] = pr[q]
         /\ \/ pr'[t] = pr[t]
            \/ prs[t] > 0 /\ pr'[t] = new
BY DEF TypeOK, SetPr

LEMMA StatusTypes ==
  ASSUME TypeOK, NEW t \in Task, NEW st \in Status, SetStatus(t, st)
  PROVE  /\ task' \in [Task -> Status] /\ task'[t] = st
         /\ \A q \in Task \ {t} : task'[q] = task[q]
BY DEF TypeOK, SetStatus

\* The statement that looks for a task called "running" finds none.
LEMMA StatusToNoOne ==
  ASSUME TypeOK, NEW id, NEW st \in {"planning", "running"}
  PROVE  SetTaskStatus(id, st) = task
<1>1. \A t \in Task : t # st
  BY PipeAssumption
<1> QED
  BY <1>1 DEF SetTaskStatus, TypeOK

LEMMA FailTypes ==
  ASSUME TypeOK, Fails, UNCHANGED crashes
  PROVE  crashes' \in Nat /\ errs' \in Nat /\ crashes' + errs' <= MaxFaults
BY PipeAssumption DEF TypeOK, Fails

LEMMA SteadyTypes ==
  ASSUME TypeOK, UNCHANGED steady, UNCHANGED errs \/ Fails,
         hnd' \in [Sess -> HndRow], task' \in [Task -> Status],
         prs' \in [Task -> Nat], pr' \in [Task -> PrRow],
         past' \in [Task -> Past], down' \in [Sess -> Seq(Command)]
  PROVE  TypeOK'
<1>1. crashes' \in Nat /\ errs' \in Nat /\ crashes' + errs' <= MaxFaults
  BY FailTypes DEF TypeOK, steady
<1> QED
  BY <1>1 DEF TypeOK, steady, outside, HndRow

LEMMA QuietTypes ==
  ASSUME TypeOK, UNCHANGED quiet,
         hnd' \in [Sess -> HndRow], task' \in [Task -> Status],
         prs' \in [Task -> Nat], pr' \in [Task -> PrRow],
         past' \in [Task -> Past], down' \in [Sess -> Seq(Command)]
  PROVE  TypeOK'
BY SteadyTypes DEF quiet

\* Where a handler goes on when its statement fails, and what is known of it.
LEMMA FailureGoes ==
  ASSUME NEW p \in HndPc
  PROVE  /\ AfterFailure(p) \in HndPc
         /\ p \in {"exec", "prSaved"} => AfterFailure(p) = "afterExec"
         /\ p = "test" => AfterFailure(p) = "afterTest"
         /\ p = "review" => AfterFailure(p) = "afterReview"
         /\ p = "merge" => AfterFailure(p) = "prMerged"
         /\ p \notin {"exec", "prSaved", "test", "review", "merge"}
              => AfterFailure(p) = "idle"
<1>1. /\ p \in {"exec", "prSaved"} => AfterFailure(p) = "afterExec"
      /\ p = "test" => AfterFailure(p) = "afterTest"
      /\ p = "review" => AfterFailure(p) = "afterReview"
      /\ p = "merge" => AfterFailure(p) = "prMerged"
      /\ p \notin {"exec", "prSaved", "test", "review", "merge"}
           => AfterFailure(p) = "idle"
  BY DEF AfterFailure
<1>2. {"afterExec", "afterTest", "afterReview", "prMerged", "idle"} \subseteq HndPc
  BY DEF HndPc
<1> QED
  BY <1>1, <1>2

LEMMA FailureRemembers ==
  ASSUME NEW s \in Sess, StatementFails(s)
  PROVE  \/ hnd[s].pc = "exec" /\ Remember(hnd[s].t, "unsaved")
         \/ hnd[s].pc = "test" /\ hnd[s].ok /\ Remember(hnd[s].t, "green")
         \/ hnd[s].pc = "review" /\ hnd[s].ok /\ Remember(hnd[s].t, "approved")
         \/ /\ hnd[s].pc # "exec" /\ UNCHANGED past
            /\ hnd[s].pc \in {"test", "review"} => ~hnd[s].ok
BY DEF StatementFails

\* The statements of a handler of which each moves to the next one.
LEMMA TypeHandlerStep ==
  ASSUME TypeOK, NEW s \in Sess, Handler(s), ~Recv(s), ~DispatchExec(s)
  PROVE  TypeOK'
<1>1. /\ task \in [Task -> Status] /\ prs \in [Task -> Nat]
      /\ pr \in [Task -> PrRow] /\ past \in [Task -> Past]
      /\ down \in [Sess -> Seq(Command)]
  BY DEF TypeOK, Past
<1>2. hnd[s].t \in Task /\ hnd[s].ok \in BOOLEAN
  BY HndFields
<1>3. \A p \in HndPc : Goto(s, p) => hnd' \in [Sess -> HndRow]
  BY Moves DEF Moved
<1>4. \A k \in Kind, t \in Task :
        DispatchStep(k, t) => down' \in [Sess -> Seq(Command)]
  BY HubPush DEF Pushed
<1>5. \A t \in Task, f \in Flags : Remember(t, f) => past' \in [Task -> Past]
  BY RememberTypes
<1>6. \A t \in Task, st \in Status :
        SetStatus(t, st) => task' \in [Task -> Status]
  BY StatusTypes
<1>7. \A t \in Task : pr[t] \in PrRow
  BY <1>1
<1>8. CASE SavePlan(s)
  BY <1>1, <1>2, <1>3, <1>6, <1>8, QuietTypes DEF SavePlan, HndPc, Status
<1>9. CASE InsertPr(s)
  <2>1. NewPr \in PrRow
    BY DEF NewPr, PrRow, Verdict
  <2>2. prs' \in [Task -> Nat] /\ pr' \in [Task -> PrRow]
    BY <1>1, <1>2, <1>9, <2>1 DEF InsertPr
  <2> QED
    BY <1>1, <1>3, <1>9, <2>2, QuietTypes DEF InsertPr, HndPc
<1>10. CASE ExecSaved(s)
  BY <1>1, <1>2, <1>3, <1>6, <1>10, QuietTypes DEF ExecSaved, HndPc, Status
<1>11. CASE AfterExec(s)
  <2>1. past' \in [Task -> Past]
    BY <1>1, <1>2, <1>5, <1>11 DEF AfterExec, Flags
  <2>2. down' \in [Sess -> Seq(Command)]
    BY <1>2, <1>4, <1>11 DEF AfterExec, Kind
  <2> QED
    BY <1>1, <1>3, <1>11, <2>1, <2>2, QuietTypes DEF AfterExec, HndPc, rows
<1>12. CASE SetCIResult(s)
  <2> DEFINE new == [pr[hnd[s].t] EXCEPT
                       !.ci = IF hnd[s].ok THEN "passed" ELSE "failed"]
  <2>1. new \in PrRow
    BY <1>2, <1>7 DEF PrRow
  <2>2. SetPr(hnd[s].t, new)
    BY <1>12 DEF SetCIResult
  <2> HIDE DEF new
  <2>3. pr' \in [Task -> PrRow]
    BY <1>2, <2>1, <2>2, PrTypes
  <2>4. past' \in [Task -> Past]
    BY <1>1, <1>2, <1>5, <1>12 DEF SetCIResult, Flags
  <2> QED
    BY <1>1, <1>3, <1>12, <2>3, <2>4, QuietTypes DEF SetCIResult, HndPc
<1>13. CASE AfterTest(s)
  <2>1. task' \in [Task -> Status]
    BY <1>1, <1>2, <1>6, <1>13 DEF AfterTest, Status, Terminal
  <2>2. down' \in [Sess -> Seq(Command)]
    BY <1>1, <1>2, <1>4, <1>13 DEF AfterTest, Kind
  <2> QED
    BY <1>1, <1>3, <1>13, <2>1, <2>2, QuietTypes DEF AfterTest, HndPc
<1>14. CASE SetAIReview(s)
  <2> DEFINE new == [pr[hnd[s].t] EXCEPT
                       !.ai = IF hnd[s].ok THEN "approved" ELSE "changes"]
  <2>1. new \in PrRow
    BY <1>2, <1>7 DEF PrRow, Verdict
  <2>2. SetPr(hnd[s].t, new)
    BY <1>14 DEF SetAIReview
  <2> HIDE DEF new
  <2>3. pr' \in [Task -> PrRow]
    BY <1>2, <2>1, <2>2, PrTypes
  <2>4. past' \in [Task -> Past]
    BY <1>1, <1>2, <1>5, <1>14 DEF SetAIReview, Flags
  <2> QED
    BY <1>1, <1>3, <1>14, <2>3, <2>4, QuietTypes DEF SetAIReview, HndPc
<1>15. CASE AfterReview(s)
  <2>1. task' \in [Task -> Status]
    BY <1>1, <1>2, <1>6, <1>15 DEF AfterReview, Status, Terminal
  <2> QED
    BY <1>1, <1>3, <1>15, <2>1, QuietTypes DEF AfterReview, HndPc
<1>16. CASE Gate(s)
  <2>1. past' \in [Task -> Past]
    BY <1>1, <1>2, <1>5, <1>16 DEF Gate, Flags
  <2>2. hnd' \in [Sess -> HndRow]
    BY <1>3, <1>16 DEF Gate, HndPc
  <2> QED
    BY <1>1, <1>16, <2>1, <2>2, QuietTypes DEF Gate, rows
<1>17. CASE SetTaskBlocked(s)
  BY <1>1, <1>2, <1>3, <1>6, <1>17, QuietTypes
     DEF SetTaskBlocked, HndPc, Status
<1>18. CASE MarkPrMerged(s)
  <2> DEFINE new == [pr[hnd[s].t] EXCEPT !.st = "merged"]
  <2>1. new \in PrRow
    BY <1>2, <1>7 DEF PrRow
  <2>2. SetPr(hnd[s].t, new)
    BY <1>18 DEF MarkPrMerged
  <2> HIDE DEF new
  <2>3. pr' \in [Task -> PrRow]
    BY <1>2, <2>1, <2>2, PrTypes
  <2> QED
    BY <1>1, <1>3, <1>18, <2>3, QuietTypes DEF MarkPrMerged, HndPc
<1>19. CASE MarkTaskMerged(s)
  BY <1>1, <1>2, <1>3, <1>6, <1>19, QuietTypes
     DEF MarkTaskMerged, HndPc, Status, Terminal
<1>20. CASE FailTask(s)
  BY <1>1, <1>2, <1>3, <1>6, <1>20, QuietTypes
     DEF FailTask, HndPc, Status, Terminal
<1>21. CASE Reconcile(s)
  <2> DEFINE r == [pc |-> ReconcileNext(hnd[s].t), t |-> hnd[s].t,
                   ok |-> pr[hnd[s].t].hu = "approved"]
  <2>1. ReconcileNext(hnd[s].t) \in HndPc
    BY DEF ReconcileNext, HndPc
  <2>2. r \in HndRow
    BY <1>2, <2>1 DEF HndRow
  <2>3. hnd' = [hnd EXCEPT ![s] = r]
    BY <1>21 DEF Reconcile
  <2> HIDE DEF r
  <2>4. hnd' \in [Sess -> HndRow]
    BY <2>2, <2>3 DEF TypeOK, HndRow
  <2> QED
    BY <1>1, <1>21, <2>4, QuietTypes DEF Reconcile, rows
<1>22. CASE SendStep(s)
  <2>1. down' \in [Sess -> Seq(Command)]
    BY <1>2, <1>4, <1>22 DEF SendStep, Kind
  <2> QED
    BY <1>1, <1>3, <1>22, <2>1, QuietTypes DEF SendStep, HndPc, rows
<1>23. CASE AfterExecMisread(s)
  <2>1. down' \in [Sess -> Seq(Command)]
    BY <1>2, <1>4, <1>23 DEF AfterExecMisread, Kind
  <2> QED
    BY <1>1, <1>3, <1>23, <2>1, SteadyTypes DEF AfterExecMisread, HndPc, rows
<1>24. CASE GateMisread(s)
  <2>1. past' \in [Task -> Past]
    BY <1>1, <1>2, <1>5, <1>24 DEF GateMisread, Flags
  <2>2. hnd' \in [Sess -> HndRow]
    BY <1>3, <1>24 DEF GateMisread, HndPc
  <2> QED
    BY <1>1, <1>24, <2>1, <2>2, SteadyTypes DEF GateMisread, rows
<1>25. CASE StatementFails(s)
  <2>1. past' \in [Task -> Past]
    <3>1. UNCHANGED past \/ \E f \in Flags : Remember(hnd[s].t, f)
      BY <1>25, FailureRemembers DEF Flags
    <3> QED
      BY <1>1, <1>2, <1>5, <3>1
  <2>2. hnd' \in [Sess -> HndRow]
    <3>1. PICK p \in HndPc : p = hnd[s].pc
      BY HndFields
    <3>2. Goto(s, AfterFailure(p)) /\ AfterFailure(p) \in HndPc
      BY <1>25, <3>1, FailureGoes DEF StatementFails
    <3> QED
      BY <1>3, <3>2
  <2> QED
    BY <1>1, <1>25, <2>1, <2>2, SteadyTypes DEF StatementFails, rows
<1> QED
  BY <1>8, <1>9, <1>10, <1>11, <1>12, <1>13, <1>14, <1>15, <1>16, <1>17,
     <1>18, <1>19, <1>20, <1>21, <1>22, <1>23, <1>24, <1>25 DEF Handler

LEMMA DeathTypes ==
  ASSUME TypeOK, ProcessDies
  PROVE  /\ hub' = NoSess
         /\ conn' \in [Sess -> {"closed", "open", "dead"}]
         /\ hnd' \in [Sess -> HndRow]
         /\ \A s \in Sess : hnd'[s].pc = "idle"
         /\ rest' \in [Task -> {"none", "plan", "merge"}]
         /\ down' \in [Sess -> Seq(Command)] /\ up' \in [Sess -> Seq(Event)]
<1> DEFINE h(s) == [hnd[s] EXCEPT !.pc = "idle"]
<1>1. ASSUME NEW s \in Sess PROVE h(s) \in HndRow /\ h(s).pc = "idle"
  <2>1. hnd[s] \in HndRow
    BY HndFields
  <2> QED
    BY <2>1 DEF HndRow, HndPc
<1>2. hnd' = [s \in Sess |-> h(s)]
  BY DEF ProcessDies
<1> HIDE DEF h
<1>3. hnd' \in [Sess -> HndRow] /\ \A s \in Sess : hnd'[s].pc = "idle"
  BY <1>1, <1>2
<1>4. <<>> \in Seq(Command) /\ <<>> \in Seq(Event)
  OBVIOUS
<1>5. down' \in [Sess -> Seq(Command)] /\ up' \in [Sess -> Seq(Event)]
  BY <1>4 DEF ProcessDies
<1>6. /\ hub' = NoSess /\ conn' \in [Sess -> {"closed", "open", "dead"}]
      /\ rest' \in [Task -> {"none", "plan", "merge"}]
  BY DEF ProcessDies
<1> QED
  BY <1>3, <1>5, <1>6

LEMMA TypeDispatchExec ==
  ASSUME TypeOK, NEW s \in Sess, DispatchExec(s)
  PROVE  TypeOK'
<1>1. hnd[s].t \in Task
  BY HndFields
<1>2. CASE hub = s
  <2>1. task' = task
    BY <1>2, StatusToNoOne DEF DispatchExec
  <2>2. down' \in [Sess -> Seq(Command)]
    BY <1>1, <1>2, Push DEF DispatchExec, Kind
  <2>3. hnd' \in [Sess -> HndRow]
    BY <1>2, Moves DEF DispatchExec, HndPc, Moved
  <2> QED
    BY <1>2, <2>1, <2>2, <2>3
       DEF DispatchExec, TypeOK, HndRow, outside, faults
<1>3. CASE hub # s
  BY <1>3, DeathTypes DEF DispatchExec, TypeOK, HndRow, outside, faults
<1> QED
  BY <1>2, <1>3

LEMMA RecvTakes ==
  ASSUME TypeOK, NEW s \in Sess, Recv(s)
  PROVE  /\ hnd' \in [Sess -> HndRow] /\ up' \in [Sess -> Seq(Event)]
         /\ hnd[s].pc = "idle" /\ up[s] # <<>> /\ up[s] \in Seq(Event)
         /\ hnd'[s] = [pc |-> up[s][1].k, t |-> up[s][1].t, ok |-> up[s][1].ok]
         /\ up'[s] = Tail(up[s])
         /\ \A r \in Sess \ {s} : hnd'[r] = hnd[r] /\ up'[r] = up[r]
<1>1. up[s] \in Seq(Event) /\ up[s] # <<>> /\ hnd[s].pc = "idle"
  BY DEF TypeOK, Recv, At
<1>2. Head(up[s]) = up[s][1] /\ up[s][1] \in Event /\ Tail(up[s]) \in Seq(Event)
  BY <1>1
<1> DEFINE h == [pc |-> up[s][1].k, t |-> up[s][1].t, ok |-> up[s][1].ok]
<1>3. h \in HndRow
  BY <1>2 DEF Event, HndRow, HndPc, Kind
<1>4. hnd' = [hnd EXCEPT ![s] = h] /\ up' = [up EXCEPT ![s] = Tail(up[s])]
  BY <1>2 DEF Recv
<1>5. hnd \in [Sess -> HndRow] /\ up \in [Sess -> Seq(Event)]
  BY DEF TypeOK, HndRow
<1> HIDE DEF h
<1>6. /\ hnd' \in [Sess -> HndRow] /\ up' \in [Sess -> Seq(Event)]
      /\ hnd'[s] = h /\ up'[s] = Tail(up[s])
      /\ \A r \in Sess \ {s} : hnd'[r] = hnd[r] /\ up'[r] = up[r]
  BY <1>2, <1>3, <1>4, <1>5
<1> QED
  BY <1>1, <1>6 DEF h

\* The snapshots of a new stream are all it starts with.
LEMMA ConnectTypes ==
  ASSUME TypeOK, NEW e \in Executor, Connect(e)
  PROVE  \E s \in Sess :
           /\ hub' = s /\ up' \in [Sess -> Seq(Event)]
           /\ \A r \in Sess \ {s} : up'[r] = up[r]
           /\ \A i \in DOMAIN up'[s] : up'[s][i].k = "snapshot"
           /\ conn' \in [Sess -> {"closed", "open", "dead"}]
           /\ owner' \in [Sess -> Executor]
<1> DEFINE S == {t \in Task : local[e][t] # "none"}
<1>1. PICK s \in Sess :
        /\ hub' = s /\ conn' = [conn EXCEPT ![s] = "open"]
        /\ owner' = [owner EXCEPT ![s] = e]
        /\ \E q \in Orders(S) :
             up' = [up EXCEPT ![s] =
                      [i \in DOMAIN q |->
                         [k |-> "snapshot", t |-> q[i], ok |-> TRUE]]]
  BY DEF Connect
<1>2. PICK q \in Orders(S) :
        up' = [up EXCEPT ![s] =
                 [i \in DOMAIN q |->
                    [k |-> "snapshot", t |-> q[i], ok |-> TRUE]]]
  BY <1>1
<1>3. Cardinality(S) \in Nat
  BY PipeAssumption, FS_Subset, FS_CardinalityType
<1> DEFINE n == Cardinality(S)
           u == [i \in 1..n |-> [k |-> "snapshot", t |-> q[i], ok |-> TRUE]]
<1>4. q \in [1..n -> S] /\ S \subseteq Task
  BY DEF Orders
<1>5. \A i \in 1..n : [k |-> "snapshot", t |-> q[i], ok |-> TRUE] \in Event
  BY <1>4 DEF Event
<1>6. u \in Seq(Event)
  BY <1>3, <1>5
<1>7. DOMAIN u = 1..n /\ \A i \in 1..n : u[i].k = "snapshot"
  OBVIOUS
<1>8. up' = [up EXCEPT ![s] = u]
  BY <1>2, <1>4
<1> HIDE DEF u, n, S
<1>9. /\ up' \in [Sess -> Seq(Event)] /\ up'[s] = u
      /\ \A r \in Sess \ {s} : up'[r] = up[r]
  BY <1>6, <1>8 DEF TypeOK
<1>10. /\ conn' \in [Sess -> {"closed", "open", "dead"}]
       /\ owner' \in [Sess -> Executor]
  BY <1>1 DEF TypeOK
<1> QED
  BY <1>1, <1>7, <1>9, <1>10

\* The executor takes the first command and reports one result.
LEMMA RunTakes ==
  ASSUME TypeOK, NEW s \in Sess, RunStep(s)
  PROVE  \E m \in Command, r \in Event :
           /\ down[s] \in Seq(Command) /\ down[s] # <<>> /\ down[s][1] = m
           /\ r.t = m.t /\ r.k \in {m.k, "fail"}
           /\ merged' = IF r.k = "merge" THEN merged \cup {m.t} ELSE merged
           /\ up[s] \in Seq(Event) /\ up'[s] = Append(up[s], r)
           /\ down'[s] = Tail(down[s])
           /\ \A q \in Sess \ {s} : down'[q] = down[q] /\ up'[q] = up[q]
           /\ down' \in [Sess -> Seq(Command)] /\ up' \in [Sess -> Seq(Event)]
           /\ local' \in [Executor -> [Task -> {"none", "dir", "repo"}]]
<1> DEFINE m == Head(down[s])
           e == owner[s]
<1>1. /\ down[s] \in Seq(Command) /\ down[s] # <<>> /\ up[s] \in Seq(Event)
      /\ e \in Executor
      /\ local \in [Executor -> [Task -> {"none", "dir", "repo"}]]
  BY DEF TypeOK, RunStep
<1>2. m = down[s][1] /\ m \in Command /\ Tail(down[s]) \in Seq(Command)
  BY <1>1
<1>3. PICK r \in Outcomes(m, local[e][m.t]) :
        /\ \E d \in DirsAfter(r, m, local[e][m.t]) :
             local' = [local EXCEPT ![e] = [@ EXCEPT ![m.t] = d]]
        /\ merged' = IF r.k = "merge" THEN merged \cup {m.t} ELSE merged
        /\ up' = [up EXCEPT ![s] = Append(@, r)]
  BY DEF RunStep
<1>4. m.k \in Kind /\ m.t \in Task
  BY <1>2 DEF Command
<1>5. down' = [down EXCEPT ![s] = Tail(@)]
  BY DEF RunStep
<1> HIDE DEF m, e
<1>6. r \in Event /\ r.t = m.t /\ r.k \in {m.k, "fail"}
  <2>1. \/ r = [k |-> m.k, t |-> m.t, ok |-> TRUE]
        \/ r = [k |-> m.k, t |-> m.t, ok |-> FALSE]
        \/ r = [k |-> "fail", t |-> m.t, ok |-> FALSE]
    BY DEF Outcomes
  <2>2. CASE r = [k |-> m.k, t |-> m.t, ok |-> TRUE]
    BY <1>4, <2>2 DEF Event
  <2>3. CASE r = [k |-> m.k, t |-> m.t, ok |-> FALSE]
    BY <1>4, <2>3 DEF Event
  <2>4. CASE r = [k |-> "fail", t |-> m.t, ok |-> FALSE]
    BY <1>4, <2>4 DEF Event
  <2> QED
    BY <2>1, <2>2, <2>3, <2>4
<1>7. PICK d \in DirsAfter(r, m, local[e][m.t]) :
        local' = [local EXCEPT ![e] = [@ EXCEPT ![m.t] = d]]
  BY <1>3
<1>8. d \in {"none", "dir", "repo"}
  BY <1>1, <1>4 DEF DirsAfter
<1>9. local' \in [Executor -> [Task -> {"none", "dir", "repo"}]]
  BY <1>1, <1>4, <1>7, <1>8
<1>10. Append(up[s], r) \in Seq(Event)
  BY <1>1, <1>6
<1>11. /\ up'[s] = Append(up[s], r) /\ down'[s] = Tail(down[s])
       /\ \A q \in Sess \ {s} : down'[q] = down[q] /\ up'[q] = up[q]
       /\ down' \in [Sess -> Seq(Command)] /\ up' \in [Sess -> Seq(Event)]
  BY <1>2, <1>3, <1>5, <1>10 DEF TypeOK
<1> QED
  BY <1>1, <1>2, <1>3, <1>6, <1>9, <1>11

LEMMA TypeStep ==
  ASSUME TypeOK, [Next]_vars
  PROVE  TypeOK'
<1>1. ASSUME NEW s \in Sess, Handler(s) PROVE TypeOK'
  <2>1. CASE Recv(s)
    BY <2>1, RecvTakes DEF Recv, TypeOK, HndRow, rows, outside, faults
  <2> QED
    BY <1>1, <2>1, TypeDispatchExec, TypeHandlerStep
<1>2. ASSUME NEW s \in Sess, RunStep(s) PROVE TypeOK'
  <2>1. /\ local' \in [Executor -> [Task -> {"none", "dir", "repo"}]]
        /\ merged' \in SUBSET Task
        /\ down' \in [Sess -> Seq(Command)] /\ up' \in [Sess -> Seq(Event)]
    <3>1. PICK m \in Command, r \in Event :
            /\ merged' = IF r.k = "merge" THEN merged \cup {m.t} ELSE merged
            /\ local' \in [Executor -> [Task -> {"none", "dir", "repo"}]]
            /\ down' \in [Sess -> Seq(Command)] /\ up' \in [Sess -> Seq(Event)]
      BY <1>2, RunTakes
    <3>2. m.t \in Task
      BY DEF Command
    <3> QED
      BY <3>1, <3>2 DEF TypeOK
  <2> QED
    BY <1>2, <2>1 DEF RunStep, TypeOK, rows, faults
<1>3. ASSUME NEW s \in Sess, Disconnect(s) PROVE TypeOK'
  <2>1. <<>> \in Seq(Command)
    OBVIOUS
  <2>2. down' \in [Sess -> Seq(Command)] /\ drops' \in 0..MaxDrops
    BY <1>3, <2>1, PipeAssumption DEF Disconnect, TypeOK
  <2> QED
    BY <1>3, <2>2 DEF Disconnect, TypeOK, rows, outside
<1>4. ASSUME NEW s \in Sess, StreamEnds(s) PROVE TypeOK'
  <2>1. <<>> \in Seq(Command) /\ <<>> \in Seq(Event)
    OBVIOUS
  <2>2. down' \in [Sess -> Seq(Command)] /\ up' \in [Sess -> Seq(Event)]
    BY <1>4, <2>1 DEF StreamEnds, TypeOK
  <2>3. hnd' \in [Sess -> HndRow]
    BY <1>4, Moves DEF StreamEnds, Goto, Moved, HndPc
  <2> QED
    BY <1>4, <2>2, <2>3
       DEF StreamEnds, TypeOK, HndRow, rows, outside, faults
<1>5. ASSUME NEW e \in Executor, Connect(e) PROVE TypeOK'
  <2>1. /\ hub' \in Sess \cup {NoSess} /\ up' \in [Sess -> Seq(Event)]
        /\ conn' \in [Sess -> {"closed", "open", "dead"}]
        /\ owner' \in [Sess -> Executor]
    BY <1>5, ConnectTypes
  <2> QED
    BY <1>5, <2>1 DEF Connect, TypeOK, rows, outside, faults
<1>6. ASSUME NEW t \in Task, Rest(t) PROVE TypeOK'
  <2>1. rest' \in [Task -> {"none", "plan", "merge"}]
    <3>1. rest' = [rest EXCEPT ![t] = "none"]
      BY <1>6 DEF Rest, SendPlan, SendMerge, SendMergeFails
    <3> QED
      BY <3>1 DEF TypeOK
  <2>2. CASE SendPlan(t)
    <3>1. down' \in [Sess -> Seq(Command)]
      BY <2>2, HubPush DEF SendPlan, Kind, Pushed
    <3>2. task' = task
      BY <2>2, StatusToNoOne DEF SendPlan
    <3> QED
      BY <2>1, <2>2, <3>1, <3>2 DEF SendPlan, TypeOK, outside, faults
  <2>3. CASE SendMerge(t)
    <3>1. down' \in [Sess -> Seq(Command)]
      BY <2>3, HubPush DEF SendMerge, Kind, Pushed
    <3> QED
      BY <2>1, <2>3, <3>1 DEF SendMerge, TypeOK, rows, outside, faults
  <2>4. CASE SendMergeFails(t)
    <3>1. crashes' \in Nat /\ errs' \in Nat /\ crashes' + errs' <= MaxFaults
      BY <2>4, FailTypes DEF SendMergeFails
    <3> QED
      BY <2>1, <2>4, <3>1 DEF SendMergeFails, TypeOK, rows, pipes, outside
  <2> QED
    BY <1>6, <2>2, <2>3, <2>4 DEF Rest
<1>7. ASSUME NEW t \in Task, CreateTask(t) \/ RequestCut(t) PROVE TypeOK'
  <2>1. /\ rest' \in [Task -> {"none", "plan", "merge"}]
        /\ task' \in [Task -> Status]
    <3>1. /\ rest \in [Task -> {"none", "plan", "merge"}]
          /\ task \in [Task -> Status] /\ "queued" \in Status
      BY DEF TypeOK, Status
    <3> QED
      BY <1>7, <3>1, StatusTypes DEF CreateTask, RequestCut, rows
  <2> QED
    BY <1>7, <2>1
       DEF CreateTask, RequestCut, TypeOK, rows, pipes, outside, faults
<1>8. ASSUME NEW t \in Task, Approve(t) \/ Reject(t) PROVE TypeOK'
  <2>1. answers' \in 0..MaxAnswers
    BY <1>8, PipeAssumption DEF Approve, Reject, Answerable, TypeOK
  <2>2. task' \in [Task -> Status]
    BY <1>8, StatusTypes DEF Approve, Reject, Status, Terminal
  <2>3. pr' \in [Task -> PrRow]
    <3> DEFINE new(v) == [pr[t] EXCEPT !.hu = v]
    <3>1. new("approved") \in PrRow /\ new("changes") \in PrRow
      <4>1. pr[t] \in PrRow
        BY DEF TypeOK
      <4> QED
        BY <4>1 DEF PrRow, Verdict
    <3>2. SetPr(t, new("approved")) \/ SetPr(t, new("changes"))
      BY <1>8 DEF Approve, Reject
    <3> HIDE DEF new
    <3> QED
      BY <3>1, <3>2, PrTypes
  <2>4. past' \in [Task -> Past]
    BY <1>8, RememberTypes DEF Approve, Reject, Flags, TypeOK, Past
  <2>5. rest' \in [Task -> {"none", "plan", "merge"}]
    BY <1>8 DEF Approve, Reject, TypeOK
  <2> QED
    BY <1>8, <2>1, <2>2, <2>3, <2>4, <2>5
       DEF Approve, Reject, TypeOK, Past, pipes, outside, faults
<1>9. CASE Reconfigure
  BY <1>9 DEF Reconfigure, TypeOK, rows, pipes, outside, faults
<1>10. CASE Crash
  <2>1. crashes' \in Nat /\ errs' \in Nat /\ crashes' + errs' <= MaxFaults
    BY <1>10, PipeAssumption DEF Crash, TypeOK
  <2> QED
    BY <1>10, <2>1, DeathTypes DEF Crash, TypeOK, HndRow, rows, outside
<1>11. CASE UNCHANGED vars
  BY <1>11 DEF vars, TypeOK, rows, pipes, outside, faults
<1> QED
  BY <1>1, <1>2, <1>3, <1>4, <1>5, <1>6, <1>7, <1>8, <1>9, <1>10, <1>11
     DEF Next, People

LEMMA InitType == Init => TypeOK
<1> SUFFICES ASSUME Init PROVE TypeOK
  OBVIOUS
<1>1. (CHOOSE t \in Task : TRUE) \in Task /\ (CHOOSE e \in Executor : TRUE) \in Executor
  BY PipeAssumption
<1>2. NewPr \in PrRow
  BY DEF NewPr, PrRow, Verdict
<1>3. hnd \in [Sess -> HndRow]
  <2>1. NoHandler(CHOOSE t \in Task : TRUE) \in HndRow
    BY <1>1 DEF NoHandler, HndRow, HndPc
  <2> QED
    BY <2>1 DEF Init
<1>4. down \in [Sess -> Seq(Command)] /\ up \in [Sess -> Seq(Event)]
  <2>1. <<>> \in Seq(Command) /\ <<>> \in Seq(Event)
    OBVIOUS
  <2> QED
    BY <2>1 DEF Init
<1>5. past \in [Task -> Past]
  BY DEF Init, Past
<1>6. /\ task \in [Task -> Status] /\ prs \in [Task -> Nat]
      /\ pr \in [Task -> PrRow] /\ cfg \in Cfgs
      /\ hub \in Sess \cup {NoSess} /\ owner \in [Sess -> Executor]
      /\ conn \in [Sess -> {"closed", "open", "dead"}]
  BY <1>1, <1>2 DEF Init, Status
<1>7. /\ rest \in [Task -> {"none", "plan", "merge"}]
      /\ answers \in 0..MaxAnswers
      /\ local \in [Executor -> [Task -> {"none", "dir", "repo"}]]
      /\ merged \in SUBSET Task
      /\ drops \in 0..MaxDrops
      /\ crashes \in Nat /\ errs \in Nat /\ crashes + errs <= MaxFaults
  BY PipeAssumption DEF Init
<1> QED
  BY <1>3, <1>4, <1>5, <1>6, <1>7 DEF TypeOK, HndRow, Past

\* The rows of task and pull_request, the commands and events on their way and
\* the statement each handler stands at are what the code knows, in every state.
THEOREM PipelineTypeCorrect == Spec => []TypeOK
BY InitType, TypeStep, PTL DEF Spec

-----------------------------------------------------------------------------
(* The gates.  A merge is several messages and restarts away from the        *)
(* verdicts it rests on; the invariant is that whatever is on its way to the *)
(* merge - a command, an event, a handler between two statements, a verdict  *)
(* in the pull_request, a request that was answered - carries its reasons.   *)

\* The gates were passed, or a human overruled them.
MayMerge(t) == Cleared(t) \/ past[t].overruled

CommandDue(k, t) ==
  /\ k = "test" => Ran(t)
  /\ k = "review" => Tested(t)
  /\ k = "merge" => MayMerge(t)

EventDue(k, t) ==
  /\ k = "test" => Ran(t)
  /\ k = "review" => Tested(t)
  /\ k = "merge" => t \in merged

\* The handler of s, when it is at work on t.
StatementDue(s, t) ==
  /\ EventDue(hnd[s].pc, t)
  /\ hnd[s].pc \in {"prSaved", "afterExec", "afterTest", "sendTest"} => Ran(t)
  /\ hnd[s].pc = "afterTest" /\ hnd[s].ok => past[t].green
  /\ hnd[s].pc \in {"afterReview", "sendReview"} => Tested(t)
  /\ hnd[s].pc = "afterReview" /\ hnd[s].ok => past[t].approved
  /\ hnd[s].pc \in {"gate", "regate", "block"} => Reviewed(t)
  /\ hnd[s].pc = "regate" /\ hnd[s].ok => past[t].human \/ past[t].overruled
  /\ hnd[s].pc = "sendMerge" => MayMerge(t)
  /\ hnd[s].pc = "prMerged" => t \in merged

HndDue(s) == \A t \in Task : hnd[s].t = t => StatementDue(s, t)
DownDue(s) == \A k \in Kind, t \in Task : Sent(s, k, t) => CommandDue(k, t)
UpDue(s) == \A k \in Kind, t \in Task : Reported(s, k, t) => EventDue(k, t)

PrDue(t) ==
  /\ pr[t].ci = "passed" => past[t].green
  /\ pr[t].ai = "approved" => Reviewed(t)
  /\ pr[t].hu = "approved" => past[t].human \/ past[t].overruled
  /\ pr[t].st = "merged" => t \in merged /\ prs[t] > 0

TaskDue(t) ==
  /\ task[t] = "merged" => t \in merged
  /\ task[t] = "blocked" => Reviewed(t)
  /\ rest[t] = "merge" => MayMerge(t)
  /\ t \in merged => MayMerge(t)

Due == /\ \A s \in Sess : HndDue(s) /\ DownDue(s) /\ UpDue(s)
       /\ \A t \in Task : PrDue(t) /\ TaskDue(t)

\* Nothing that was decided is taken back.
Grows ==
  /\ \A t \in Task :
       /\ prs[t] > 0 => prs'[t] > 0
       /\ \A f \in Flags : past[t][f] => past'[t][f]
  /\ merged \subseteq merged'

LEMMA GrowsFacts ==
  ASSUME Grows, NEW t \in Task
  PROVE  /\ Ran(t) => Ran(t)'
         /\ Tested(t) => Tested(t)'
         /\ Reviewed(t) => Reviewed(t)'
         /\ Cleared(t) => Cleared(t)'
         /\ MayMerge(t) => MayMerge(t)'
         /\ past[t].green => past'[t].green
         /\ past[t].approved => past'[t].approved
         /\ past[t].human => past'[t].human
         /\ past[t].overruled => past'[t].overruled
         /\ t \in merged => t \in merged'
         /\ prs[t] > 0 => prs'[t] > 0
<1>1. /\ past[t].green => past'[t].green
      /\ past[t].skipped => past'[t].skipped
      /\ past[t].approved => past'[t].approved
      /\ past[t].human => past'[t].human
      /\ past[t].ungated => past'[t].ungated
      /\ past[t].unsaved => past'[t].unsaved
      /\ past[t].overruled => past'[t].overruled
  BY DEF Grows, Flags
<1>2. Ran(t) => Ran(t)'
  BY <1>1 DEF Grows, Ran
<1>3. Tested(t) => Tested(t)'
  BY <1>1, <1>2 DEF Tested
<1>4. Reviewed(t) => Reviewed(t)'
  BY <1>1, <1>3 DEF Reviewed
<1>5. Cleared(t) => Cleared(t)'
  BY <1>1, <1>4 DEF Cleared
<1>6. MayMerge(t) => MayMerge(t)'
  BY <1>1, <1>5 DEF MayMerge
<1>7. t \in merged => t \in merged'
  BY DEF Grows
<1>8. prs[t] > 0 => prs'[t] > 0
  BY DEF Grows
<1> QED
  BY <1>1, <1>2, <1>3, <1>4, <1>5, <1>6, <1>7, <1>8

LEMMA RememberGrows ==
  ASSUME TypeOK, NEW t \in Task, NEW f \in Flags,
         past' = past \/ Remember(t, f), UNCHANGED merged,
         \A q \in Task : prs[q] > 0 => prs'[q] > 0
  PROVE  Grows
<1>1. CASE past' = past
  BY <1>1 DEF Grows
<1>2. CASE Remember(t, f)
  <2>1. /\ past'[t] = [past[t] EXCEPT ![f] = TRUE]
        /\ \A q \in Task \ {t} : past'[q] = past[q]
    BY <1>2, RememberTypes
  <2>2. past[t] \in Past
    BY DEF TypeOK, Past
  <2>3. \A g \in Flags : past[t][g] => past'[t][g]
    BY <2>1, <2>2 DEF Past, Flags
  <2> QED
    BY <2>1, <2>3 DEF Grows
<1> QED
  BY <1>1, <1>2

\* What is remembered is there afterwards.
LEMMA Remembered ==
  ASSUME TypeOK, NEW t \in Task
  PROVE  /\ Remember(t, "green") => past'[t].green
         /\ Remember(t, "skipped") => past'[t].skipped
         /\ Remember(t, "approved") => past'[t].approved
         /\ Remember(t, "human") => past'[t].human
         /\ Remember(t, "ungated") => past'[t].ungated
         /\ Remember(t, "unsaved") => past'[t].unsaved
         /\ Remember(t, "overruled") => past'[t].overruled
<1>1. ASSUME NEW f \in Flags, Remember(t, f) PROVE past'[t][f]
  <2>1. past[t] \in Past /\ past'[t] = [past[t] EXCEPT ![f] = TRUE]
    BY <1>1, RememberTypes DEF TypeOK, Past
  <2> QED
    BY <2>1 DEF Past, Flags
<1> QED
  BY <1>1 DEF Flags

\* Nothing else is remembered with it.
LEMMA RememberFlags ==
  ASSUME TypeOK, NEW t \in Task, NEW f \in Flags, Remember(t, f)
  PROVE  /\ \A q \in Task \ {t} : past'[q] = past[q]
         /\ f = "green" \/ past'[t].green = past[t].green
         /\ f = "skipped" \/ past'[t].skipped = past[t].skipped
         /\ f = "approved" \/ past'[t].approved = past[t].approved
         /\ f = "human" \/ past'[t].human = past[t].human
         /\ f = "ungated" \/ past'[t].ungated = past[t].ungated
         /\ f = "unsaved" \/ past'[t].unsaved = past[t].unsaved
         /\ f = "overruled" \/ past'[t].overruled = past[t].overruled
<1>1. /\ \A q \in Task \ {t} : past'[q] = past[q]
      /\ past'[t] = [past[t] EXCEPT ![f] = TRUE]
  BY RememberTypes
<1>2. past[t] \in Past
  BY DEF TypeOK, Past
<1> QED
  BY <1>1, <1>2 DEF Past, Flags

\* What a step has to show for each place it changes.
HndOk(s) == \/ hnd'[s] = hnd[s]
            \/ hnd'[s].pc \in {"idle", "snapshot", "fail", "plan", "exec",
                               "dispatchExec"}
            \/ HndDue(s)'
DownOk(s) == \A k \in Kind, t \in Task :
               Sent(s, k, t)' => Sent(s, k, t) \/ CommandDue(k, t)'
UpOk(s) == \A k \in Kind, t \in Task :
             Reported(s, k, t)' => Reported(s, k, t) \/ EventDue(k, t)'
TaskOk(t) ==
  /\ pr'[t] = pr[t] \/ PrDue(t)'
  /\ task'[t] = "merged" => task[t] = "merged" \/ t \in merged'
  /\ task'[t] = "blocked" => task[t] = "blocked" \/ Reviewed(t)'
  /\ rest'[t] = "merge" => rest[t] = "merge" \/ MayMerge(t)'
  /\ t \in merged' => t \in merged \/ MayMerge(t)'

LEMMA DueFrame ==
  ASSUME Due, Grows,
         \A s \in Sess : HndOk(s) /\ DownOk(s) /\ UpOk(s),
         \A t \in Task : TaskOk(t)
  PROVE  Due'
<1>1. ASSUME NEW s \in Sess PROVE HndDue(s)'
  <2>1. CASE hnd'[s] = hnd[s]
    BY <2>1, GrowsFacts DEF Due, HndDue, StatementDue, EventDue
  <2>2. CASE hnd'[s].pc \in {"idle", "snapshot", "fail", "plan", "exec",
                             "dispatchExec"}
    BY <2>2 DEF HndDue, StatementDue, EventDue
  <2> QED
    BY <2>1, <2>2 DEF HndOk
<1>2. \A k \in Kind, t \in Task : CommandDue(k, t) => CommandDue(k, t)'
  BY GrowsFacts DEF CommandDue
<1>3. \A k \in Kind, t \in Task : EventDue(k, t) => EventDue(k, t)'
  BY GrowsFacts DEF EventDue
<1>4. \A s \in Sess : DownDue(s)'
  BY <1>2 DEF Due, DownDue, DownOk
<1>5. \A s \in Sess : UpDue(s)'
  BY <1>3 DEF Due, UpDue, UpOk
<1>6. ASSUME NEW t \in Task PROVE PrDue(t)'
  BY GrowsFacts DEF Due, PrDue, TaskOk
<1>7. ASSUME NEW t \in Task PROVE TaskDue(t)'
  BY GrowsFacts DEF Due, TaskDue, TaskOk
<1> QED
  BY <1>1, <1>4, <1>5, <1>6, <1>7 DEF Due

LEMMA PushSends ==
  ASSUME TypeOK, NEW k \in Kind, NEW t \in Task, Pushed(k, t)
  PROVE  \A s \in Sess, j \in Kind, q \in Task :
           Sent(s, j, q)' => Sent(s, j, q) \/ (s = hub /\ j = k /\ q = t)
<1> SUFFICES ASSUME NEW s \in Sess, NEW j \in Kind, NEW q \in Task, Sent(s, j, q)'
             PROVE  Sent(s, j, q) \/ (s = hub /\ j = k /\ q = t)
  OBVIOUS
<1>1. CASE down'[s] = down[s]
  BY <1>1 DEF Sent
<1>2. CASE s = hub /\ down'[s] = Append(down[s], [k |-> k, t |-> t])
  <2>1. down[s] \in Seq(Command)
    BY DEF TypeOK
  <2>2. PICK i \in DOMAIN down'[s] : down'[s][i].k = j /\ down'[s][i].t = q
    BY DEF Sent
  <2>3. CASE i = Len(down[s]) + 1
    BY <1>2, <2>1, <2>2, <2>3
  <2>4. CASE i \in DOMAIN down[s]
    <3>1. down'[s][i] = down[s][i]
      BY <1>2, <2>1, <2>4
    <3> QED
      BY <2>2, <2>4, <3>1 DEF Sent
  <2> QED
    BY <1>2, <2>1, <2>3, <2>4
<1> QED
  BY <1>1, <1>2 DEF Pushed

PrOk(t) == pr'[t] = pr[t] \/ PrDue(t)'
StatusOk(t) ==
  /\ task'[t] = "merged" => task[t] = "merged" \/ t \in merged'
  /\ task'[t] = "blocked" => task[t] = "blocked" \/ Reviewed(t)'

\* A statement of the handler of s.
LEMMA DueMoves ==
  ASSUME TypeOK, Due, NEW s \in Sess, UNCHANGED steady, Grows,
         NEW q \in Task, hnd[s].t = q,
         \A r \in Sess \ {s} : hnd'[r] = hnd[r],
         HndOk(s),
         \/ UNCHANGED down
         \/ \E k \in Kind : Pushed(k, q) /\ CommandDue(k, q)',
         \A t \in Task : PrOk(t) /\ StatusOk(t)
  PROVE  Due'
<1>1. UNCHANGED <<up, rest, merged>>
  BY DEF steady, outside
<1>2. \A r \in Sess : HndOk(r)
  BY DEF HndOk
<1>3. ASSUME NEW r \in Sess PROVE DownOk(r)
  <2>1. CASE UNCHANGED down
    BY <2>1 DEF DownOk, Sent
  <2>2. ASSUME NEW k \in Kind, Pushed(k, q), CommandDue(k, q)'
        PROVE  DownOk(r)
    <3>1. \A j \in Kind, t \in Task :
            Sent(r, j, t)' => Sent(r, j, t) \/ (j = k /\ t = q)
      BY <2>2, PushSends
    <3> QED
      BY <2>2, <3>1 DEF DownOk
  <2> QED
    BY <2>1, <2>2
<1>4. \A r \in Sess : UpOk(r)
  BY <1>1 DEF UpOk, Reported
<1>5. \A t \in Task : TaskOk(t)
  BY <1>1 DEF TaskOk, PrOk, StatusOk
<1> QED
  BY <1>2, <1>3, <1>4, <1>5, DueFrame

LEMMA DueHandlerStep ==
  ASSUME TypeOK, Due, NEW s \in Sess, Handler(s), ~Recv(s), ~DispatchExec(s)
  PROVE  Due'
<1>1. PICK q \in Task : hnd[s].t = q
  BY HndFields
<1>2. StatementDue(s, q) /\ PrDue(q) /\ TaskDue(q)
  BY <1>1 DEF Due, HndDue
<1>3. \A p \in HndPc : Goto(s, p) =>
        /\ hnd'[s].pc = p /\ hnd'[s].t = q /\ hnd'[s].ok = hnd[s].ok
        /\ \A r \in Sess \ {s} : hnd'[r] = hnd[r]
  BY <1>1, Moves DEF Moved
<1>4. /\ hnd'[s].t = q /\ StatementDue(s, q)' => HndOk(s)
      /\ hnd'[s].pc = "idle" => HndOk(s)
  BY DEF HndOk, HndDue
<1>5. /\ \A k \in Kind : DispatchStep(k, q) => Pushed(k, q)
      /\ pr' = pr => \A t \in Task : PrOk(t)
      /\ task' = task => \A t \in Task : StatusOk(t)
      /\ \A st \in Status \ {"merged", "blocked"} :
           SetStatus(q, st) => \A t \in Task : StatusOk(t)
  BY HubPush, StatusTypes DEF PrOk, StatusOk
<1>6. ASSUME UNCHANGED <<prs, merged>>,
             past' = past \/ \E f \in Flags : Remember(q, f)
      PROVE  Grows
  BY <1>6, RememberGrows DEF Flags
<1>7. /\ UNCHANGED steady => UNCHANGED merged
      /\ UNCHANGED quiet => UNCHANGED merged /\ UNCHANGED steady
  BY DEF quiet, steady, outside
<1>8. CASE SavePlan(s)
  <2>1. HndOk(s) /\ \A r \in Sess \ {s} : hnd'[r] = hnd[r]
    BY <1>3, <1>8 DEF SavePlan, HndPc, HndOk
  <2>2. \A t \in Task : PrOk(t) /\ StatusOk(t)
    BY <1>1, <1>5, <1>8 DEF SavePlan, Status, Terminal
  <2>3. Grows
    BY <1>6, <1>7, <1>8 DEF SavePlan
  <2> QED
    BY <1>1, <1>7, <1>8, <2>1, <2>2, <2>3, DueMoves DEF SavePlan
<1>9. CASE InsertPr(s)
  <2>1. /\ hnd'[s].pc = "prSaved" /\ hnd'[s].t = q
        /\ \A r \in Sess \ {s} : hnd'[r] = hnd[r]
    BY <1>3, <1>9 DEF InsertPr, HndPc
  <2>2. /\ prs'[q] = prs[q] + 1 /\ prs[q] \in Nat /\ pr'[q] = NewPr
        /\ \A t \in Task \ {q} : prs'[t] = prs[t] /\ pr'[t] = pr[t]
    BY <1>1, <1>9 DEF InsertPr, TypeOK
  <2>3. Grows
    BY <1>7, <1>9, <2>2 DEF InsertPr, Grows
  <2>4. Ran(q)'
    BY <2>2 DEF Ran
  <2>5. HndOk(s)
    BY <1>4, <2>1, <2>4 DEF StatementDue, EventDue
  <2>6. PrDue(q)'
    BY <2>2 DEF PrDue, NewPr
  <2>7. \A t \in Task : PrOk(t) /\ StatusOk(t)
    BY <1>5, <1>9, <2>2, <2>6 DEF InsertPr, PrOk
  <2> QED
    BY <1>1, <1>7, <1>9, <2>1, <2>3, <2>5, <2>7, DueMoves DEF InsertPr
<1>10. CASE ExecSaved(s)
  <2>1. /\ hnd'[s].pc = "afterExec" /\ hnd'[s].t = q
        /\ \A r \in Sess \ {s} : hnd'[r] = hnd[r]
    BY <1>3, <1>10 DEF ExecSaved, HndPc
  <2>2. Ran(q)'
    BY <1>2, <1>10 DEF ExecSaved, At, StatementDue, Ran
  <2>3. HndOk(s)
    BY <1>4, <2>1, <2>2 DEF StatementDue, EventDue
  <2>4. \A t \in Task : PrOk(t) /\ StatusOk(t)
    BY <1>1, <1>5, <1>10 DEF ExecSaved, Status, Terminal
  <2>5. Grows
    BY <1>6, <1>7, <1>10 DEF ExecSaved
  <2> QED
    BY <1>1, <1>7, <1>10, <2>1, <2>3, <2>4, <2>5, DueMoves DEF ExecSaved
<1>11. CASE AfterExec(s)
  <2>1. HndOk(s) /\ \A r \in Sess \ {s} : hnd'[r] = hnd[r]
    BY <1>3, <1>4, <1>11 DEF AfterExec, HndPc
  <2>2. Grows
    BY <1>1, <1>6, <1>7, <1>11 DEF AfterExec, rows, Flags
  <2>3. Ran(q)'
    BY <1>2, <1>11, <2>2, GrowsFacts DEF AfterExec, At, StatementDue
  <2>4. \E k \in Kind : Pushed(k, q) /\ CommandDue(k, q)'
    <3>1. CASE cfg.tests
      <4>1. Pushed("test", q)
        BY <1>1, <1>5, <1>11, <3>1 DEF AfterExec, Kind
      <4>2. CommandDue("test", q)'
        BY <2>3 DEF CommandDue
      <4> QED
        BY <4>1, <4>2 DEF Kind
    <3>2. CASE ~cfg.tests
      <4>1. Pushed("review", q) /\ Remember(q, "skipped")
        BY <1>1, <1>5, <1>11, <3>2 DEF AfterExec, Kind
      <4>2. past'[q].skipped
        BY <4>1, Remembered
      <4>3. CommandDue("review", q)'
        BY <2>3, <4>2 DEF CommandDue, Tested
      <4> QED
        BY <4>1, <4>3 DEF Kind
    <3> QED
      BY <3>1, <3>2
  <2>5. \A t \in Task : PrOk(t) /\ StatusOk(t)
    BY <1>5, <1>11 DEF AfterExec, rows
  <2> QED
    BY <1>1, <1>7, <1>11, <2>1, <2>2, <2>4, <2>5, DueMoves DEF AfterExec
<1>12. CASE SetCIResult(s)
  <2>1. /\ hnd'[s].pc = "afterTest" /\ hnd'[s].t = q /\ hnd'[s].ok = hnd[s].ok
        /\ \A r \in Sess \ {s} : hnd'[r] = hnd[r]
    BY <1>3, <1>12 DEF SetCIResult, HndPc
  <2>2. Grows
    BY <1>1, <1>6, <1>7, <1>12 DEF SetCIResult, Flags
  <2>3. Ran(q)'
    BY <1>2, <1>12, <2>2, GrowsFacts
       DEF SetCIResult, At, StatementDue, EventDue
  <2>4. hnd[s].ok => past'[q].green
    BY <1>1, <1>12, Remembered DEF SetCIResult
  <2>5. HndOk(s)
    BY <1>4, <2>1, <2>3, <2>4 DEF StatementDue, EventDue
  <2> DEFINE new == [pr[q] EXCEPT
                       !.ci = IF hnd[s].ok THEN "passed" ELSE "failed"]
  <2>6. /\ new \in PrRow /\ new.ai = pr[q].ai /\ new.hu = pr[q].hu
        /\ new.st = pr[q].st
        /\ new.ci = "passed" => hnd[s].ok
    <3>1. pr[q] \in PrRow /\ hnd[s].ok \in BOOLEAN
      BY HndFields DEF TypeOK
    <3> QED
      BY <3>1 DEF PrRow
  <2>7. SetPr(q, new)
    BY <1>1, <1>12 DEF SetCIResult
  <2> HIDE DEF new
  <2>8. /\ \A t \in Task \ {q} : pr'[t] = pr[t]
        /\ pr'[q] = pr[q] \/ pr'[q] = new
    BY <2>6, <2>7, PrTypes
  <2>9. pr'[q] = new => PrDue(q)'
    BY <1>2, <2>2, <2>4, <2>6, GrowsFacts DEF PrDue
  <2>10. \A t \in Task : PrOk(t) /\ StatusOk(t)
    BY <1>5, <1>12, <2>8, <2>9 DEF SetCIResult, PrOk
  <2> QED
    BY <1>1, <1>7, <1>12, <2>1, <2>2, <2>5, <2>10, DueMoves DEF SetCIResult
<1>13. CASE AfterTest(s)
  <2>1. HndOk(s) /\ \A r \in Sess \ {s} : hnd'[r] = hnd[r]
    BY <1>3, <1>4, <1>13 DEF AfterTest, HndPc
  <2>2. Grows
    BY <1>6, <1>7, <1>13 DEF AfterTest
  <2>3. \/ UNCHANGED down
        \/ \E k \in Kind : Pushed(k, q) /\ CommandDue(k, q)'
    <3>1. CASE hnd[s].ok
      <4>1. Pushed("review", q)
        BY <1>1, <1>5, <1>13, <3>1 DEF AfterTest, Kind
      <4>2. Ran(q) /\ past[q].green
        BY <1>2, <1>13, <3>1 DEF AfterTest, At, StatementDue
      <4>3. CommandDue("review", q)'
        BY <1>13, <4>2 DEF AfterTest, CommandDue, Tested, Ran
      <4> QED
        BY <4>1, <4>3 DEF Kind
    <3> QED
      BY <1>13, <3>1 DEF AfterTest
  <2>4. \A t \in Task : PrOk(t) /\ StatusOk(t)
    BY <1>1, <1>5, <1>13 DEF AfterTest, Status, Terminal
  <2> QED
    BY <1>1, <1>7, <1>13, <2>1, <2>2, <2>3, <2>4, DueMoves DEF AfterTest
<1>14. CASE SetAIReview(s)
  <2>1. /\ hnd'[s].pc = "afterReview" /\ hnd'[s].t = q
        /\ hnd'[s].ok = hnd[s].ok
        /\ \A r \in Sess \ {s} : hnd'[r] = hnd[r]
    BY <1>3, <1>14 DEF SetAIReview, HndPc
  <2>2. Grows
    BY <1>1, <1>6, <1>7, <1>14 DEF SetAIReview, Flags
  <2>3. Tested(q)'
    <3>1. Tested(q)
      BY <1>2, <1>14 DEF SetAIReview, At, StatementDue, EventDue
    <3> QED
      BY <2>2, <3>1, GrowsFacts
  <2>4. hnd[s].ok => past'[q].approved
    BY <1>1, <1>14, Remembered DEF SetAIReview
  <2>5. HndOk(s)
    BY <1>4, <2>1, <2>3, <2>4 DEF StatementDue, EventDue
  <2> DEFINE new == [pr[q] EXCEPT
                       !.ai = IF hnd[s].ok THEN "approved" ELSE "changes"]
  <2>6. /\ new \in PrRow /\ new.ci = pr[q].ci /\ new.hu = pr[q].hu
        /\ new.st = pr[q].st
        /\ new.ai = "approved" => hnd[s].ok
    <3>1. pr[q] \in PrRow /\ hnd[s].ok \in BOOLEAN
      BY HndFields DEF TypeOK
    <3> QED
      BY <3>1 DEF PrRow, Verdict
  <2>7. SetPr(q, new)
    BY <1>1, <1>14 DEF SetAIReview
  <2> HIDE DEF new
  <2>8. /\ \A t \in Task \ {q} : pr'[t] = pr[t]
        /\ pr'[q] = pr[q] \/ pr'[q] = new
    BY <2>6, <2>7, PrTypes
  <2>9. pr'[q] = new => PrDue(q)'
    BY <1>2, <2>2, <2>3, <2>4, <2>6, GrowsFacts DEF PrDue, Reviewed
  <2>10. \A t \in Task : PrOk(t) /\ StatusOk(t)
    BY <1>5, <1>14, <2>8, <2>9 DEF SetAIReview, PrOk
  <2> QED
    BY <1>1, <1>7, <1>14, <2>1, <2>2, <2>5, <2>10, DueMoves DEF SetAIReview
<1>15. CASE AfterReview(s)
  <2>1. Grows
    BY <1>6, <1>7, <1>15 DEF AfterReview
  <2>2. HndOk(s) /\ \A r \in Sess \ {s} : hnd'[r] = hnd[r]
    <3>1. CASE hnd[s].ok
      <4>1. /\ hnd'[s].pc = "gate" /\ hnd'[s].t = q
            /\ \A r \in Sess \ {s} : hnd'[r] = hnd[r]
        BY <1>3, <1>15, <3>1 DEF AfterReview, HndPc
      <4>2. Reviewed(q)
        BY <1>2, <1>15, <3>1 DEF AfterReview, At, StatementDue, Reviewed
      <4>3. Reviewed(q)'
        BY <2>1, <4>2, GrowsFacts
      <4> QED
        BY <1>4, <4>1, <4>3 DEF StatementDue, EventDue
    <3>2. CASE ~hnd[s].ok
      BY <1>3, <1>4, <1>15, <3>2 DEF AfterReview, HndPc
    <3> QED
      BY <3>1, <3>2
  <2>3. \A t \in Task : PrOk(t) /\ StatusOk(t)
    BY <1>1, <1>5, <1>15 DEF AfterReview, Status, Terminal
  <2> QED
    BY <1>1, <1>7, <1>15, <2>1, <2>2, <2>3, DueMoves DEF AfterReview
<1>16. CASE Gate(s)
  <2>1. Grows
    BY <1>1, <1>6, <1>7, <1>16 DEF Gate, rows, Flags
  <2>2. Reviewed(q) /\ Reviewed(q)'
    BY <1>2, <1>16, <2>1, GrowsFacts DEF Gate, At, StatementDue
  <2>3. ~cfg.gate => past'[q].ungated
    BY <1>1, <1>16, Remembered DEF Gate
  <2>4. /\ hnd[s].pc = "gate" /\ HumanApproved(q)
             => past[q].human \/ past[q].overruled
        /\ hnd[s].pc # "gate" /\ hnd[s].ok
             => past[q].human \/ past[q].overruled
    BY <1>2, <1>16 DEF Gate, At, HumanApproved, PrDue, StatementDue
  <2>5. /\ hnd'[s].t = q /\ \A r \in Sess \ {s} : hnd'[r] = hnd[r]
        /\ hnd'[s].pc = "block" \/ (hnd'[s].pc = "sendMerge" /\ MayMerge(q)')
    <3>1. CASE cfg.gate /\ ~(IF hnd[s].pc = "gate" THEN HumanApproved(q)
                             ELSE hnd[s].ok)
      BY <1>1, <1>3, <1>16, <3>1 DEF Gate, HndPc
    <3>2. CASE cfg.gate => IF hnd[s].pc = "gate" THEN HumanApproved(q)
                           ELSE hnd[s].ok
      <4>1. Goto(s, "sendMerge")
        BY <1>1, <1>16, <3>2 DEF Gate
      <4>2. past[q].human \/ past[q].overruled \/ ~cfg.gate
        BY <2>4, <3>2
      <4>3. MayMerge(q)'
        BY <2>1, <2>2, <2>3, <4>2, GrowsFacts DEF MayMerge, Cleared
      <4> QED
        BY <1>3, <4>1, <4>3 DEF HndPc
    <3> QED
      BY <3>1, <3>2
  <2>6. HndOk(s)
    BY <1>4, <2>2, <2>5 DEF StatementDue, EventDue
  <2>7. \A t \in Task : PrOk(t) /\ StatusOk(t)
    BY <1>5, <1>16 DEF Gate, rows
  <2> QED
    BY <1>1, <1>7, <1>16, <2>1, <2>5, <2>6, <2>7, DueMoves DEF Gate
<1>17. CASE SetTaskBlocked(s)
  <2>1. HndOk(s) /\ \A r \in Sess \ {s} : hnd'[r] = hnd[r]
    BY <1>3, <1>4, <1>17 DEF SetTaskBlocked, HndPc
  <2>2. Grows
    BY <1>6, <1>7, <1>17 DEF SetTaskBlocked
  <2>3. Reviewed(q)'
    BY <1>2, <1>17, <2>2, GrowsFacts DEF SetTaskBlocked, At, StatementDue
  <2>4. \A t \in Task : PrOk(t) /\ StatusOk(t)
    BY <1>1, <1>5, <1>17, <2>3, StatusTypes DEF SetTaskBlocked, Status, StatusOk
  <2> QED
    BY <1>1, <1>7, <1>17, <2>1, <2>2, <2>4, DueMoves DEF SetTaskBlocked
<1>18. CASE MarkPrMerged(s)
  <2>1. /\ hnd'[s].pc = "prMerged" /\ hnd'[s].t = q
        /\ \A r \in Sess \ {s} : hnd'[r] = hnd[r]
    BY <1>3, <1>18 DEF MarkPrMerged, HndPc
  <2>2. Grows
    BY <1>6, <1>7, <1>18 DEF MarkPrMerged
  <2>3. q \in merged'
    BY <1>2, <1>18, <2>2, GrowsFacts
       DEF MarkPrMerged, At, StatementDue, EventDue
  <2>4. HndOk(s)
    BY <1>4, <2>1, <2>3 DEF StatementDue, EventDue
  <2> DEFINE new == [pr[q] EXCEPT !.st = "merged"]
  <2>5. /\ new \in PrRow /\ new.ci = pr[q].ci /\ new.hu = pr[q].hu
        /\ new.ai = pr[q].ai
    <3>1. pr[q] \in PrRow
      BY DEF TypeOK
    <3> QED
      BY <3>1 DEF PrRow
  <2>6. SetPr(q, new)
    BY <1>1, <1>18 DEF MarkPrMerged
  <2> HIDE DEF new
  <2>7. /\ \A t \in Task \ {q} : pr'[t] = pr[t]
        /\ pr'[q] = pr[q] \/ pr'[q] = new
    BY <2>5, <2>6, PrTypes
  <2>8. pr'[q] = pr[q] \/ prs'[q] > 0
    BY <1>18, <2>6 DEF MarkPrMerged, SetPr, TypeOK
  <2>a. pr'[q] # pr[q] => PrDue(q)'
    BY <1>2, <2>2, <2>3, <2>5, <2>7, <2>8, GrowsFacts DEF PrDue
  <2>9. \A t \in Task : PrOk(t) /\ StatusOk(t)
    BY <1>5, <1>18, <2>a, <2>7, <2>8 DEF MarkPrMerged, PrOk
  <2> QED
    BY <1>1, <1>7, <1>18, <2>1, <2>2, <2>4, <2>9, DueMoves DEF MarkPrMerged
<1>19. CASE MarkTaskMerged(s)
  <2>1. HndOk(s) /\ \A r \in Sess \ {s} : hnd'[r] = hnd[r]
    BY <1>3, <1>4, <1>19 DEF MarkTaskMerged, HndPc
  <2>2. Grows
    BY <1>6, <1>7, <1>19 DEF MarkTaskMerged
  <2>3. q \in merged'
    BY <1>2, <1>19, <2>2, GrowsFacts DEF MarkTaskMerged, At, StatementDue
  <2>4. \A t \in Task : PrOk(t) /\ StatusOk(t)
    BY <1>1, <1>5, <1>19, <2>3, StatusTypes
       DEF MarkTaskMerged, Status, Terminal, StatusOk
  <2> QED
    BY <1>1, <1>7, <1>19, <2>1, <2>2, <2>4, DueMoves DEF MarkTaskMerged
<1>20. CASE FailTask(s)
  <2>1. HndOk(s) /\ \A r \in Sess \ {s} : hnd'[r] = hnd[r]
    BY <1>3, <1>4, <1>20 DEF FailTask, HndPc
  <2>2. Grows
    BY <1>6, <1>7, <1>20 DEF FailTask
  <2>3. \A t \in Task : PrOk(t) /\ StatusOk(t)
    BY <1>1, <1>5, <1>20 DEF FailTask, Status, Terminal
  <2> QED
    BY <1>1, <1>7, <1>20, <2>1, <2>2, <2>3, DueMoves DEF FailTask
<1>21. CASE Reconcile(s)
  <2>1. Grows
    BY <1>6, <1>7, <1>21 DEF Reconcile, rows
  <2> DEFINE h == [pc |-> ReconcileNext(q), t |-> q,
                   ok |-> pr[q].hu = "approved"]
  <2>2. hnd' = [hnd EXCEPT ![s] = h]
    BY <1>1, <1>21 DEF Reconcile
  <2> HIDE DEF h
  <2>3. hnd'[s] = h /\ \A r \in Sess \ {s} : hnd'[r] = hnd[r]
    BY <2>2 DEF TypeOK
  <2>4. /\ hnd'[s].pc = ReconcileNext(q) /\ hnd'[s].t = q
        /\ hnd'[s].ok = (pr[q].hu = "approved")
    BY <2>3 DEF h
  <2>5. /\ Ran(q) => Ran(q)'
        /\ Tested(q) => Tested(q)'
        /\ Reviewed(q) => Reviewed(q)'
        /\ past[q].human => past'[q].human
        /\ past[q].overruled => past'[q].overruled
    BY <2>1, GrowsFacts
  <2>6. ASSUME ReconcileNext(q) = "idle" PROVE HndOk(s)
    BY <1>4, <2>4, <2>6
  <2>7. ASSUME ReconcileNext(q) # "idle" PROVE HndOk(s)
    <3>1. Ran(q)
      BY <2>7 DEF ReconcileNext, Ran, TypeOK
    <3>2. \/ ReconcileNext(q) = "sendTest"
          \/ ReconcileNext(q) = "sendReview" /\ pr[q].ci = "passed"
          \/ ReconcileNext(q) = "regate" /\ pr[q].ai = "approved"
      BY <2>7 DEF ReconcileNext
    <3>3. \/ ReconcileNext(q) = "sendTest"
          \/ ReconcileNext(q) = "sendReview" /\ Tested(q)
          \/ ReconcileNext(q) = "regate" /\ Reviewed(q)
      BY <1>2, <3>1, <3>2 DEF PrDue, Tested
    <3>4. hnd'[s].ok => past[q].human \/ past[q].overruled
      BY <1>2, <2>4 DEF PrDue
    <3>5. StatementDue(s, q)'
      BY <2>4, <2>5, <3>1, <3>3, <3>4 DEF StatementDue, EventDue
    <3> QED
      BY <1>4, <2>4, <3>5
  <2>8. \A t \in Task : PrOk(t) /\ StatusOk(t)
    BY <1>5, <1>21 DEF Reconcile, rows
  <2> QED
    BY <1>1, <1>7, <1>21, <2>1, <2>3, <2>6, <2>7, <2>8, DueMoves DEF Reconcile
<1>22. CASE SendStep(s)
  <2>1. HndOk(s) /\ \A r \in Sess \ {s} : hnd'[r] = hnd[r]
    BY <1>3, <1>4, <1>22 DEF SendStep, HndPc
  <2>2. Grows
    BY <1>6, <1>7, <1>22 DEF SendStep, rows
  <2>3. \E k \in Kind : Pushed(k, q) /\ CommandDue(k, q)'
    <3>1. \/ hnd[s].pc = "sendTest" /\ DispatchStep("test", q)
          \/ hnd[s].pc = "sendReview" /\ DispatchStep("review", q)
          \/ hnd[s].pc = "sendMerge" /\ DispatchStep("merge", q)
      BY <1>1, <1>22 DEF SendStep, At
    <3>2. CASE hnd[s].pc = "sendTest" /\ DispatchStep("test", q)
      <4>1. CommandDue("test", q)'
        BY <1>2, <2>2, <3>2, GrowsFacts DEF StatementDue, CommandDue
      <4> QED
        BY <1>5, <3>2, <4>1 DEF Kind
    <3>3. CASE hnd[s].pc = "sendReview" /\ DispatchStep("review", q)
      <4>1. CommandDue("review", q)'
        BY <1>2, <2>2, <3>3, GrowsFacts DEF StatementDue, CommandDue
      <4> QED
        BY <1>5, <3>3, <4>1 DEF Kind
    <3>4. CASE hnd[s].pc = "sendMerge" /\ DispatchStep("merge", q)
      <4>1. CommandDue("merge", q)'
        BY <1>2, <2>2, <3>4, GrowsFacts DEF StatementDue, CommandDue
      <4> QED
        BY <1>5, <3>4, <4>1 DEF Kind
    <3> QED
      BY <3>1, <3>2, <3>3, <3>4
  <2>4. \A t \in Task : PrOk(t) /\ StatusOk(t)
    BY <1>5, <1>22 DEF SendStep, rows
  <2> QED
    BY <1>1, <1>7, <1>22, <2>1, <2>2, <2>3, <2>4, DueMoves DEF SendStep
<1>23. CASE AfterExecMisread(s)
  <2>1. HndOk(s) /\ \A r \in Sess \ {s} : hnd'[r] = hnd[r]
    BY <1>3, <1>4, <1>23 DEF AfterExecMisread, HndPc
  <2>2. Grows
    BY <1>6, <1>7, <1>23 DEF AfterExecMisread, rows
  <2>3. Ran(q)
    BY <1>2, <1>23 DEF AfterExecMisread, At, StatementDue
  <2>4. Pushed("test", q)
    BY <1>1, <1>5, <1>23 DEF AfterExecMisread, Kind
  <2>5. CommandDue("test", q)'
    BY <2>2, <2>3, GrowsFacts DEF CommandDue
  <2>6. \A t \in Task : PrOk(t) /\ StatusOk(t)
    BY <1>5, <1>23 DEF AfterExecMisread, rows
  <2>7. \E k \in Kind : Pushed(k, q) /\ CommandDue(k, q)'
    BY <2>4, <2>5 DEF Kind
  <2> QED
    BY <1>1, <1>23, <2>1, <2>2, <2>6, <2>7, DueMoves DEF AfterExecMisread
<1>24. CASE GateMisread(s)
  <2>1. Grows
    BY <1>1, <1>6, <1>7, <1>24 DEF GateMisread, rows, Flags
  <2>2. Reviewed(q)'
    BY <1>2, <1>24, <2>1, GrowsFacts DEF GateMisread, At, StatementDue
  <2>3. /\ hnd'[s].t = q /\ \A r \in Sess \ {s} : hnd'[r] = hnd[r]
        /\ hnd'[s].pc = "block" \/ (hnd'[s].pc = "sendMerge" /\ MayMerge(q)')
    <3>1. CASE Goto(s, "block")
      BY <1>3, <3>1 DEF HndPc
    <3>2. CASE Goto(s, "sendMerge") /\ Remember(q, "ungated")
      <4>1. MayMerge(q)'
        BY <2>2, <3>2, Remembered DEF MayMerge, Cleared
      <4> QED
        BY <1>3, <3>2, <4>1 DEF HndPc
    <3> QED
      BY <1>1, <1>24, <3>1, <3>2 DEF GateMisread
  <2>4. HndOk(s)
    BY <1>4, <2>2, <2>3 DEF StatementDue, EventDue
  <2>5. \A t \in Task : PrOk(t) /\ StatusOk(t)
    BY <1>5, <1>24 DEF GateMisread, rows
  <2> QED
    BY <1>1, <1>24, <2>1, <2>3, <2>4, <2>5, DueMoves DEF GateMisread
<1>25. CASE StatementFails(s)
  <2>a. \/ hnd[s].pc = "exec" /\ Remember(q, "unsaved")
        \/ hnd[s].pc = "test" /\ hnd[s].ok /\ Remember(q, "green")
        \/ hnd[s].pc = "review" /\ hnd[s].ok /\ Remember(q, "approved")
        \/ /\ hnd[s].pc # "exec" /\ UNCHANGED past
           /\ hnd[s].pc \in {"test", "review"} => ~hnd[s].ok
    BY <1>1, <1>25, FailureRemembers
  <2>1. Grows
    BY <1>6, <1>7, <1>25, <2>a DEF StatementFails, rows, Flags
  <2>2. PICK p \in HndPc : p = hnd[s].pc
    BY HndFields
  <2>3. /\ hnd'[s].pc = AfterFailure(p) /\ hnd'[s].t = q
        /\ hnd'[s].ok = hnd[s].ok
        /\ \A r \in Sess \ {s} : hnd'[r] = hnd[r]
    BY <1>3, <1>25, <2>2, FailureGoes DEF StatementFails
  <2>4. ASSUME p \in {"exec", "prSaved"} PROVE HndOk(s)
    <3>1. Ran(q)'
      <4>1. CASE p = "exec"
        BY <2>2, <2>a, <4>1, Remembered DEF Ran
      <4>2. CASE p = "prSaved"
        BY <1>2, <2>1, <2>2, <4>2, GrowsFacts DEF StatementDue
      <4> QED
        BY <2>4, <4>1, <4>2
    <3>2. hnd'[s].pc = "afterExec"
      BY <2>3, <2>4, FailureGoes
    <3> QED
      BY <1>4, <2>3, <3>1, <3>2 DEF StatementDue, EventDue
  <2>5. ASSUME p = "test" PROVE HndOk(s)
    <3>1. Ran(q)'
      BY <1>2, <2>1, <2>2, <2>5, GrowsFacts DEF StatementDue, EventDue
    <3>2. hnd[s].ok => past'[q].green
      BY <2>2, <2>5, <2>a, Remembered
    <3>3. hnd'[s].pc = "afterTest"
      BY <2>3, <2>5, FailureGoes
    <3> QED
      BY <1>4, <2>3, <3>1, <3>2, <3>3 DEF StatementDue, EventDue
  <2>6. ASSUME p = "review" PROVE HndOk(s)
    <3>1. Tested(q)'
      BY <1>2, <2>1, <2>2, <2>6, GrowsFacts DEF StatementDue, EventDue
    <3>2. hnd[s].ok => past'[q].approved
      BY <2>2, <2>6, <2>a, Remembered
    <3>3. hnd'[s].pc = "afterReview"
      BY <2>3, <2>6, FailureGoes
    <3> QED
      BY <1>4, <2>3, <3>1, <3>2, <3>3 DEF StatementDue, EventDue
  <2>7. ASSUME p = "merge" PROVE HndOk(s)
    <3>1. q \in merged'
      BY <1>2, <2>1, <2>2, <2>7, GrowsFacts DEF StatementDue, EventDue
    <3>2. hnd'[s].pc = "prMerged"
      BY <2>3, <2>7, FailureGoes
    <3> QED
      BY <1>4, <2>3, <3>1, <3>2 DEF StatementDue, EventDue
  <2>8. ASSUME p \notin {"exec", "prSaved", "test", "review", "merge"} PROVE HndOk(s)
    BY <1>4, <2>3, <2>8, FailureGoes
  <2>9. HndOk(s)
    BY <2>4, <2>5, <2>6, <2>7, <2>8
  <2>10. \A t \in Task : PrOk(t) /\ StatusOk(t)
    BY <1>5, <1>25 DEF StatementFails, rows
  <2> QED
    BY <1>1, <1>25, <2>1, <2>3, <2>9, <2>10, DueMoves DEF StatementFails
<1> QED
  BY <1>8, <1>9, <1>10, <1>11, <1>12, <1>13, <1>14, <1>15, <1>16, <1>17,
     <1>18, <1>19, <1>20, <1>21, <1>22, <1>23, <1>24, <1>25 DEF Handler

\* A step that leaves the decisions alone and in which no task is blocked, merged
\* or answered.
StillRows == UNCHANGED <<task, prs, pr, merged, past>>

LEMMA StillFacts ==
  ASSUME StillRows,
         \A t \in Task : rest'[t] = "merge" => rest[t] = "merge"
  PROVE  /\ Grows
         /\ \A t \in Task : TaskOk(t)
         /\ \A k \in Kind, t \in Task : CommandDue(k, t) => CommandDue(k, t)'
         /\ \A k \in Kind, t \in Task : EventDue(k, t) => EventDue(k, t)'
<1>1. Grows
  BY DEF StillRows, Grows
<1>2. \A t \in Task : TaskOk(t)
  BY DEF StillRows, TaskOk
<1>3. \A k \in Kind, t \in Task : CommandDue(k, t) => CommandDue(k, t)'
  BY <1>1, GrowsFacts DEF CommandDue
<1>4. \A k \in Kind, t \in Task : EventDue(k, t) => EventDue(k, t)'
  BY <1>1, GrowsFacts DEF EventDue
<1> QED
  BY <1>1, <1>2, <1>3, <1>4

\* A queue that only loses messages owes nothing new.
LEMMA TailIn ==
  ASSUME NEW S, NEW q \in Seq(S), q # <<>>, NEW i \in DOMAIN Tail(q)
  PROVE  i + 1 \in DOMAIN q /\ Tail(q)[i] = q[i + 1]
OBVIOUS

LEMMA DueRecv ==
  ASSUME TypeOK, Due, NEW s \in Sess, Recv(s)
  PROVE  Due'
<1>1. /\ up[s] # <<>> /\ up[s] \in Seq(Event)
      /\ hnd'[s] = [pc |-> up[s][1].k, t |-> up[s][1].t, ok |-> up[s][1].ok]
      /\ up'[s] = Tail(up[s])
      /\ \A r \in Sess \ {s} : hnd'[r] = hnd[r] /\ up'[r] = up[r]
  BY RecvTakes
<1>2. StillRows /\ UNCHANGED <<rest, down>>
  BY DEF Recv, StillRows, rows, outside
<1>3. Grows /\ \A t \in Task : TaskOk(t)
  BY <1>2, StillFacts
<1>4. \A r \in Sess : DownOk(r)
  BY <1>2 DEF DownOk, Sent
<1>5. ASSUME NEW r \in Sess PROVE UpOk(r)
  <2>1. CASE r # s
    BY <1>1, <2>1 DEF UpOk, Reported
  <2>2. CASE r = s
    <3> SUFFICES ASSUME NEW k \in Kind, NEW t \in Task, Reported(s, k, t)'
                 PROVE  Reported(s, k, t)
      BY <2>2 DEF UpOk
    <3>1. PICK i \in DOMAIN Tail(up[s]) : Tail(up[s])[i].k = k /\ Tail(up[s])[i].t = t
      BY <1>1 DEF Reported
    <3> QED
      BY <1>1, <3>1, TailIn DEF Reported
  <2> QED
    BY <2>1, <2>2
<1>6. HndOk(s)
  <2>1. PICK m \in Event : m = up[s][1] /\ 1 \in DOMAIN up[s]
    BY <1>1
  <2>2. hnd'[s].pc = m.k /\ hnd'[s].t = m.t
    BY <1>1, <2>1
  <2>3. m.k \in Kind \cup {"fail", "snapshot"} /\ m.t \in Task
    BY DEF Event
  <2>4. CASE m.k \in Kind
    <3>1. Reported(s, m.k, m.t)
      BY <2>1 DEF Reported
    <3>2. EventDue(m.k, m.t)
      BY <2>3, <2>4, <3>1 DEF Due, UpDue
    <3>3. EventDue(m.k, m.t)'
      BY <1>2, <2>3, <2>4, <3>2, StillFacts
    <3>4. ASSUME NEW t \in Task, t = m.t PROVE StatementDue(s, t)'
      BY <2>2, <2>4, <3>3, <3>4 DEF StatementDue, EventDue, Kind
    <3> QED
      BY <2>2, <3>4 DEF HndOk, HndDue
  <2>5. CASE m.k \in {"fail", "snapshot"}
    BY <2>2, <2>5 DEF HndOk
  <2> QED
    BY <2>3, <2>4, <2>5
<1>7. \A r \in Sess : HndOk(r)
  BY <1>1, <1>6 DEF HndOk
<1> QED
  BY <1>3, <1>4, <1>5, <1>7, DueFrame

\* The cerebro dies, alone or in the push of an exec.
LEMMA DueDeath ==
  ASSUME TypeOK, Due, ProcessDies, StillRows
  PROVE  Due'
<1>1. \A s \in Sess : HndOk(s)
  BY DeathTypes DEF HndOk
<1>2. \A s \in Sess : down'[s] = <<>> /\ up'[s] = <<>>
  BY DEF ProcessDies
<1>3. \A s \in Sess : DownOk(s) /\ UpOk(s)
  BY <1>2 DEF DownOk, UpOk, Sent, Reported
<1>4. \A t \in Task : rest'[t] # "merge"
  BY DEF ProcessDies
<1>5. Grows /\ \A t \in Task : TaskOk(t)
  BY <1>4, StillFacts
<1> QED
  BY <1>1, <1>3, <1>5, DueFrame

LEMMA DueDispatchExec ==
  ASSUME TypeOK, Due, NEW s \in Sess, DispatchExec(s)
  PROVE  Due'
<1>1. PICK q \in Task : hnd[s].t = q
  BY HndFields
<1>2. CASE hub = s
  <2>1. task' = task
    BY <1>2, StatusToNoOne DEF DispatchExec
  <2>2. StillRows /\ UNCHANGED <<up, rest>>
    BY <1>2, <2>1 DEF DispatchExec, StillRows, outside
  <2>3. Grows /\ \A t \in Task : TaskOk(t)
    BY <2>2, StillFacts
  <2>4. Pushed("exec", q)
    BY <1>1, <1>2, Push DEF DispatchExec, Kind, Pushed
  <2>5. CommandDue("exec", q)'
    BY DEF CommandDue
  <2>6. ASSUME NEW r \in Sess PROVE DownOk(r)
    <3>1. \A j \in Kind, t \in Task :
            Sent(r, j, t)' => Sent(r, j, t) \/ (j = "exec" /\ t = q)
      BY <2>4, PushSends DEF Kind
    <3> QED
      BY <2>5, <3>1 DEF DownOk
  <2>7. \A r \in Sess : UpOk(r)
    BY <2>2 DEF UpOk, Reported
  <2>8. hnd'[s].pc = "idle" /\ \A r \in Sess \ {s} : hnd'[r] = hnd[r]
    BY <1>2, Moves DEF DispatchExec, HndPc, Moved
  <2>9. \A r \in Sess : HndOk(r)
    BY <2>8 DEF HndOk
  <2> QED
    BY <2>3, <2>6, <2>7, <2>9, DueFrame
<1>3. CASE hub # s
  BY <1>3, DueDeath DEF DispatchExec, StillRows, outside
<1> QED
  BY <1>2, <1>3

\* The executor reports what it did: a merge is reported once it is real.
LEMMA DueRunStep ==
  ASSUME TypeOK, Due, NEW s \in Sess, RunStep(s)
  PROVE  Due'
<1>1. PICK m \in Command, r \in Event :
        /\ down[s] \in Seq(Command) /\ down[s] # <<>> /\ down[s][1] = m
        /\ r.t = m.t /\ r.k \in {m.k, "fail"}
        /\ merged' = IF r.k = "merge" THEN merged \cup {m.t} ELSE merged
        /\ up[s] \in Seq(Event) /\ up'[s] = Append(up[s], r)
        /\ down'[s] = Tail(down[s])
        /\ \A q \in Sess \ {s} : down'[q] = down[q] /\ up'[q] = up[q]
  BY RunTakes
<1>2. UNCHANGED <<task, prs, pr, past, rest, hnd>>
  BY DEF RunStep, rows
<1>3. m.k \in Kind /\ m.t \in Task
  BY DEF Command
<1>4. Grows
  BY <1>1, <1>2 DEF Grows
<1>5. CommandDue(m.k, m.t)
  <2>1. Sent(s, m.k, m.t)
    BY <1>1 DEF Sent
  <2> QED
    BY <1>3, <2>1 DEF Due, DownDue
<1>6. \A q \in Sess : HndOk(q)
  BY <1>2 DEF HndOk
<1>7. ASSUME NEW q \in Sess PROVE DownOk(q)
  <2>1. CASE q # s
    BY <1>1, <2>1 DEF DownOk, Sent
  <2>2. CASE q = s
    <3> SUFFICES ASSUME NEW k \in Kind, NEW t \in Task, Sent(s, k, t)'
                 PROVE  Sent(s, k, t)
      BY <2>2 DEF DownOk
    <3>1. PICK i \in DOMAIN Tail(down[s]) :
            Tail(down[s])[i].k = k /\ Tail(down[s])[i].t = t
      BY <1>1 DEF Sent
    <3> QED
      BY <1>1, <3>1, TailIn DEF Sent
  <2> QED
    BY <2>1, <2>2
<1>8. ASSUME NEW q \in Sess PROVE UpOk(q)
  <2>1. CASE q # s
    BY <1>1, <2>1 DEF UpOk, Reported
  <2>2. CASE q = s
    <3> SUFFICES ASSUME NEW k \in Kind, NEW t \in Task, Reported(s, k, t)'
                 PROVE  Reported(s, k, t) \/ EventDue(k, t)'
      BY <2>2 DEF UpOk
    <3>1. PICK i \in DOMAIN up'[s] : up'[s][i].k = k /\ up'[s][i].t = t
      BY DEF Reported
    <3>2. CASE i \in DOMAIN up[s]
      <4>1. up'[s][i] = up[s][i]
        BY <1>1, <3>2
      <4> QED
        BY <3>1, <3>2, <4>1 DEF Reported
    <3>3. CASE i = Len(up[s]) + 1
      <4>1. r.k = k /\ t = m.t
        BY <1>1, <3>1, <3>3
      <4>2. k \in {m.k, "fail"}
        BY <1>1, <4>1
      <4>3. k = m.k
        BY <4>2 DEF Kind
      <4>4. k = "merge" => t \in merged'
        BY <1>1, <4>1
      <4>5. CommandDue(k, t)'
        BY <1>2, <1>5, <4>1, <4>3
           DEF CommandDue, Ran, Tested, Reviewed, Cleared, MayMerge
      <4> QED
        BY <4>4, <4>5 DEF EventDue, CommandDue
    <3> QED
      BY <1>1, <3>1, <3>2, <3>3
  <2> QED
    BY <2>1, <2>2
<1>9. ASSUME NEW t \in Task PROVE TaskOk(t)
  <2>1. t \in merged' => t \in merged \/ MayMerge(t)'
    <3> SUFFICES ASSUME t \in merged', t \notin merged PROVE MayMerge(t)'
      OBVIOUS
    <3>1. r.k = "merge" /\ t = m.t
      BY <1>1
    <3>2. MayMerge(t)
      BY <1>1, <1>5, <3>1 DEF CommandDue
    <3> QED
      BY <1>4, <3>2, GrowsFacts
  <2> QED
    BY <1>2, <2>1 DEF TaskOk
<1> QED
  BY <1>4, <1>6, <1>7, <1>8, <1>9, DueFrame

\* Streams come and go: what is lost owes nothing, a snapshot needs nothing.
LEMMA DueStreams ==
  ASSUME TypeOK, Due,
         \/ \E s \in Sess : Disconnect(s) \/ StreamEnds(s)
         \/ \E e \in Executor : Connect(e)
  PROVE  Due'
<1>1. StillRows /\ UNCHANGED rest
  BY DEF Disconnect, StreamEnds, Connect, StillRows, rows, outside
<1>2. Grows /\ \A t \in Task : TaskOk(t)
  BY <1>1, StillFacts
<1>3. ASSUME NEW r \in Sess
      PROVE  /\ down'[r] = down[r] \/ down'[r] = <<>>
             /\ \/ up'[r] = up[r]
                \/ \A i \in DOMAIN up'[r] : up'[r][i].k = "snapshot"
  <2>1. CASE \E s \in Sess : Disconnect(s) \/ StreamEnds(s)
    BY <2>1 DEF Disconnect, StreamEnds, TypeOK
  <2>2. CASE \E e \in Executor : Connect(e)
    BY <2>2, ConnectTypes DEF Connect
  <2> QED
    BY <2>1, <2>2
<1>4. \A r \in Sess : DownOk(r)
  BY <1>3 DEF DownOk, Sent
<1>5. \A r \in Sess : UpOk(r)
  BY <1>3 DEF UpOk, Reported, Kind
<1>6. ASSUME NEW r \in Sess PROVE HndOk(r)
  <2>1. ASSUME NEW s \in Sess, StreamEnds(s) PROVE HndOk(r)
    <3>1. hnd'[s].pc = "idle" /\ \A q \in Sess \ {s} : hnd'[q] = hnd[q]
      BY <2>1, Moves DEF StreamEnds, Goto, Moved, HndPc
    <3> QED
      BY <3>1 DEF HndOk
  <2> QED
    BY <2>1 DEF Disconnect, Connect, HndOk
<1> QED
  BY <1>2, <1>4, <1>5, <1>6, DueFrame

\* The pushes of the REST handlers.
LEMMA DueRest ==
  ASSUME TypeOK, Due, NEW t \in Task, Rest(t)
  PROVE  Due'
<1>1. PICK k \in Kind : Pushed(k, t) /\ CommandDue(k, t) /\ StillRows
  <2>1. CASE SendPlan(t)
    <3>1. Pushed("plan", t) /\ CommandDue("plan", t)
      BY <2>1, HubPush DEF SendPlan, Kind, CommandDue
    <3>2. task' = task
      BY <2>1, StatusToNoOne DEF SendPlan
    <3> QED
      BY <2>1, <3>1, <3>2 DEF SendPlan, StillRows, Kind, outside
  <2>2. CASE SendMerge(t)
    <3>1. Pushed("merge", t)
      BY <2>2, HubPush DEF SendMerge, Kind
    <3>2. CommandDue("merge", t)
      BY <2>2 DEF SendMerge, Due, TaskDue, CommandDue
    <3> QED
      BY <2>2, <3>1, <3>2 DEF SendMerge, StillRows, Kind, rows, outside
  <2>3. CASE SendMergeFails(t)
    <3>1. Pushed("plan", t) /\ CommandDue("plan", t)
      BY <2>3 DEF SendMergeFails, pipes, Pushed, CommandDue, TypeOK
    <3> QED
      BY <2>3, <3>1 DEF SendMergeFails, StillRows, Kind, rows, outside
  <2> QED
    BY <2>1, <2>2, <2>3 DEF Rest
<1>2. /\ UNCHANGED <<hnd, up>>
      /\ \A q \in Task : rest'[q] = "merge" => rest[q] = "merge"
  BY DEF Rest, SendPlan, SendMerge, SendMergeFails, pipes, TypeOK
<1>3. Grows /\ \A q \in Task : TaskOk(q)
  BY <1>1, <1>2, StillFacts
<1>4. CommandDue(k, t)'
  BY <1>1, <1>2, StillFacts
<1>5. ASSUME NEW r \in Sess PROVE DownOk(r)
  <2>1. \A j \in Kind, q \in Task : Sent(r, j, q)' => Sent(r, j, q) \/ (j = k /\ q = t)
    BY <1>1, PushSends
  <2> QED
    BY <1>4, <2>1 DEF DownOk
<1>6. \A r \in Sess : HndOk(r) /\ UpOk(r)
  BY <1>2 DEF HndOk, UpOk, Reported
<1> QED
  BY <1>3, <1>5, <1>6, DueFrame

\* A human answers about any task: before the review he overrules the gates.
LEMMA DueAnswer ==
  ASSUME TypeOK, Due, NEW t \in Task, Approve(t) \/ Reject(t)
  PROVE  Due'
<1>1. UNCHANGED <<prs, hnd, down, up, merged>>
  BY DEF Approve, Reject, pipes, outside
<1>2. Grows
  BY <1>1, RememberGrows DEF Approve, Reject, Flags
<1>3. \A r \in Sess : HndOk(r) /\ DownOk(r) /\ UpOk(r)
  BY <1>1 DEF HndOk, DownOk, UpOk, Sent, Reported
<1>4. PICK v \in {"approved", "changes"} :
        /\ SetPr(t, [pr[t] EXCEPT !.hu = v])
        /\ v = "approved"
             => Remember(t, IF Reviewed(t) THEN "human" ELSE "overruled")
  BY DEF Approve, Reject
<1> DEFINE new == [pr[t] EXCEPT !.hu = v]
<1>5. /\ new \in PrRow /\ new.ci = pr[t].ci /\ new.ai = pr[t].ai
      /\ new.st = pr[t].st /\ new.hu = v
  <2>1. pr[t] \in PrRow
    BY DEF TypeOK
  <2> QED
    BY <2>1 DEF PrRow, Verdict
<1> HIDE DEF new
<1>6. /\ \A q \in Task \ {t} : pr'[q] = pr[q]
      /\ pr'[t] = pr[t] \/ pr'[t] = new
  BY <1>4, <1>5, PrTypes DEF new
<1>7. v = "approved" => past'[t].human \/ past'[t].overruled
  BY <1>4, Remembered
<1>8. pr'[t] = new => PrDue(t)'
  BY <1>2, <1>5, <1>7, GrowsFacts DEF Due, PrDue
<1>9. /\ task'[t] \notin {"merged", "blocked"}
      /\ \A q \in Task \ {t} : task'[q] = task[q]
  BY StatusTypes DEF Approve, Reject, Status, Terminal
<1>10. /\ \A q \in Task \ {t} : rest'[q] = rest[q]
       /\ rest'[t] = "merge" => rest[t] = "merge" \/ MayMerge(t)'
  <2>1. CASE Approve(t)
    <3>1. CASE Reviewed(t)
      <4>1. past'[t].human
        BY <2>1, <3>1, Remembered DEF Approve
      <4>2. Reviewed(t)'
        BY <1>2, <3>1, GrowsFacts
      <4> QED
        BY <2>1, <4>1, <4>2 DEF Approve, TypeOK, MayMerge, Cleared
    <3>2. CASE ~Reviewed(t)
      <4>1. past'[t].overruled
        BY <2>1, <3>2, Remembered DEF Approve
      <4> QED
        BY <2>1, <4>1 DEF Approve, TypeOK, MayMerge
    <3> QED
      BY <3>1, <3>2
  <2>2. CASE Reject(t)
    BY <2>2 DEF Reject
  <2> QED
    BY <2>1, <2>2
<1>11. ASSUME NEW q \in Task PROVE TaskOk(q)
  <2>1. CASE q = t
    BY <1>1, <1>6, <1>8, <1>9, <1>10, <2>1 DEF TaskOk
  <2>2. CASE q # t
    BY <1>1, <1>6, <1>9, <1>10, <2>2 DEF TaskOk
  <2> QED
    BY <2>1, <2>2
<1> QED
  BY <1>2, <1>3, <1>11, DueFrame

LEMMA DueStep ==
  ASSUME TypeOK, Due, [Next]_vars
  PROVE  Due'
<1>1. ASSUME NEW t \in Task, CreateTask(t) \/ RequestCut(t) PROVE Due'
  <2>1. UNCHANGED <<prs, pr, hnd, down, up, merged, past>>
    BY <1>1 DEF CreateTask, RequestCut, rows, pipes, outside
  <2>2. Grows
    BY <2>1 DEF Grows
  <2>3. \A r \in Sess : HndOk(r) /\ DownOk(r) /\ UpOk(r)
    BY <2>1 DEF HndOk, DownOk, UpOk, Sent, Reported
  <2>4. \A q \in Task : /\ task'[q] \in {"merged", "blocked"} => task'[q] = task[q]
                        /\ rest'[q] = "merge" => rest[q] = "merge"
    BY <1>1 DEF CreateTask, RequestCut, SetStatus, rows, TypeOK
  <2>5. \A q \in Task : TaskOk(q)
    BY <2>1, <2>4 DEF TaskOk
  <2> QED
    BY <2>2, <2>3, <2>5, DueFrame
<1>2. CASE Reconfigure \/ UNCHANGED vars
  <2>1. StillRows /\ UNCHANGED <<rest, hnd, down, up>>
    BY <1>2 DEF Reconfigure, vars, StillRows, rows, pipes, outside
  <2>2. Grows /\ \A t \in Task : TaskOk(t)
    BY <2>1, StillFacts
  <2>3. \A r \in Sess : HndOk(r) /\ DownOk(r) /\ UpOk(r)
    BY <2>1 DEF HndOk, DownOk, UpOk, Sent, Reported
  <2> QED
    BY <2>2, <2>3, DueFrame
<1>3. CASE Crash
  BY <1>3, DueDeath DEF Crash, StillRows, rows, outside
<1>4. ASSUME NEW s \in Sess, Handler(s) PROVE Due'
  BY <1>4, DueRecv, DueDispatchExec, DueHandlerStep
<1> QED
  BY <1>1, <1>2, <1>3, <1>4, DueRunStep, DueStreams, DueRest, DueAnswer
     DEF Next, People

LEMMA InitDue == Init => Due
<1> SUFFICES ASSUME Init PROVE Due
  OBVIOUS
<1>1. \A s \in Sess : hnd[s].pc = "idle" /\ down[s] = <<>> /\ up[s] = <<>>
  BY DEF Init, NoHandler
<1>2. \A s \in Sess : HndDue(s)
  BY <1>1 DEF HndDue, StatementDue, EventDue
<1>3. \A s \in Sess : DownDue(s) /\ UpDue(s)
  BY <1>1 DEF DownDue, UpDue, Sent, Reported
<1>4. \A t \in Task : PrDue(t)
  BY DEF Init, PrDue, NewPr
<1>5. \A t \in Task : TaskDue(t)
  BY DEF Init, TaskDue
<1> QED
  BY <1>2, <1>3, <1>4, <1>5 DEF Due

\* Everything on its way to a merge carries its reasons in every state, or a human
\* overruled them.
THEOREM PipelineDue == Spec => [](TypeOK /\ Due)
<1>1. Init => TypeOK /\ Due
  BY InitType, InitDue
<1>2. TypeOK /\ Due /\ [Next]_vars => (TypeOK /\ Due)'
  BY TypeStep, DueStep
<1> QED
  BY <1>1, <1>2, PTL DEF Spec

\* Nothing reaches the base branch without the AI review, a green test run or
\* tests switched off, and a human or a mergeGate that asked for none, whatever
\* was lost, reconciled twice, answered late, interrupted or not saved; unless a
\* human approved the task before it was reviewed.
THEOREM PipelineGatedMerge == Spec => []GatedMerge
<1>1. TypeOK /\ Due => GatedMerge
  BY DEF TypeOK, Due, TaskDue, MayMerge, GatedMerge, Cleared, Reviewed, Tested
<1> QED
  BY <1>1, PipelineDue, PTL

\* No row says merged of a task whose branch the executor has not merged.
THEOREM PipelineMergedIsReal == Spec => []MergedIsReal
<1>1. TypeOK /\ Due => MergedIsReal
  BY DEF Due, TaskDue, PrDue, MergedIsReal
<1> QED
  BY <1>1, PipelineDue, PTL

-----------------------------------------------------------------------------
(* One pull_request.  InsertPr looks at nothing before it inserts, so a second  *)
(* row can only be kept away by there being one exec of a task at most,         *)
(* wherever it is: not yet pushed, in the command queue, at the executor, in    *)
(* the event queue or in a handler.  The plan counts too, for it becomes one.   *)

EarlyKind == {"plan", "exec"}
EarlyPc == {"plan", "dispatchExec", "exec"}

EarlyIn(q, t) == \E i \in DOMAIN q : q[i].t = t /\ q[i].k \in EarlyKind
OnceIn(q, t) == \A i, j \in DOMAIN q :
  /\ q[i].t = t /\ q[i].k \in EarlyKind
  /\ q[j].t = t /\ q[j].k \in EarlyKind
  => i = j

InRest(t) == rest[t] = "plan"
InHnd(s, t) == hnd[s].t = t /\ hnd[s].pc \in EarlyPc
InDown(s, t) == EarlyIn(down[s], t)
InUp(s, t) == EarlyIn(up[s], t)

Where == {"rest", "hnd", "down", "up"}
Who == Sess \cup {NoSess}

Has(w, s, t) ==
  \/ w = "rest" /\ s = NoSess /\ InRest(t)
  \/ w = "hnd" /\ s \in Sess /\ InHnd(s, t)
  \/ w = "down" /\ s \in Sess /\ InDown(s, t)
  \/ w = "up" /\ s \in Sess /\ InUp(s, t)

Only(w, s, t) == \A v \in Where, r \in Who : Has(v, r, t) => v = w /\ r = s
Nowhere(t) == \A w \in Where, s \in Who : ~Has(w, s, t)
DownOnce(s, t) == OnceIn(down[s], t)
UpOnce(s, t) == OnceIn(up[s], t)

AheadOf(t) ==
  /\ \E w \in Where, s \in Who : Only(w, s, t)
  /\ \A s \in Sess : DownOnce(s, t) /\ UpOnce(s, t)
  /\ task[t] = "none" => ~Ran(t)
  /\ task[t] = "none" \/ Ran(t) => Nowhere(t)
  /\ prs[t] <= 1

Ahead == \A t \in Task : AheadOf(t)

\* A message at the end of a queue, and the first one taken away.
LEMMA AppendEarly ==
  ASSUME NEW S, NEW q \in Seq(S), NEW m \in S, NEW t
  PROVE  /\ ~(m.t = t /\ m.k \in EarlyKind)
              => /\ EarlyIn(Append(q, m), t) => EarlyIn(q, t)
                 /\ OnceIn(q, t) => OnceIn(Append(q, m), t)
         /\ ~EarlyIn(q, t) => OnceIn(Append(q, m), t)
<1> DEFINE a == Append(q, m)
<1>1. /\ DOMAIN a = 1..(Len(q) + 1) /\ DOMAIN q = 1..Len(q) /\ Len(q) \in Nat
      /\ \A i \in DOMAIN q : a[i] = q[i]
      /\ a[Len(q) + 1] = m
  OBVIOUS
<1> HIDE DEF a
<1>2. \A i \in DOMAIN a : i \in DOMAIN q \/ i = Len(q) + 1
  BY <1>1
<1>3. ASSUME ~(m.t = t /\ m.k \in EarlyKind)
      PROVE  /\ EarlyIn(a, t) => EarlyIn(q, t)
             /\ OnceIn(q, t) => OnceIn(a, t)
  BY <1>1, <1>2, <1>3 DEF EarlyIn, OnceIn
<1>4. ASSUME ~EarlyIn(q, t) PROVE OnceIn(a, t)
  BY <1>1, <1>2, <1>4 DEF EarlyIn, OnceIn
<1> QED
  BY <1>3, <1>4 DEF a

LEMMA TailEarly ==
  ASSUME NEW S, NEW q \in Seq(S), q # <<>>, NEW t
  PROVE  /\ EarlyIn(Tail(q), t) => EarlyIn(q, t)
         /\ OnceIn(q, t) => OnceIn(Tail(q), t)
         /\ OnceIn(q, t) /\ q[1].t = t /\ q[1].k \in EarlyKind
              => ~EarlyIn(Tail(q), t)
<1> DEFINE a == Tail(q)
<1>1. /\ DOMAIN a = 1..(Len(q) - 1) /\ DOMAIN q = 1..Len(q)
      /\ Len(q) \in Nat /\ Len(q) > 0
      /\ \A i \in DOMAIN a : a[i] = q[i + 1]
  OBVIOUS
<1> HIDE DEF a
<1>2. \A i \in DOMAIN a : i + 1 \in DOMAIN q /\ i + 1 # 1 /\ i \in Nat
  BY <1>1
<1>3. 1 \in DOMAIN q
  BY <1>1
<1>4. EarlyIn(a, t) => EarlyIn(q, t)
  BY <1>1, <1>2 DEF EarlyIn
<1>5. ASSUME OnceIn(q, t) PROVE OnceIn(a, t)
  <2> SUFFICES ASSUME NEW i \in DOMAIN a, NEW j \in DOMAIN a,
                      a[i].t = t, a[i].k \in EarlyKind,
                      a[j].t = t, a[j].k \in EarlyKind
               PROVE  i = j
    BY DEF OnceIn
  <2>1. i + 1 = j + 1
    BY <1>1, <1>2, <1>5 DEF OnceIn
  <2> QED
    BY <1>2, <2>1
<1>6. ASSUME OnceIn(q, t), q[1].t = t, q[1].k \in EarlyKind, EarlyIn(a, t)
      PROVE  FALSE
  BY <1>1, <1>2, <1>3, <1>6 DEF OnceIn, EarlyIn
<1> QED
  BY <1>4, <1>5, <1>6 DEF a

LEMMA PushEarly ==
  ASSUME TypeOK, NEW k \in Kind, NEW q \in Task, Pushed(k, q),
         NEW s \in Sess, NEW t \in Task
  PROVE  /\ t # q \/ k \notin EarlyKind
              => /\ InDown(s, t)' => InDown(s, t)
                 /\ DownOnce(s, t) => DownOnce(s, t)'
         /\ InDown(s, t)' => InDown(s, t) \/ s = hub
         /\ ~InDown(s, t) => DownOnce(s, t)'
<1> DEFINE m == [k |-> k, t |-> q]
<1>1. m \in Command /\ m.k = k /\ m.t = q /\ down[s] \in Seq(Command)
  BY DEF TypeOK, Command
<1>2. CASE down'[s] = down[s]
  BY <1>2 DEF InDown, DownOnce, EarlyIn, OnceIn
<1>3. CASE s = hub /\ down'[s] = Append(down[s], m)
  <2> HIDE DEF m
  <2> QED
    BY <1>1, <1>3, AppendEarly DEF InDown, DownOnce
<1> QED
  BY <1>2, <1>3 DEF Pushed

\* How a step can treat what is ahead of a task: it takes no new place,
Kept(t) == /\ prs'[t] = prs[t] /\ past'[t].unsaved = past[t].unsaved
           /\ task'[t] = "none" => task[t] = "none"
StillOnce(t) == \A s \in Sess : (DownOnce(s, t) /\ UpOnce(s, t))'

LEMMA Stays ==
  ASSUME NEW t \in Task, AheadOf(t), Kept(t), StillOnce(t),
         \A w \in Where, s \in Who : Has(w, s, t)' => Has(w, s, t)
  PROVE  AheadOf(t)'
<1>1. Ran(t)' <=> Ran(t)
  BY DEF Kept, Ran
<1> QED
  BY <1>1 DEF AheadOf, Kept, StillOnce, Only, Nowhere

\* or it moves from one place to another.
LEMMA Hops ==
  ASSUME NEW t \in Task, AheadOf(t), Kept(t), StillOnce(t),
         NEW w \in Where, NEW s \in Who, Has(w, s, t),
         NEW w1 \in Where, NEW s1 \in Who,
         \A v \in Where, r \in Who :
           Has(v, r, t)' => \/ v = w1 /\ r = s1
                            \/ Has(v, r, t) /\ ~(v = w /\ r = s)
  PROVE  AheadOf(t)'
<1>1. Only(w, s, t) /\ task[t] # "none" /\ ~Ran(t)
  BY DEF AheadOf, Only, Nowhere
<1>2. Only(w1, s1, t)'
  BY <1>1 DEF Only
<1>3. task'[t] # "none" /\ ~Ran(t)'
  BY <1>1 DEF Kept, Ran
<1> QED
  BY <1>1, <1>2, <1>3 DEF AheadOf, Kept, StillOnce

\* A step that only takes from every place, and adds to no queue.
Fewer ==
  \A t \in Task :
    /\ Kept(t)
    /\ InRest(t)' => InRest(t)
    /\ \A s \in Sess : /\ InHnd(s, t)' => InHnd(s, t)
                       /\ InDown(s, t)' => InDown(s, t)
                       /\ InUp(s, t)' => InUp(s, t)
                       /\ DownOnce(s, t) => DownOnce(s, t)'
                       /\ UpOnce(s, t) => UpOnce(s, t)'

LEMMA AheadFewer ==
  ASSUME Ahead, Fewer
  PROVE  Ahead'
<1> SUFFICES ASSUME NEW t \in Task PROVE AheadOf(t)'
  BY DEF Ahead
<1>1. AheadOf(t) /\ Kept(t)
  BY DEF Ahead, Fewer
<1>2. \A w \in Where, s \in Who : Has(w, s, t)' => Has(w, s, t)
  BY DEF Fewer, Has
<1>3. StillOnce(t)
  BY <1>1 DEF Fewer, StillOnce, AheadOf
<1> QED
  BY <1>1, <1>2, <1>3, Stays

\* A statement that neither takes nor sends an exec.
SameSaved == \A t \in Task : past'[t].unsaved = past[t].unsaved

LEMMA AheadStatement ==
  ASSUME TypeOK, Ahead, NEW s \in Sess, UNCHANGED <<prs, rest, up>>,
         SameSaved,
         \A t \in Task : task'[t] = "none" => task[t] = "none",
         \A r \in Sess \ {s} : hnd'[r] = hnd[r],
         \/ hnd'[s].pc \notin EarlyPc
         \/ hnd[s].pc \in EarlyPc /\ hnd'[s].t = hnd[s].t,
         \/ UNCHANGED down
         \/ \E k \in Kind \ EarlyKind, q \in Task : Pushed(k, q)
  PROVE  Ahead'
<1>1. ASSUME NEW t \in Task PROVE Kept(t) /\ (InRest(t)' => InRest(t))
  BY DEF Kept, InRest, SameSaved
<1>2. ASSUME NEW t \in Task, NEW r \in Sess PROVE InHnd(r, t)' => InHnd(r, t)
  BY DEF InHnd
<1>3. ASSUME NEW t \in Task, NEW r \in Sess
      PROVE  /\ InDown(r, t)' => InDown(r, t)
             /\ DownOnce(r, t) => DownOnce(r, t)'
  <2>1. CASE UNCHANGED down
    BY <2>1 DEF InDown, DownOnce, EarlyIn, OnceIn
  <2>2. CASE \E k \in Kind \ EarlyKind, q \in Task : Pushed(k, q)
    BY <2>2, PushEarly
  <2> QED
    BY <2>1, <2>2
<1>4. ASSUME NEW t \in Task, NEW r \in Sess
      PROVE  (InUp(r, t)' => InUp(r, t)) /\ (UpOnce(r, t) => UpOnce(r, t)')
  BY DEF InUp, UpOnce, EarlyIn, OnceIn
<1>5. Fewer
  BY <1>1, <1>2, <1>3, <1>4 DEF Fewer
<1> QED
  BY <1>5, AheadFewer

\* The exec that reports itself cannot be saved.
ExecFails(s) == StatementFails(s) /\ hnd[s].pc = "exec"

LEMMA AheadHandlerStep ==
  ASSUME TypeOK, Ahead, NEW s \in Sess, Handler(s),
         ~Recv(s), ~DispatchExec(s), ~InsertPr(s), ~ExecFails(s)
  PROVE  Ahead'
<1>1. PICK q \in Task : hnd[s].t = q
  BY HndFields
<1>2. UNCHANGED <<rest, up>>
  BY DEF Handler, SavePlan, ExecSaved, AfterExec, AfterExecMisread, SetCIResult,
         AfterTest, SetAIReview, AfterReview, Gate, GateMisread, SetTaskBlocked,
         MarkPrMerged, MarkTaskMerged, FailTask, Reconcile, SendStep,
         StatementFails, quiet, steady
<1>3. UNCHANGED prs
  BY DEF Handler, SavePlan, ExecSaved, AfterExec, AfterExecMisread, SetCIResult,
         AfterTest, SetAIReview, AfterReview, Gate, GateMisread, SetTaskBlocked,
         MarkPrMerged, MarkTaskMerged, FailTask, Reconcile, SendStep,
         StatementFails, rows
<1>4. task' = task \/ \E st \in Status \ {"none"} : SetStatus(q, st)
  BY <1>1 DEF Handler, SavePlan, ExecSaved, AfterExec, AfterExecMisread,
         SetCIResult, AfterTest, SetAIReview, AfterReview, Gate, GateMisread,
         SetTaskBlocked, MarkPrMerged, MarkTaskMerged, FailTask, Reconcile,
         SendStep, StatementFails, rows, Status, Terminal
<1>5. \A t \in Task : task'[t] = "none" => task[t] = "none"
  BY <1>4, StatusTypes
<1>6. \/ UNCHANGED down
      \/ \E k \in Kind \ EarlyKind : DispatchStep(k, q)
  BY <1>1 DEF Handler, SavePlan, ExecSaved, AfterExec, AfterExecMisread,
         SetCIResult, AfterTest, SetAIReview, AfterReview, Gate, GateMisread,
         SetTaskBlocked, MarkPrMerged, MarkTaskMerged, FailTask, Reconcile,
         SendStep, StatementFails, Kind, EarlyKind
<1>7. UNCHANGED down \/ \E k \in Kind \ EarlyKind : Pushed(k, q)
  BY <1>6, HubPush
<1>8. SameSaved
  <2>1. UNCHANGED past \/ \E f \in Flags \ {"unsaved"} : Remember(q, f)
    <3>1. CASE StatementFails(s)
      BY <1>1, <3>1, FailureRemembers DEF ExecFails, Flags
    <3>2. CASE ~StatementFails(s)
      BY <1>1, <3>2
         DEF Handler, SavePlan, ExecSaved, AfterExec, AfterExecMisread,
         SetCIResult, AfterTest, SetAIReview, AfterReview, Gate, GateMisread,
         SetTaskBlocked, MarkPrMerged, MarkTaskMerged, FailTask, Reconcile,
         SendStep, Flags
    <3> QED
      BY <3>1, <3>2
  <2> QED
    BY <2>1, RememberFlags DEF SameSaved
<1>9. /\ \A r \in Sess \ {s} : hnd'[r] = hnd[r]
      /\ \/ hnd'[s].pc \notin EarlyPc
         \/ hnd[s].pc \in EarlyPc /\ hnd'[s].t = hnd[s].t
  <2>1. CASE Reconcile(s)
    <3> DEFINE h == [pc |-> ReconcileNext(q), t |-> q,
                     ok |-> pr[q].hu = "approved"]
    <3>1. hnd' = [hnd EXCEPT ![s] = h] /\ h.pc = ReconcileNext(q)
      BY <1>1, <2>1 DEF Reconcile
    <3>2. ReconcileNext(q) \notin EarlyPc
      BY DEF ReconcileNext, EarlyPc
    <3> HIDE DEF h
    <3> QED
      BY <3>1, <3>2 DEF TypeOK
  <2>2. CASE SavePlan(s)
    <3>1. hnd[s].pc \in EarlyPc
      BY <2>2 DEF SavePlan, At, EarlyPc
    <3> QED
      BY <2>2, <3>1, Moves DEF SavePlan, Moved, HndPc
  <2>3. CASE StatementFails(s)
    <3>1. PICK p \in HndPc : p = hnd[s].pc
      BY HndFields
    <3>2. AfterFailure(p) \in HndPc \ EarlyPc
      BY <3>1, FailureGoes DEF EarlyPc
    <3> QED
      BY <2>3, <3>1, <3>2, Moves DEF StatementFails, Moved
  <2>4. CASE ~Reconcile(s) /\ ~SavePlan(s) /\ ~StatementFails(s)
    <3>1. \E p \in HndPc \ EarlyPc : Goto(s, p)
      BY <2>4 DEF Handler, ExecSaved, AfterExec, AfterExecMisread, SetCIResult,
         AfterTest, SetAIReview, AfterReview, Gate, GateMisread, SetTaskBlocked,
         MarkPrMerged, MarkTaskMerged, FailTask, SendStep, HndPc, EarlyPc
    <3> QED
      BY <3>1, Moves DEF Moved
  <2> QED
    BY <2>1, <2>2, <2>3, <2>4
<1> QED
  BY <1>2, <1>3, <1>5, <1>7, <1>8, <1>9, AheadStatement

\* An event becomes the first statement of a handler.
LEMMA AheadRecv ==
  ASSUME TypeOK, Ahead, NEW s \in Sess, Recv(s)
  PROVE  Ahead'
<1>1. /\ up[s] # <<>> /\ up[s] \in Seq(Event)
      /\ hnd'[s] = [pc |-> up[s][1].k, t |-> up[s][1].t, ok |-> up[s][1].ok]
      /\ up'[s] = Tail(up[s])
      /\ \A r \in Sess \ {s} : hnd'[r] = hnd[r] /\ up'[r] = up[r]
  BY RecvTakes
<1>2. PICK m \in Event : m = up[s][1]
  BY <1>1
<1>3. /\ hnd'[s].pc = m.k /\ hnd'[s].t = m.t
      /\ m.k \in Kind \cup {"fail", "snapshot"}
  BY <1>1, <1>2 DEF Event
<1>4. UNCHANGED <<task, prs, rest, down, past>>
  BY DEF Recv, rows
<1> SUFFICES ASSUME NEW t \in Task PROVE AheadOf(t)'
  BY DEF Ahead
<1>5. AheadOf(t) /\ Kept(t)
  BY <1>4 DEF Ahead, Kept
<1>6. /\ InRest(t)' => InRest(t)
      /\ \A r \in Sess : InDown(r, t)' => InDown(r, t)
      /\ \A r \in Sess : DownOnce(r, t)'
  BY <1>4, <1>5 DEF InRest, InDown, EarlyIn, DownOnce, OnceIn, AheadOf
<1>7. \A r \in Sess \ {s} : /\ InHnd(r, t)' => InHnd(r, t)
                            /\ InUp(r, t)' => InUp(r, t)
  BY <1>1 DEF InHnd, InUp, EarlyIn
<1>8. /\ InUp(s, t)' => InUp(s, t)
      /\ UpOnce(s, t)'
      /\ m.t = t /\ m.k \in EarlyKind => ~InUp(s, t)'
  BY <1>1, <1>2, <1>5, TailEarly DEF InUp, UpOnce, AheadOf
<1>9. \A r \in Sess \ {s} : UpOnce(r, t)'
  BY <1>1, <1>5 DEF UpOnce, OnceIn, AheadOf
<1>10. StillOnce(t)
  BY <1>6, <1>8, <1>9 DEF StillOnce
<1>11. CASE m.t = t /\ m.k \in EarlyKind
  <2>1. Has("up", s, t)
    BY <1>1, <1>2, <1>11 DEF Has, InUp, EarlyIn
  <2>2. \A v \in Where, r \in Who :
          Has(v, r, t)' => \/ v = "hnd" /\ r = s
                           \/ Has(v, r, t) /\ ~(v = "up" /\ r = s)
    BY <1>6, <1>7, <1>8, <1>11 DEF Has
  <2> QED
    BY <1>5, <1>10, <2>1, <2>2, Hops DEF Where, Who
<1>12. CASE ~(m.t = t /\ m.k \in EarlyKind)
  <2>1. ~InHnd(s, t)'
    BY <1>3, <1>12 DEF InHnd, EarlyPc, EarlyKind, Kind
  <2>2. \A v \in Where, r \in Who : Has(v, r, t)' => Has(v, r, t)
    BY <1>6, <1>7, <1>8, <2>1 DEF Has
  <2> QED
    BY <1>5, <1>10, <2>2, Stays
<1> QED
  BY <1>11, <1>12

\* A dead process has nothing ahead.
LEMMA AheadDeath ==
  ASSUME TypeOK, Ahead, ProcessDies, UNCHANGED <<task, prs, past>>
  PROVE  Ahead'
<1>1. \A s \in Sess : down'[s] = <<>> /\ up'[s] = <<>> /\ hnd'[s].pc = "idle"
  BY DeathTypes DEF ProcessDies
<1>2. \A t \in Task : Kept(t) /\ ~InRest(t)'
  BY DEF ProcessDies, Kept, InRest
<1>3. \A s \in Sess, t \in Task : /\ ~InHnd(s, t)' /\ ~InDown(s, t)' /\ ~InUp(s, t)'
                                  /\ DownOnce(s, t)' /\ UpOnce(s, t)'
  BY <1>1 DEF InHnd, InDown, InUp, DownOnce, UpOnce, EarlyIn, OnceIn, EarlyPc
<1> QED
  BY <1>2, <1>3, AheadFewer DEF Fewer

LEMMA AheadDispatchExec ==
  ASSUME TypeOK, Ahead, NEW s \in Sess, DispatchExec(s)
  PROVE  Ahead'
<1>1. PICK q \in Task : hnd[s].t = q
  BY HndFields
<1>2. CASE hub = s
  <2>1. task' = task /\ UNCHANGED <<prs, rest, up, past>>
    BY <1>2, StatusToNoOne DEF DispatchExec
  <2>2. Pushed("exec", q)
    BY <1>1, <1>2, Push DEF DispatchExec, Kind, Pushed
  <2>3. hnd'[s].pc = "idle" /\ \A r \in Sess \ {s} : hnd'[r] = hnd[r]
    BY <1>2, Moves DEF DispatchExec, HndPc, Moved
  <2> SUFFICES ASSUME NEW t \in Task PROVE AheadOf(t)'
    BY DEF Ahead
  <2>4. AheadOf(t) /\ Kept(t)
    BY <2>1 DEF Ahead, Kept
  <2>5. /\ InRest(t)' => InRest(t)
        /\ \A r \in Sess : InUp(r, t)' => InUp(r, t)
        /\ \A r \in Sess : UpOnce(r, t)'
    BY <2>1, <2>4 DEF InRest, InUp, EarlyIn, UpOnce, OnceIn, AheadOf
  <2>6. /\ \A r \in Sess \ {s} : InHnd(r, t)' => InHnd(r, t)
        /\ ~InHnd(s, t)'
    BY <2>3 DEF InHnd, EarlyPc
  <2>7. CASE t = q
    <3>1. Has("hnd", s, t)
      BY <1>1, <2>7 DEF DispatchExec, At, Has, InHnd, EarlyPc
    <3>2. \A r \in Sess : ~InDown(r, t)
      BY <2>4, <3>1 DEF AheadOf, Only, Has, Where, Who
    <3>3. \A r \in Sess : DownOnce(r, t)' /\ (InDown(r, t)' => r = hub)
      BY <2>2, <2>7, <3>2, PushEarly DEF Kind
    <3>4. \A v \in Where, r \in Who :
            Has(v, r, t)' => \/ v = "down" /\ r = s
                             \/ Has(v, r, t) /\ ~(v = "hnd" /\ r = s)
      BY <1>2, <2>5, <2>6, <3>3 DEF Has
    <3>5. StillOnce(t)
      BY <2>5, <3>3 DEF StillOnce
    <3> QED
      BY <2>4, <3>1, <3>4, <3>5, Hops DEF Where, Who
  <2>8. CASE t # q
    <3>1. \A r \in Sess : /\ InDown(r, t)' => InDown(r, t)
                          /\ DownOnce(r, t) => DownOnce(r, t)'
      BY <2>2, <2>8, PushEarly DEF Kind
    <3>2. StillOnce(t)
      BY <2>4, <2>5, <3>1 DEF StillOnce, AheadOf
    <3>3. \A v \in Where, r \in Who : Has(v, r, t)' => Has(v, r, t)
      BY <2>5, <2>6, <3>1 DEF Has
    <3> QED
      BY <2>4, <3>2, <3>3, Stays
  <2> QED
    BY <2>7, <2>8
<1>3. CASE hub # s
  BY <1>3, AheadDeath DEF DispatchExec
<1> QED
  BY <1>2, <1>3

\* The exec that was ahead of the task becomes its pull_request, the first one,
\* or is not saved.
LEMMA AheadInsertPr ==
  ASSUME TypeOK, Ahead, NEW s \in Sess, InsertPr(s) \/ ExecFails(s)
  PROVE  Ahead'
<1>1. PICK q \in Task : hnd[s].t = q
  BY HndFields
<1>2. /\ hnd'[s].pc \in {"prSaved", "afterExec"}
      /\ \A r \in Sess \ {s} : hnd'[r] = hnd[r]
  <2>1. CASE InsertPr(s)
    BY <2>1, Moves DEF InsertPr, Moved, HndPc
  <2>2. CASE ExecFails(s)
    <3>1. Goto(s, "afterExec")
      BY <2>2 DEF ExecFails, StatementFails, AfterFailure
    <3> QED
      BY <3>1, Moves DEF Moved, HndPc
  <2> QED
    BY <2>1, <2>2
<1>3. UNCHANGED <<task, rest, up, down>>
  BY DEF InsertPr, ExecFails, StatementFails, rows, quiet, steady
<1>4. /\ prs[q] \in Nat /\ prs'[q] \in {prs[q], prs[q] + 1}
      /\ \A t \in Task \ {q} : /\ prs'[t] = prs[t]
                               /\ past'[t].unsaved = past[t].unsaved
  <2>1. CASE InsertPr(s)
    BY <1>1, <2>1 DEF InsertPr, TypeOK
  <2>2. CASE ExecFails(s)
    <3>1. UNCHANGED prs /\ prs[q] \in Nat
      BY <2>2 DEF ExecFails, StatementFails, rows, TypeOK
    <3>2. Remember(q, "unsaved")
      BY <1>1, <2>2, FailureRemembers DEF ExecFails
    <3> QED
      BY <3>1, <3>2, RememberFlags DEF Flags
  <2> QED
    BY <2>1, <2>2
<1> SUFFICES ASSUME NEW t \in Task PROVE AheadOf(t)'
  BY DEF Ahead
<1>5. AheadOf(t)
  BY DEF Ahead
<1>6. \A v \in Where, r \in Who :
        Has(v, r, t)' => Has(v, r, t) /\ ~(v = "hnd" /\ r = s)
  BY <1>2, <1>3 DEF Has, InRest, InHnd, InDown, InUp, EarlyIn, EarlyPc
<1>7. StillOnce(t)
  BY <1>3, <1>5 DEF StillOnce, DownOnce, UpOnce, OnceIn, AheadOf
<1>8. CASE t = q
  <2>1. Has("hnd", s, t)
    BY <1>1, <1>8 DEF InsertPr, ExecFails, At, Has, InHnd, EarlyPc
  <2>2. Only("hnd", s, t) /\ task[t] # "none" /\ prs[t] = 0
    BY <1>4, <1>5, <1>8, <2>1 DEF AheadOf, Only, Nowhere, Where, Who, Ran
  <2>3. Nowhere(t)'
    BY <1>6, <2>2 DEF Only, Nowhere
  <2>4. \E v \in Where, r \in Who : Only(v, r, t)'
    BY <2>3 DEF Only, Nowhere, Where, Who
  <2>5. prs'[t] \in {0, 1} /\ task'[t] # "none"
    BY <1>3, <1>4, <1>8, <2>2
  <2> QED
    BY <1>7, <2>3, <2>4, <2>5 DEF AheadOf, StillOnce
<1>9. CASE t # q
  <2>1. Kept(t)
    BY <1>3, <1>4, <1>9 DEF Kept
  <2> QED
    BY <1>5, <1>6, <1>7, <2>1, Stays
<1> QED
  BY <1>8, <1>9

\* A command becomes the event that reports it, or a failure.
LEMMA AheadRunStep ==
  ASSUME TypeOK, Ahead, NEW s \in Sess, RunStep(s)
  PROVE  Ahead'
<1>1. PICK m \in Command, e \in Event :
        /\ down[s] \in Seq(Command) /\ down[s] # <<>> /\ down[s][1] = m
        /\ e.t = m.t /\ e.k \in {m.k, "fail"}
        /\ up[s] \in Seq(Event) /\ up'[s] = Append(up[s], e)
        /\ down'[s] = Tail(down[s])
        /\ \A q \in Sess \ {s} : down'[q] = down[q] /\ up'[q] = up[q]
  BY RunTakes
<1>2. UNCHANGED <<task, prs, rest, hnd, past>>
  BY DEF RunStep, rows
<1> SUFFICES ASSUME NEW t \in Task PROVE AheadOf(t)'
  BY DEF Ahead
<1>3. AheadOf(t) /\ Kept(t)
  BY <1>2 DEF Ahead, Kept
<1>4. /\ InRest(t)' => InRest(t)
      /\ \A r \in Sess : InHnd(r, t)' => InHnd(r, t)
  BY <1>2 DEF InRest, InHnd
<1>5. /\ InDown(s, t)' => InDown(s, t)
      /\ DownOnce(s, t)'
      /\ m.t = t /\ m.k \in EarlyKind => ~InDown(s, t)'
  BY <1>1, <1>3, TailEarly DEF InDown, DownOnce, AheadOf
<1>6. \A r \in Sess \ {s} : /\ InDown(r, t)' => InDown(r, t)
                            /\ InUp(r, t)' => InUp(r, t)
                            /\ DownOnce(r, t)' /\ UpOnce(r, t)'
  BY <1>1, <1>3 DEF InDown, InUp, DownOnce, UpOnce, EarlyIn, OnceIn, AheadOf
<1>7. CASE m.t = t /\ m.k \in EarlyKind
  <2>1. Has("down", s, t)
    BY <1>1, <1>7 DEF Has, InDown, EarlyIn
  <2>2. ~InUp(s, t)
    BY <1>3, <2>1 DEF AheadOf, Only, Has, Where, Who
  <2>3. UpOnce(s, t)'
    BY <1>1, <2>2, AppendEarly DEF InUp, UpOnce
  <2>4. \A v \in Where, r \in Who :
          Has(v, r, t)' => \/ v = "up" /\ r = s
                           \/ Has(v, r, t) /\ ~(v = "down" /\ r = s)
    BY <1>4, <1>5, <1>6, <1>7 DEF Has
  <2>5. StillOnce(t)
    BY <1>5, <1>6, <2>3 DEF StillOnce
  <2> QED
    BY <1>3, <2>1, <2>4, <2>5, Hops DEF Where, Who
<1>8. CASE ~(m.t = t /\ m.k \in EarlyKind)
  <2>1. ~(e.t = t /\ e.k \in EarlyKind)
    BY <1>1, <1>8 DEF EarlyKind
  <2>2. (InUp(s, t)' => InUp(s, t)) /\ UpOnce(s, t)'
    BY <1>1, <1>3, <2>1, AppendEarly DEF InUp, UpOnce, AheadOf
  <2>3. \A v \in Where, r \in Who : Has(v, r, t)' => Has(v, r, t)
    BY <1>4, <1>5, <1>6, <2>2 DEF Has
  <2>4. StillOnce(t)
    BY <1>5, <1>6, <2>2 DEF StillOnce
  <2> QED
    BY <1>3, <2>3, <2>4, Stays
<1> QED
  BY <1>7, <1>8

\* What a stream loses is ahead no more, and a snapshot is no plan.
LEMMA AheadStreams ==
  ASSUME TypeOK, Ahead,
         \/ \E s \in Sess : Disconnect(s) \/ StreamEnds(s)
         \/ \E e \in Executor : Connect(e)
  PROVE  Ahead'
<1>1. UNCHANGED <<task, prs, rest, past>>
  BY DEF Disconnect, StreamEnds, Connect, rows
<1>2. ASSUME NEW r \in Sess
      PROVE  /\ down'[r] = down[r] \/ down'[r] = <<>>
             /\ \/ up'[r] = up[r]
                \/ \A i \in DOMAIN up'[r] : up'[r][i].k = "snapshot"
  <2>1. CASE \E s \in Sess : Disconnect(s) \/ StreamEnds(s)
    BY <2>1 DEF Disconnect, StreamEnds, TypeOK
  <2>2. CASE \E e \in Executor : Connect(e)
    BY <2>2, ConnectTypes DEF Connect
  <2> QED
    BY <2>1, <2>2
<1>3. ASSUME NEW r \in Sess PROVE hnd'[r] = hnd[r] \/ hnd'[r].pc = "idle"
  <2>1. ASSUME NEW s \in Sess, StreamEnds(s)
        PROVE  hnd'[r] = hnd[r] \/ hnd'[r].pc = "idle"
    BY <2>1, Moves DEF StreamEnds, Goto, Moved, HndPc
  <2> QED
    BY <2>1 DEF Disconnect, Connect
<1>4. \A t \in Task : Kept(t) /\ (InRest(t)' => InRest(t))
  BY <1>1 DEF Kept, InRest
<1>5. \A r \in Sess, t \in Task : InHnd(r, t)' => InHnd(r, t)
  BY <1>3 DEF InHnd, EarlyPc
<1>6. \A r \in Sess, t \in Task : /\ InDown(r, t)' => InDown(r, t)
                                  /\ DownOnce(r, t) => DownOnce(r, t)'
  BY <1>2 DEF InDown, DownOnce, EarlyIn, OnceIn
<1>7. \A r \in Sess, t \in Task : /\ InUp(r, t)' => InUp(r, t)
                                  /\ UpOnce(r, t) => UpOnce(r, t)'
  BY <1>2 DEF InUp, UpOnce, EarlyIn, OnceIn, EarlyKind
<1> QED
  BY <1>4, <1>5, <1>6, <1>7, AheadFewer DEF Fewer

\* The plan of a new task is pushed, or dropped without a stream to push it to.
LEMMA AheadSendPlan ==
  ASSUME TypeOK, Ahead, NEW q \in Task, SendPlan(q)
  PROVE  Ahead'
<1>1. UNCHANGED <<task, prs, hnd, up, past>>
  BY StatusToNoOne DEF SendPlan
<1>2. Pushed("plan", q)
  BY HubPush DEF SendPlan, Kind
<1>3. ~InRest(q)' /\ \A t \in Task \ {q} : InRest(t)' => InRest(t)
  BY DEF SendPlan, TypeOK, InRest
<1> SUFFICES ASSUME NEW t \in Task PROVE AheadOf(t)'
  BY DEF Ahead
<1>4. AheadOf(t) /\ Kept(t)
  BY <1>1 DEF Ahead, Kept
<1>5. \A r \in Sess : /\ InHnd(r, t)' => InHnd(r, t)
                      /\ InUp(r, t)' => InUp(r, t)
                      /\ UpOnce(r, t)'
  BY <1>1, <1>4 DEF InHnd, InUp, EarlyIn, UpOnce, OnceIn, AheadOf
<1>6. CASE t = q
  <2>1. Has("rest", NoSess, t)
    BY <1>6 DEF SendPlan, Has, InRest
  <2>2. \A r \in Sess : ~InDown(r, t)
    BY <1>4, <2>1 DEF AheadOf, Only, Has, Where, Who
  <2>3. \A r \in Sess : DownOnce(r, t)' /\ (InDown(r, t)' => r = hub)
    BY <1>2, <1>6, <2>2, PushEarly DEF Kind
  <2>4. \A v \in Where, r \in Who :
          Has(v, r, t)' => \/ v = "down" /\ r = hub
                           \/ Has(v, r, t) /\ ~(v = "rest" /\ r = NoSess)
    BY <1>3, <1>5, <1>6, <2>3 DEF Has
  <2>5. StillOnce(t)
    BY <1>5, <2>3 DEF StillOnce
  <2>6. hub \in Who
    BY DEF TypeOK, Who
  <2> QED
    BY <1>4, <2>1, <2>4, <2>5, <2>6, Hops DEF Where, Who
<1>7. CASE t # q
  <2>1. \A r \in Sess : /\ InDown(r, t)' => InDown(r, t)
                        /\ DownOnce(r, t) => DownOnce(r, t)'
    BY <1>2, <1>7, PushEarly DEF Kind
  <2>2. StillOnce(t)
    BY <1>4, <1>5, <2>1 DEF StillOnce, AheadOf
  <2>3. \A v \in Where, r \in Who : Has(v, r, t)' => Has(v, r, t)
    BY <1>3, <1>5, <1>7, <2>1 DEF Has
  <2> QED
    BY <1>4, <2>2, <2>3, Stays
<1> QED
  BY <1>6, <1>7

\* A new task is the only one that gets something ahead of it.
LEMMA AheadCreateTask ==
  ASSUME TypeOK, Ahead, NEW q \in Task, CreateTask(q)
  PROVE  Ahead'
<1>1. UNCHANGED <<prs, hnd, up, down, past>> /\ task[q] = "none"
  BY DEF CreateTask, pipes
<1>2. /\ task'[q] = "queued" /\ \A t \in Task \ {q} : task'[t] = task[t]
      /\ \A t \in Task \ {q} : rest'[t] = rest[t]
  BY DEF CreateTask, SetStatus, TypeOK
<1> SUFFICES ASSUME NEW t \in Task PROVE AheadOf(t)'
  BY DEF Ahead
<1>3. AheadOf(t)
  BY DEF Ahead
<1>4. StillOnce(t)
  BY <1>1, <1>3 DEF StillOnce, DownOnce, UpOnce, OnceIn, AheadOf
<1>5. \A v \in Where, r \in Who :
        Has(v, r, t)' => Has(v, r, t) \/ (t = q /\ v = "rest" /\ r = NoSess)
  BY <1>1, <1>2 DEF Has, InRest, InHnd, InDown, InUp, EarlyIn
<1>6. CASE t = q
  <2>1. Nowhere(t) /\ ~Ran(t) /\ prs[t] <= 1
    BY <1>1, <1>3, <1>6 DEF AheadOf
  <2>2. Only("rest", NoSess, t)'
    BY <1>5, <2>1 DEF Only, Nowhere
  <2>3. \E v \in Where, r \in Who : Only(v, r, t)'
    BY <2>2 DEF Where, Who
  <2>4. ~Ran(t)' /\ prs'[t] <= 1 /\ task'[t] # "none"
    BY <1>1, <1>2, <1>6, <2>1 DEF Ran
  <2> QED
    BY <1>4, <2>3, <2>4 DEF AheadOf, StillOnce
<1>7. CASE t # q
  <2>1. Kept(t)
    BY <1>1, <1>2, <1>7 DEF Kept
  <2> QED
    BY <1>3, <1>4, <1>5, <1>7, <2>1, Stays
<1> QED
  BY <1>6, <1>7

LEMMA AheadStep ==
  ASSUME TypeOK, Ahead, [Next]_vars
  PROVE  Ahead'
<1>1. ASSUME UNCHANGED <<prs, hnd, up>>, SameSaved,
             \A t \in Task : /\ task'[t] = "none" => task[t] = "none"
                             /\ rest'[t] = "plan" => rest[t] = "plan",
             \/ UNCHANGED down
             \/ \E q \in Task : Pushed("merge", q)
      PROVE  Ahead'
  <2>1. \A r \in Sess, t \in Task : /\ InDown(r, t)' => InDown(r, t)
                                    /\ DownOnce(r, t) => DownOnce(r, t)'
    <3>1. CASE UNCHANGED down
      BY <3>1 DEF InDown, DownOnce, EarlyIn, OnceIn
    <3>2. CASE \E q \in Task : Pushed("merge", q)
      BY <3>2, PushEarly DEF Kind, EarlyKind
    <3> QED
      BY <1>1, <3>1, <3>2
  <2>2. \A r \in Sess, t \in Task : /\ InHnd(r, t)' => InHnd(r, t)
                                    /\ InUp(r, t)' => InUp(r, t)
                                    /\ UpOnce(r, t) => UpOnce(r, t)'
    BY <1>1 DEF InHnd, InUp, UpOnce, EarlyIn, OnceIn
  <2>3. \A t \in Task : Kept(t) /\ (InRest(t)' => InRest(t))
    BY <1>1 DEF Kept, InRest, SameSaved
  <2> QED
    BY <2>1, <2>2, <2>3, AheadFewer DEF Fewer
<1>2. ASSUME NEW t \in Task, SendMerge(t) PROVE Ahead'
  <2>1. Pushed("merge", t)
    BY <1>2, HubPush DEF SendMerge, Kind
  <2>2. /\ UNCHANGED <<task, prs, hnd, up>> /\ SameSaved
        /\ \A q \in Task : rest'[q] = "plan" => rest[q] = "plan"
    BY <1>2 DEF SendMerge, rows, SameSaved, TypeOK
  <2> QED
    BY <1>1, <2>1, <2>2
<1>3. ASSUME NEW t \in Task,
             Approve(t) \/ Reject(t) \/ RequestCut(t) \/ SendMergeFails(t)
      PROVE  Ahead'
  <2>1. UNCHANGED <<prs, hnd, up, down>>
    BY <1>3 DEF Approve, Reject, RequestCut, SendMergeFails, rows, pipes
  <2>2. \A q \in Task : rest'[q] = "plan" => rest[q] = "plan"
    BY <1>3 DEF Approve, Reject, RequestCut, SendMergeFails, TypeOK
  <2>3. \A q \in Task : task'[q] = "none" => task[q] = "none"
    BY <1>3
       DEF Approve, Reject, RequestCut, SendMergeFails, SetStatus, rows, TypeOK
  <2>4. SameSaved
    <3>1. CASE UNCHANGED past
      BY <3>1 DEF SameSaved
    <3>2. CASE Approve(t)
      <4>1. PICK f \in {"human", "overruled"} : Remember(t, f)
        BY <3>2 DEF Approve
      <4> QED
        BY <4>1, RememberFlags DEF SameSaved, Flags
    <3> QED
      BY <1>3, <3>1, <3>2 DEF Reject, RequestCut, SendMergeFails
  <2> QED
    BY <1>1, <2>1, <2>2, <2>3, <2>4
<1>4. CASE Reconfigure \/ UNCHANGED vars
  <2>1. UNCHANGED <<task, prs, rest, hnd, up, down>> /\ SameSaved
    BY <1>4 DEF Reconfigure, vars, rows, pipes, SameSaved
  <2> QED
    BY <1>1, <2>1
<1>5. CASE Crash
  BY <1>5, AheadDeath DEF Crash, rows
<1>6. ASSUME NEW s \in Sess, Handler(s) PROVE Ahead'
  BY <1>6, AheadRecv, AheadDispatchExec, AheadInsertPr, AheadHandlerStep
<1>7. ASSUME NEW t \in Task, Rest(t) PROVE Ahead'
  BY <1>2, <1>3, <1>7, AheadSendPlan DEF Rest
<1> QED
  BY <1>3, <1>4, <1>5, <1>6, <1>7, AheadRunStep, AheadStreams, AheadCreateTask
     DEF Next, People

LEMMA InitAhead == Init => Ahead
<1> SUFFICES ASSUME Init, NEW t \in Task PROVE AheadOf(t)
  BY DEF Ahead
<1>1. \A s \in Sess : hnd[s].pc = "idle" /\ down[s] = <<>> /\ up[s] = <<>>
  BY DEF Init, NoHandler
<1>2. prs[t] = 0 /\ ~Ran(t) /\ ~InRest(t)
  BY DEF Init, InRest, Ran
<1>3. \A s \in Sess : /\ ~InHnd(s, t) /\ ~InDown(s, t) /\ ~InUp(s, t)
                      /\ DownOnce(s, t) /\ UpOnce(s, t)
  BY <1>1 DEF InHnd, InDown, InUp, DownOnce, UpOnce, EarlyIn, OnceIn, EarlyPc
<1>4. Nowhere(t)
  BY <1>2, <1>3 DEF Nowhere, Has
<1>5. \E v \in Where, r \in Who : Only(v, r, t)
  BY <1>4 DEF Only, Nowhere, Where, Who
<1> QED
  BY <1>2, <1>3, <1>4, <1>5 DEF AheadOf

\* At most one plan or exec of a task is ahead of its pull_request, and none
\* after it: over every queue, handler and request at once, in every state.
THEOREM PipelineOneAhead == Spec => []Ahead
<1>1. Init => TypeOK /\ Ahead
  BY InitType, InitAhead
<1>2. TypeOK /\ Ahead /\ [Next]_vars => (TypeOK /\ Ahead)'
  BY TypeStep, AheadStep
<1> QED
  BY <1>1, <1>2, PTL DEF Spec

\* SaveExecResult inserts a second pull_request of a task in no execution.
THEOREM PipelineOnePr == Spec => []OnePr
<1>1. Ahead => OnePr
  BY DEF Ahead, AheadOf, OnePr
<1> QED
  BY <1>1, PipelineOneAhead, PTL

\* A task is blocked for a human only when reviewed by the AI, with its one PR
\* unless the error of SaveExecResult was dropped.
THEOREM PipelineBlockedHasPr == Spec => []BlockedHasPr
<1>1. TypeOK /\ Due /\ Ahead => BlockedHasPr
  <2> SUFFICES ASSUME TypeOK, Due, Ahead, NEW t \in Task, task[t] = "blocked"
               PROVE  past[t].approved /\ (prs[t] = 1 \/ past[t].unsaved)
    BY DEF BlockedHasPr
  <2>1. past[t].approved /\ (prs[t] > 0 \/ past[t].unsaved)
    BY DEF Due, TaskDue, Reviewed, Tested, Ran
  <2>2. prs[t] \in Nat /\ prs[t] <= 1
    BY DEF TypeOK, Ahead, AheadOf
  <2> QED
    BY <2>1, <2>2
<1> QED
  BY <1>1, PipelineDue, PipelineOneAhead, PTL

-----------------------------------------------------------------------------
(* The pipeline implements TaskLife.  A step of TaskLife is one phase, so    *)
(* what was decided about a task must be decided in this order.              *)

Reasons(t) ==
  /\ past[t].green \/ past[t].skipped => Ran(t)
  /\ past[t].approved => Tested(t)
  /\ past[t].human \/ past[t].ungated => Reviewed(t)

InOrder == \A t \in Task : Reasons(t)

\* What must have been decided before a verdict is.
Before(t, f) ==
  /\ f \in {"green", "skipped"} => Ran(t)
  /\ f = "approved" => Tested(t)
  /\ f \in {"human", "ungated"} => Reviewed(t)
  /\ f = "overruled" => ~Reviewed(t)

\* A step that decides nothing keeps the order.
LEMMA OrderFrame ==
  ASSUME InOrder, UNCHANGED past,
         \A t \in Task : Ran(t) => Ran(t)'
  PROVE  InOrder'
<1> SUFFICES ASSUME NEW t \in Task PROVE Reasons(t)'
  BY DEF InOrder
<1>1. Tested(t) => Tested(t)'
  BY DEF Tested
<1>2. Reviewed(t) => Reviewed(t)'
  BY <1>1 DEF Reviewed
<1>3. Reasons(t)
  BY DEF InOrder
<1> QED
  BY <1>1, <1>2, <1>3 DEF Reasons

LEMMA OrderRemember ==
  ASSUME TypeOK, InOrder, NEW t \in Task, NEW f \in Flags,
         Remember(t, f), Before(t, f), UNCHANGED <<prs, merged>>
  PROVE  InOrder'
<1>1. Grows
  BY RememberGrows
<1> SUFFICES ASSUME NEW q \in Task PROVE Reasons(q)'
  BY DEF InOrder
<1>2. Reasons(q)
  BY DEF InOrder
<1>3. /\ Ran(q) => Ran(q)'
      /\ Tested(q) => Tested(q)'
      /\ Reviewed(q) => Reviewed(q)'
  BY <1>1, GrowsFacts
<1>4. CASE q # t
  <2>1. past'[q] = past[q]
    BY <1>4, RememberFlags
  <2> QED
    BY <1>2, <1>3, <2>1 DEF Reasons
<1>5. CASE q = t
  <2>1. /\ past'[t].green \/ past'[t].skipped
             => past[t].green \/ past[t].skipped \/ f \in {"green", "skipped"}
        /\ past'[t].approved => past[t].approved \/ f = "approved"
        /\ past'[t].human \/ past'[t].ungated
             => past[t].human \/ past[t].ungated \/ f \in {"human", "ungated"}
    BY RememberFlags
  <2> QED
    BY <1>2, <1>3, <1>5, <2>1 DEF Reasons, Before
<1> QED
  BY <1>4, <1>5

-----------------------------------------------------------------------------
(* The steps of TaskLife, from the rows that change. *)

LEMMA PhaseStays ==
  ASSUME NEW t \in Task, prs'[t] = prs[t], past'[t] = past[t]
  PROVE  PhaseOf(t)' = PhaseOf(t)
BY DEF PhaseOf, Cleared, Reviewed, Tested, Ran

SameMerges == \A t \in Task : pr'[t].st = pr[t].st
SameRulings == \A t \in Task : past'[t].overruled = past[t].overruled

LEMMA JobStutters ==
  ASSUME SameMerges, SameRulings, UNCHANGED <<prs, merged>>,
         \A t \in Task : PhaseOf(t)' = PhaseOf(t) /\ ShownOf(t)' = ShownOf(t)
  PROVE  Life!JobNext
BY DEF Life!JobNext, Life!jobVars, Life!decisions, SameMerges, SameRulings

LEMMA JobTo ==
  ASSUME NEW q \in Task, NEW from, NEW to,
         PhaseOf(q) = from, PhaseOf(q)' = to,
         \A t \in Task \ {q} : PhaseOf(t)' = PhaseOf(t)
  PROVE  Life!To(q, from, to)
BY DEF Life!To

LEMMA JobShows ==
  ASSUME NEW q \in Task, NEW to, ShownOf(q)' = to,
         \A t \in Task \ {q} : ShownOf(t)' = ShownOf(t)
  PROVE  Life!Shows(q, to)
BY DEF Life!Shows

\* The statement that writes the status of a task.
LEMMA JobTells ==
  ASSUME TypeOK, SameMerges, UNCHANGED <<prs, past, merged>>,
         NEW q \in Task, NEW st \in Status, SetStatus(q, st),
         st = "blocked" => Reviewed(q),
         st = "merged" => q \in merged
  PROVE  Life!JobNext
<1>1. \A t \in Task : PhaseOf(t)' = PhaseOf(t)
  BY PhaseStays
<1>2. task'[q] = st /\ \A t \in Task \ {q} : task'[t] = task[t]
  BY StatusTypes
<1>3. \A t \in Task \ {q} : ShownOf(t)' = ShownOf(t)
  BY <1>2 DEF ShownOf
<1>4. UNCHANGED << [t \in Task |-> PhaseOf(t)], prs, merged,
                   {t \in Task : past[t].overruled},
                   {t \in Task : pr[t].st = "merged"} >>
  BY <1>1 DEF SameMerges
<1>5. CASE st = "blocked"
  <2>1. ShownOf(q)' = "waiting"
    BY <1>2, <1>5 DEF ShownOf
  <2>2. PhaseOf(q) \in {"reviewed", "cleared"}
    BY <1>5 DEF PhaseOf
  <2>3. Life!Wait(q)
    BY <1>3, <1>4, <2>1, <2>2, JobShows DEF Life!Wait, Life!decisions
  <2> QED
    BY <2>3 DEF Life!JobNext, Life!Tell
<1>6. CASE st = "merged"
  <2>1. ShownOf(q)' = "merged"
    BY <1>2, <1>6 DEF ShownOf
  <2>2. Life!Finish(q)
    BY <1>3, <1>4, <1>6, <2>1, JobShows DEF Life!Finish, Life!decisions
  <2> QED
    BY <2>2 DEF Life!JobNext, Life!Tell
<1>7. CASE st \notin {"blocked", "merged"}
  <2>1. ShownOf(q)' = "open"
    BY <1>2, <1>7 DEF ShownOf
  <2>2. Life!Resume(q)
    BY <1>3, <1>4, <2>1, JobShows DEF Life!Resume, Life!decisions
  <2> QED
    BY <2>2 DEF Life!JobNext, Life!Tell
<1> QED
  BY <1>5, <1>6, <1>7

Verdicts == {"green", "skipped", "approved", "human", "ungated"}

\* The statement that gives a verdict, which may tell the task to go on as well.
LEMMA JobVerdict ==
  ASSUME TypeOK, Due, InOrder, SameMerges, UNCHANGED <<prs, merged>>,
         NEW q \in Task, NEW f \in Verdicts, Remember(q, f), Before(q, f),
         \/ UNCHANGED task
         \/ f = "human" /\ SetStatus(q, "running")
  PROVE  Life!JobNext
<1>1. /\ \A t \in Task \ {q} : past'[t] = past[t]
      /\ f = "green" \/ past'[q].green = past[q].green
      /\ f = "skipped" \/ past'[q].skipped = past[q].skipped
      /\ f = "approved" \/ past'[q].approved = past[q].approved
      /\ f = "human" \/ past'[q].human = past[q].human
      /\ f = "ungated" \/ past'[q].ungated = past[q].ungated
      /\ past'[q].unsaved = past[q].unsaved
      /\ past'[q].overruled = past[q].overruled
  BY RememberFlags DEF Verdicts, Flags
<1>2. \A t \in Task \ {q} : PhaseOf(t)' = PhaseOf(t)
  BY <1>1, PhaseStays
<1>3. Reasons(q)
  BY DEF InOrder
<1>4. /\ f = "green" => past'[q].green
      /\ f = "skipped" => past'[q].skipped
      /\ f = "approved" => past'[q].approved
      /\ f = "human" => past'[q].human
      /\ f = "ungated" => past'[q].ungated
  BY Remembered
<1>5. Ran(q)' <=> Ran(q)
  BY <1>1 DEF Ran
<1>6. \/ PhaseOf(q)' = PhaseOf(q)
      \/ PhaseOf(q) = "executed" /\ PhaseOf(q)' = "tested"
      \/ PhaseOf(q) = "tested" /\ PhaseOf(q)' = "reviewed"
      \/ PhaseOf(q) = "reviewed" /\ PhaseOf(q)' = "cleared"
  <2>1. CASE f \in {"green", "skipped"}
    BY <1>1, <1>3, <1>4, <1>5, <2>1
       DEF Before, Reasons, PhaseOf, Cleared, Reviewed, Tested
  <2>2. CASE f = "approved"
    BY <1>1, <1>3, <1>4, <1>5, <2>2
       DEF Before, Reasons, PhaseOf, Cleared, Reviewed, Tested
  <2>3. CASE f \in {"human", "ungated"}
    BY <1>1, <1>3, <1>4, <1>5, <2>3
       DEF Before, Reasons, PhaseOf, Cleared, Reviewed, Tested
  <2> QED
    BY <2>1, <2>2, <2>3 DEF Verdicts
<1>7. SameRulings
  BY <1>1 DEF SameRulings
<1>8. UNCHANGED << prs, merged, {t \in Task : past[t].overruled},
                   {t \in Task : pr[t].st = "merged"} >>
  BY <1>7 DEF SameMerges, SameRulings
<1>9. CASE UNCHANGED task
  <2>1. \A t \in Task : ShownOf(t)' = ShownOf(t)
    BY <1>9 DEF ShownOf
  <2>2. UNCHANGED [t \in Task |-> ShownOf(t)]
    BY <2>1
  <2>3. CASE PhaseOf(q)' = PhaseOf(q)
    BY <1>2, <1>7, <2>1, <2>3, JobStutters
  <2>4. CASE PhaseOf(q)' # PhaseOf(q)
    <3>1. Life!Pass(q)
      BY <1>2, <1>6, <1>8, <2>2, <2>4, JobTo DEF Life!Pass
    <3> QED
      BY <3>1 DEF Life!JobNext, Life!Forward
  <2> QED
    BY <2>3, <2>4
<1>10. CASE f = "human" /\ SetStatus(q, "running")
  <2>1. task'[q] = "running" /\ \A t \in Task \ {q} : task'[t] = task[t]
    BY <1>10, StatusTypes DEF Status
  <2>2. ShownOf(q)' = "open" /\ \A t \in Task \ {q} : ShownOf(t)' = ShownOf(t)
    BY <2>1 DEF ShownOf
  <2>3. Life!Shows(q, "open")
    BY <2>2, JobShows
  <2>4. CASE PhaseOf(q)' = PhaseOf(q)
    <3>1. UNCHANGED [t \in Task |-> PhaseOf(t)]
      BY <1>2, <2>4
    <3>2. Life!Resume(q)
      BY <1>8, <2>3, <3>1 DEF Life!Resume, Life!decisions
    <3> QED
      BY <3>2 DEF Life!JobNext, Life!Tell
  <2>5. CASE PhaseOf(q) = "reviewed" /\ PhaseOf(q)' = "cleared"
    <3>1. Life!Clear(q)
      BY <1>2, <1>8, <2>3, <2>5, JobTo DEF Life!Clear
    <3> QED
      BY <3>1 DEF Life!JobNext, Life!Forward
  <2>6. PhaseOf(q) \notin {"executed", "tested"}
    BY <1>10 DEF Before, PhaseOf
  <2> QED
    BY <1>6, <2>4, <2>5, <2>6
<1> QED
  BY <1>9, <1>10

\* An approval of what was not reviewed.
LEMMA JobOverrules ==
  ASSUME TypeOK, SameMerges, UNCHANGED <<prs, merged>>,
         NEW q \in Task, ~Reviewed(q), Remember(q, "overruled"),
         SetStatus(q, "running")
  PROVE  Life!JobNext
<1>1. /\ \A t \in Task \ {q} : past'[t] = past[t]
      /\ past'[q].overruled /\ past'[q].unsaved = past[q].unsaved
      /\ past'[q].green = past[q].green /\ past'[q].skipped = past[q].skipped
      /\ past'[q].approved = past[q].approved
      /\ past'[q].human = past[q].human /\ past'[q].ungated = past[q].ungated
  BY Remembered, RememberFlags DEF Flags
<1>2. \A t \in Task \ {q} : PhaseOf(t)' = PhaseOf(t)
  BY <1>1, PhaseStays
<1>3. PhaseOf(q)' = PhaseOf(q)
  BY <1>1 DEF PhaseOf, Cleared, Reviewed, Tested, Ran
<1>4. UNCHANGED << [t \in Task |-> PhaseOf(t)], prs, merged,
                   {t \in Task : pr[t].st = "merged"} >>
  BY <1>2, <1>3 DEF SameMerges
<1>5. {t \in Task : past[t].overruled}'
        = {t \in Task : past[t].overruled} \cup {q}
  BY <1>1
<1>6. PhaseOf(q) \in {"new", "executed", "tested"}
  BY DEF PhaseOf, Cleared
<1>7. task'[q] = "running" /\ \A t \in Task \ {q} : task'[t] = task[t]
  BY StatusTypes DEF Status
<1>8. ShownOf(q)' = "open" /\ \A t \in Task \ {q} : ShownOf(t)' = ShownOf(t)
  BY <1>7 DEF ShownOf
<1>9. Life!Overrule(q)
  BY <1>4, <1>5, <1>6, <1>8, JobShows DEF Life!Overrule
<1> QED
  BY <1>9 DEF Life!JobNext, Life!Forward

\* The exec is reported: SaveExecResult inserts the pull request or fails.
LEMMA JobExecutes ==
  ASSUME TypeOK, Due, InOrder, UNCHANGED <<task, merged>>,
         NEW q \in Task, ~Ran(q),
         \/ /\ prs' = [prs EXCEPT ![q] = @ + 1] /\ pr' = [pr EXCEPT ![q] = NewPr]
            /\ UNCHANGED past
         \/ Remember(q, "unsaved") /\ UNCHANGED <<prs, pr>>
  PROVE  Life!JobNext
<1>1. prs \in [Task -> Nat] /\ prs[q] = 0
  BY DEF TypeOK, Ran
<1>2. /\ Reasons(q)
      /\ pr[q].st # "merged"
  BY <1>1 DEF InOrder, Due, PrDue
<1>3. /\ \A t \in Task \ {q} : prs'[t] = prs[t] /\ past'[t] = past[t]
      /\ \A f \in Flags \ {"unsaved"} : past'[q][f] = past[q][f]
      /\ prs' = prs \/ prs' = [prs EXCEPT ![q] = 1]
      /\ Ran(q)'
  <2>1. CASE prs' = [prs EXCEPT ![q] = @ + 1] /\ UNCHANGED past
    BY <1>1, <2>1 DEF Ran
  <2>2. CASE Remember(q, "unsaved") /\ UNCHANGED prs
    <3>1. \A t \in Task \ {q} : past'[t] = past[t]
      BY <2>2, RememberFlags DEF Flags
    <3>2. past'[q].unsaved
      BY <2>2, Remembered
    <3>3. \A f \in Flags \ {"unsaved"} : past'[q][f] = past[q][f]
      BY <2>2, RememberFlags DEF Flags
    <3> QED
      BY <2>2, <3>1, <3>2, <3>3 DEF Ran
  <2> QED
    BY <2>1, <2>2
<1>4. \A t \in Task \ {q} : PhaseOf(t)' = PhaseOf(t)
  BY <1>3, PhaseStays
<1>5. /\ ~past[q].green /\ ~past[q].skipped
      /\ past'[q].green = past[q].green /\ past'[q].skipped = past[q].skipped
      /\ past'[q].overruled = past[q].overruled
  BY <1>2, <1>3 DEF Reasons, Flags
<1>6. PhaseOf(q) = "new" /\ PhaseOf(q)' = "executed"
  BY <1>3, <1>5 DEF PhaseOf, Cleared, Reviewed, Tested
<1>7. UNCHANGED {t \in Task : pr[t].st = "merged"}
  <2>1. CASE UNCHANGED pr
    BY <2>1
  <2>2. CASE pr' = [pr EXCEPT ![q] = NewPr]
    <3>1. pr'[q].st = "open" /\ \A t \in Task \ {q} : pr'[t] = pr[t]
      BY <2>2 DEF TypeOK, NewPr
    <3> QED
      BY <1>2, <3>1
  <2> QED
    BY <2>1, <2>2
<1>8. UNCHANGED <<merged, [t \in Task |-> ShownOf(t)],
                  {t \in Task : past[t].overruled}>>
  BY <1>3, <1>5 DEF ShownOf
<1>9. Life!To(q, "new", "executed")
  BY <1>4, <1>6, JobTo
<1>10. Life!Execute(q)
  BY <1>1, <1>3, <1>7, <1>8, <1>9 DEF Life!Execute
<1> QED
  BY <1>10 DEF Life!JobNext, Life!Forward

\* The executor has pushed the branch to the base branch.
LEMMA JobMerges ==
  ASSUME UNCHANGED rows, UNCHANGED past, NEW q \in Task, MayMerge(q),
         merged' = merged \cup {q}
  PROVE  Life!JobNext
<1>1. \A t \in Task : PhaseOf(t)' = PhaseOf(t)
  BY PhaseStays DEF rows
<1>2. \A t \in Task : ShownOf(t)' = ShownOf(t)
  BY DEF ShownOf, rows
<1>3. UNCHANGED << [t \in Task |-> PhaseOf(t)], [t \in Task |-> ShownOf(t)],
                   prs, {t \in Task : past[t].overruled},
                   {t \in Task : pr[t].st = "merged"} >>
  BY <1>1, <1>2 DEF rows
<1>4. PhaseOf(q) = "cleared" \/ q \in {t \in Task : past[t].overruled}
  BY DEF PhaseOf, MayMerge
<1>5. Life!Merge(q)
  BY <1>3, <1>4 DEF Life!Merge
<1> QED
  BY <1>5 DEF Life!JobNext, Life!Forward

\* A statement that writes no more of the rows than a verdict.
LEMMA SetPrSameMerges ==
  ASSUME TypeOK, NEW t \in Task, NEW new \in PrRow, SetPr(t, new),
         new.st = pr[t].st
  PROVE  SameMerges
BY PrTypes DEF SameMerges

LEMMA JobRecords ==
  ASSUME TypeOK, UNCHANGED <<task, prs, past, merged>>,
         NEW q \in Task, q \in merged, NEW new \in PrRow, SetPr(q, new),
         new.st = "merged"
  PROVE  Life!JobNext
<1>1. \A t \in Task : PhaseOf(t)' = PhaseOf(t) /\ ShownOf(t)' = ShownOf(t)
  BY PhaseStays DEF ShownOf
<1>2. \/ pr'[q] = pr[q]
      \/ pr'[q].st = "merged"
  BY PrTypes
<1>3. \A t \in Task \ {q} : pr'[t] = pr[t]
  BY PrTypes
<1>4. CASE pr'[q] = pr[q]
  BY <1>1, <1>3, <1>4, JobStutters DEF SameMerges, SameRulings
<1>5. CASE pr'[q].st = "merged"
  <2>1. {t \in Task : pr[t].st = "merged"}'
          = {t \in Task : pr[t].st = "merged"} \cup {q}
    BY <1>3, <1>5
  <2>2. UNCHANGED << [t \in Task |-> PhaseOf(t)], [t \in Task |-> ShownOf(t)],
                     {t \in Task : past[t].overruled} >>
    BY <1>1
  <2>3. Life!Record(q)
    BY <2>1, <2>2 DEF Life!Record, Life!decisions
  <2> QED
    BY <2>3 DEF Life!JobNext, Life!Tell
<1> QED
  BY <1>2, <1>4, <1>5

-----------------------------------------------------------------------------
(* Which step of the pipeline is which step of TaskLife. *)

JobDone == Life!JobNext /\ InOrder'

LEMMA JobStays ==
  ASSUME InOrder, SameMerges, UNCHANGED <<task, prs, past, merged>>
  PROVE  JobDone
<1>1. \A t \in Task : PhaseOf(t)' = PhaseOf(t) /\ ShownOf(t)' = ShownOf(t)
  BY PhaseStays DEF ShownOf
<1>2. InOrder'
  BY OrderFrame DEF Ran
<1> QED
  BY <1>1, <1>2, JobStutters DEF JobDone, SameRulings

LEMMA JobUntouched ==
  ASSUME InOrder, UNCHANGED <<task, prs, pr, past, merged>>
  PROVE  JobDone
BY JobStays DEF SameMerges

LEMMA JobStatus ==
  ASSUME TypeOK, InOrder, SameMerges, UNCHANGED <<prs, past, merged>>,
         NEW q \in Task, NEW st \in Status, SetStatus(q, st),
         st = "blocked" => Reviewed(q),
         st = "merged" => q \in merged
  PROVE  JobDone
<1>1. InOrder'
  BY OrderFrame DEF Ran
<1> QED
  BY <1>1, JobTells DEF JobDone

LEMMA JobDecides ==
  ASSUME TypeOK, Due, InOrder, SameMerges, UNCHANGED <<prs, merged>>,
         NEW q \in Task, NEW f \in Verdicts, Remember(q, f), Before(q, f),
         \/ UNCHANGED task
         \/ f = "human" /\ SetStatus(q, "running")
  PROVE  JobDone
<1>1. InOrder'
  BY OrderRemember DEF Verdicts, Flags
<1> QED
  BY <1>1, JobVerdict DEF JobDone

\* A verdict field of the pull_request leaves its state alone.
LEMMA VerdictRows ==
  ASSUME TypeOK, NEW t \in Task, NEW v \in {"approved", "changes"},
         NEW c \in {"passed", "failed"}
  PROVE  /\ \A new \in {[pr[t] EXCEPT !.ci = c], [pr[t] EXCEPT !.ai = v],
                        [pr[t] EXCEPT !.hu = v]} :
              new \in PrRow /\ new.st = pr[t].st
         /\ [pr[t] EXCEPT !.st = "merged"] \in PrRow
         /\ [pr[t] EXCEPT !.st = "merged"].st = "merged"
<1>1. pr[t] \in PrRow
  BY DEF TypeOK
<1> QED
  BY <1>1 DEF PrRow, Verdict

LEMMA JobHandlerStep ==
  ASSUME TypeOK, Due, Ahead, InOrder, NEW s \in Sess, Handler(s)
  PROVE  JobDone
<1>1. PICK q \in Task : hnd[s].t = q
  BY HndFields
<1>2. StatementDue(s, q) /\ PrDue(q) /\ TaskDue(q) /\ hnd[s].ok \in BOOLEAN
  BY <1>1, HndFields DEF Due, HndDue
<1>3. UNCHANGED quiet \/ UNCHANGED steady => UNCHANGED merged
  BY DEF quiet, steady, outside
<1>4. UNCHANGED pr => SameMerges
  BY DEF SameMerges
<1>5. CASE Recv(s) \/ Reconcile(s) \/ SendStep(s)
  <2>1. UNCHANGED <<task, prs, pr, past, merged>>
    BY <1>5 DEF Recv, Reconcile, SendStep, quiet, steady, rows, outside
  <2> QED
    BY <2>1, JobUntouched
<1>6. CASE DispatchExec(s)
  <2>1. task' = task
    BY <1>6, StatusToNoOne DEF DispatchExec
  <2>2. UNCHANGED <<prs, pr, past, merged>>
    BY <1>6 DEF DispatchExec, outside
  <2> QED
    BY <2>1, <2>2, JobUntouched
<1>7. CASE SavePlan(s) \/ ExecSaved(s) \/ FailTask(s)
  <2>1. UNCHANGED <<prs, pr, past, merged>>
    BY <1>3, <1>7 DEF SavePlan, ExecSaved, FailTask
  <2>2. PICK st \in {"in_review", "failed"} : SetStatus(q, st)
    BY <1>1, <1>7 DEF SavePlan, ExecSaved, FailTask
  <2>3. st \in Status /\ st \notin {"blocked", "merged"}
    BY <2>2 DEF Status, Terminal
  <2> QED
    BY <1>4, <2>1, <2>2, <2>3, JobStatus
<1>8. CASE InsertPr(s) \/ ExecFails(s)
  <2>1. ~Ran(q)
    <3>1. Has("hnd", s, q)
      BY <1>1, <1>8 DEF InsertPr, ExecFails, At, Has, InHnd, EarlyPc
    <3>2. AheadOf(q) /\ ~Nowhere(q)
      BY <3>1 DEF Ahead, Nowhere, Where, Who
    <3> QED
      BY <3>2 DEF AheadOf
  <2>2. CASE InsertPr(s)
    <3>1. /\ prs' = [prs EXCEPT ![q] = @ + 1] /\ pr' = [pr EXCEPT ![q] = NewPr]
          /\ UNCHANGED <<task, past, merged>>
      BY <1>1, <1>3, <2>2 DEF InsertPr
    <3>2. \A t \in Task : Ran(t) => Ran(t)'
      BY <3>1 DEF Ran, TypeOK
    <3>3. InOrder'
      BY <3>1, <3>2, OrderFrame
    <3> QED
      BY <2>1, <3>1, <3>3, JobExecutes DEF JobDone
  <2>3. CASE ExecFails(s)
    <3>1. Remember(q, "unsaved") /\ UNCHANGED <<task, prs, pr, merged>>
      BY <1>1, <1>3, <2>3, FailureRemembers DEF ExecFails, StatementFails, rows
    <3>2. InOrder'
      BY <3>1, OrderRemember DEF Before, Flags
    <3> QED
      BY <2>1, <3>1, <3>2, JobExecutes DEF JobDone
  <2> QED
    BY <1>8, <2>2, <2>3
<1>9. CASE AfterExec(s)
  <2>1. UNCHANGED <<task, prs, pr, merged>>
    BY <1>3, <1>9 DEF AfterExec, rows
  <2>2. CASE UNCHANGED past
    BY <2>1, <2>2, JobUntouched
  <2>3. CASE Remember(q, "skipped")
    <3>1. Before(q, "skipped")
      BY <1>2, <1>9 DEF AfterExec, At, StatementDue, Before
    <3> QED
      BY <1>4, <2>1, <2>3, <3>1, JobDecides DEF Verdicts
  <2> QED
    BY <1>1, <1>9, <2>2, <2>3 DEF AfterExec
<1>10. CASE SetCIResult(s)
  <2> DEFINE c == IF hnd[s].ok THEN "passed" ELSE "failed"
  <2>1. c \in {"passed", "failed"} /\ SetPr(q, [pr[q] EXCEPT !.ci = c])
    BY <1>1, <1>10 DEF SetCIResult
  <2> HIDE DEF c
  <2>2. SameMerges
    BY <2>1, VerdictRows, SetPrSameMerges
  <2>3. UNCHANGED <<task, prs, merged>>
    BY <1>3, <1>10 DEF SetCIResult
  <2>4. CASE UNCHANGED past
    BY <2>2, <2>3, <2>4, JobStays
  <2>5. CASE Remember(q, "green")
    <3>1. Before(q, "green")
      BY <1>2, <1>10 DEF SetCIResult, At, StatementDue, EventDue, Before
    <3> QED
      BY <2>2, <2>3, <2>5, <3>1, JobDecides DEF Verdicts
  <2> QED
    BY <1>1, <1>10, <2>4, <2>5 DEF SetCIResult
<1>11. CASE SetAIReview(s)
  <2> DEFINE v == IF hnd[s].ok THEN "approved" ELSE "changes"
  <2>1. v \in {"approved", "changes"} /\ SetPr(q, [pr[q] EXCEPT !.ai = v])
    BY <1>1, <1>11 DEF SetAIReview
  <2> HIDE DEF v
  <2>2. SameMerges
    BY <2>1, VerdictRows, SetPrSameMerges
  <2>3. UNCHANGED <<task, prs, merged>>
    BY <1>3, <1>11 DEF SetAIReview
  <2>4. CASE UNCHANGED past
    BY <2>2, <2>3, <2>4, JobStays
  <2>5. CASE Remember(q, "approved")
    <3>1. Before(q, "approved")
      BY <1>2, <1>11 DEF SetAIReview, At, StatementDue, EventDue, Before
    <3> QED
      BY <2>2, <2>3, <2>5, <3>1, JobDecides DEF Verdicts
  <2> QED
    BY <1>1, <1>11, <2>4, <2>5 DEF SetAIReview
<1>12. CASE Gate(s)
  <2>1. UNCHANGED <<task, prs, pr, merged>>
    BY <1>3, <1>12 DEF Gate, rows
  <2>2. CASE UNCHANGED past
    BY <2>1, <2>2, JobUntouched
  <2>3. CASE Remember(q, "ungated")
    <3>1. Before(q, "ungated")
      BY <1>2, <1>12 DEF Gate, At, StatementDue, Before
    <3> QED
      BY <1>4, <2>1, <2>3, <3>1, JobDecides DEF Verdicts
  <2> QED
    BY <1>1, <1>12, <2>2, <2>3 DEF Gate
<1>13. CASE AfterTest(s) \/ AfterReview(s)
  <2>1. UNCHANGED <<prs, pr, past, merged>>
    BY <1>3, <1>13 DEF AfterTest, AfterReview
  <2>2. CASE UNCHANGED task
    BY <2>1, <2>2, JobUntouched
  <2>3. CASE SetStatus(q, "failed")
    BY <1>4, <2>1, <2>3, JobStatus DEF Status, Terminal
  <2> QED
    BY <1>1, <1>13, <2>2, <2>3 DEF AfterTest, AfterReview
<1>14. CASE SetTaskBlocked(s)
  <2>1. UNCHANGED <<prs, pr, past, merged>> /\ SetStatus(q, "blocked")
    BY <1>1, <1>3, <1>14 DEF SetTaskBlocked
  <2>2. Reviewed(q)
    BY <1>2, <1>14 DEF SetTaskBlocked, At, StatementDue
  <2> QED
    BY <1>4, <2>1, <2>2, JobStatus DEF Status
<1>15. CASE MarkPrMerged(s)
  <2>1. /\ SetPr(q, [pr[q] EXCEPT !.st = "merged"])
        /\ UNCHANGED <<task, prs, past, merged>>
    BY <1>1, <1>3, <1>15 DEF MarkPrMerged
  <2>2. q \in merged
    BY <1>2, <1>15 DEF MarkPrMerged, At, StatementDue, EventDue
  <2>3. Life!JobNext
    BY <2>1, <2>2, VerdictRows, JobRecords
  <2>4. InOrder'
    BY <2>1, OrderFrame DEF Ran
  <2> QED
    BY <2>3, <2>4 DEF JobDone
<1>16. CASE MarkTaskMerged(s)
  <2>1. UNCHANGED <<prs, pr, past, merged>> /\ SetStatus(q, "merged")
    BY <1>1, <1>3, <1>16 DEF MarkTaskMerged
  <2>2. q \in merged
    BY <1>2, <1>16 DEF MarkTaskMerged, At, StatementDue
  <2> QED
    BY <1>4, <2>1, <2>2, JobStatus DEF Status, Terminal
<1>17. CASE AfterExecMisread(s) \/ GateMisread(s)
  <2>1. UNCHANGED <<task, prs, pr, merged>>
    BY <1>3, <1>17 DEF AfterExecMisread, GateMisread, rows
  <2>2. CASE UNCHANGED past
    BY <2>1, <2>2, JobUntouched
  <2>3. CASE GateMisread(s) /\ Remember(q, "ungated")
    <3>1. Before(q, "ungated")
      BY <1>2, <2>3 DEF GateMisread, At, StatementDue, Before
    <3> QED
      BY <1>4, <2>1, <2>3, <3>1, JobDecides DEF Verdicts
  <2> QED
    BY <1>1, <1>17, <2>2, <2>3 DEF AfterExecMisread, GateMisread
<1>18. CASE StatementFails(s) /\ ~ExecFails(s)
  <2>1. UNCHANGED <<task, prs, pr, merged>>
    BY <1>3, <1>18 DEF StatementFails, rows
  <2>2. CASE UNCHANGED past
    BY <2>1, <2>2, JobUntouched
  <2>3. CASE hnd[s].pc = "test" /\ Remember(q, "green")
    <3>1. Before(q, "green")
      BY <1>2, <2>3 DEF StatementDue, EventDue, Before
    <3> QED
      BY <1>4, <2>1, <2>3, <3>1, JobDecides DEF Verdicts
  <2>4. CASE hnd[s].pc = "review" /\ Remember(q, "approved")
    <3>1. Before(q, "approved")
      BY <1>2, <2>4 DEF StatementDue, EventDue, Before
    <3> QED
      BY <1>4, <2>1, <2>4, <3>1, JobDecides DEF Verdicts
  <2> QED
    BY <1>1, <1>18, <2>2, <2>3, <2>4, FailureRemembers DEF ExecFails
<1> QED
  BY <1>5, <1>6, <1>7, <1>8, <1>9, <1>10, <1>11, <1>12, <1>13, <1>14, <1>15,
     <1>16, <1>17, <1>18 DEF Handler

LEMMA JobRunStep ==
  ASSUME TypeOK, Due, InOrder, NEW s \in Sess, RunStep(s)
  PROVE  JobDone
<1>1. PICK m \in Command, r \in Event :
        /\ down[s] \in Seq(Command) /\ down[s] # <<>> /\ down[s][1] = m
        /\ r.t = m.t /\ r.k \in {m.k, "fail"}
        /\ merged' = IF r.k = "merge" THEN merged \cup {m.t} ELSE merged
  BY RunTakes
<1>2. PICK q \in Task, k \in Kind : m.t = q /\ m.k = k
  BY DEF Command
<1>3. UNCHANGED rows /\ UNCHANGED past
  BY DEF RunStep
<1>4. UNCHANGED <<task, prs, pr>>
  BY <1>3 DEF rows
<1>5. CASE r.k = "merge"
  <2>1. Sent(s, "merge", q)
    BY <1>1, <1>2, <1>5 DEF Sent
  <2>2. MayMerge(q)
    BY <2>1 DEF Due, DownDue, CommandDue, Kind
  <2>3. merged' = merged \cup {q}
    BY <1>1, <1>2, <1>5
  <2>4. Life!JobNext
    BY <1>3, <2>2, <2>3, JobMerges
  <2>5. InOrder'
    BY <1>3, <1>4, OrderFrame DEF Ran
  <2> QED
    BY <2>4, <2>5 DEF JobDone
<1>6. CASE r.k # "merge"
  BY <1>1, <1>3, <1>4, <1>6, JobUntouched
<1> QED
  BY <1>5, <1>6

LEMMA JobAnswer ==
  ASSUME TypeOK, Due, InOrder, NEW q \in Task, Approve(q) \/ Reject(q)
  PROVE  JobDone
<1>1. UNCHANGED <<prs, merged>>
  BY DEF Approve, Reject, outside
<1>2. CASE Approve(q)
  <2>1. /\ SetPr(q, [pr[q] EXCEPT !.hu = "approved"])
        /\ SetStatus(q, "running")
        /\ Remember(q, IF Reviewed(q) THEN "human" ELSE "overruled")
    BY <1>2 DEF Approve
  <2>2. SameMerges
    BY <2>1, VerdictRows, SetPrSameMerges
  <2>3. CASE Reviewed(q)
    <3>1. Before(q, "human") /\ Remember(q, "human")
      BY <2>1, <2>3 DEF Before
    <3> QED
      BY <1>1, <2>1, <2>2, <3>1, JobDecides DEF Verdicts
  <2>4. CASE ~Reviewed(q)
    <3>1. Before(q, "overruled") /\ Remember(q, "overruled")
      BY <2>1, <2>4 DEF Before
    <3>2. InOrder'
      BY <1>1, <3>1, OrderRemember DEF Flags
    <3> QED
      BY <1>1, <2>1, <2>2, <2>4, <3>1, <3>2, JobOverrules DEF JobDone
  <2> QED
    BY <2>3, <2>4
<1>3. CASE Reject(q)
  <2>1. /\ SetPr(q, [pr[q] EXCEPT !.hu = "changes"])
        /\ SetStatus(q, "failed") /\ UNCHANGED past
    BY <1>3 DEF Reject
  <2>2. SameMerges
    BY <2>1, VerdictRows, SetPrSameMerges
  <2> QED
    BY <1>1, <2>1, <2>2, JobStatus DEF Status, Terminal
<1> QED
  BY <1>2, <1>3

LEMMA JobStep ==
  ASSUME TypeOK, Due, Ahead, InOrder, [Next]_vars
  PROVE  JobDone
<1>1. ASSUME NEW s \in Sess, Disconnect(s) \/ StreamEnds(s) PROVE JobDone
  BY <1>1, JobUntouched DEF Disconnect, StreamEnds, rows, outside
<1>2. ASSUME NEW e \in Executor, Connect(e) PROVE JobDone
  BY <1>2, JobUntouched DEF Connect, rows, outside
<1>3. ASSUME NEW t \in Task, SendPlan(t) PROVE JobDone
  <2>1. task' = task
    BY <1>3, StatusToNoOne DEF SendPlan
  <2> QED
    BY <1>3, <2>1, JobUntouched DEF SendPlan, outside
<1>4. ASSUME NEW t \in Task, SendMerge(t) \/ SendMergeFails(t) \/ RequestCut(t)
      PROVE  JobDone
  BY <1>4, JobUntouched DEF SendMerge, SendMergeFails, RequestCut, rows, outside
<1>5. ASSUME NEW t \in Task, CreateTask(t) PROVE JobDone
  <2>1. SetStatus(t, "queued") /\ UNCHANGED <<prs, pr, past, merged>>
    BY <1>5 DEF CreateTask, outside
  <2>2. SameMerges
    BY <2>1 DEF SameMerges
  <2> QED
    BY <2>1, <2>2, JobStatus DEF Status
<1>6. CASE Reconfigure \/ Crash \/ UNCHANGED vars
  BY <1>6, JobUntouched
     DEF Reconfigure, Crash, vars, rows, outside
<1> QED
  BY <1>1, <1>2, <1>3, <1>4, <1>5, <1>6, JobHandlerStep, JobRunStep, JobAnswer
     DEF Next, Rest, People

LEMMA InitJob == Init => InOrder /\ Life!JobInit
<1> SUFFICES ASSUME Init PROVE InOrder /\ Life!JobInit
  OBVIOUS
<1>1. /\ prs = [t \in Task |-> 0] /\ merged = {}
      /\ \A t \in Task : /\ task[t] = "none" /\ pr[t].st = "open" /\ prs[t] = 0
                         /\ ~past[t].green /\ ~past[t].skipped
                         /\ ~past[t].approved /\ ~past[t].human
                         /\ ~past[t].ungated /\ ~past[t].unsaved
                         /\ ~past[t].overruled
  BY DEF Init, NewPr
<1>2. InOrder
  BY <1>1 DEF InOrder, Reasons
<1>3. \A t \in Task : PhaseOf(t) = "new" /\ ShownOf(t) = "open"
  BY <1>1 DEF PhaseOf, ShownOf, Cleared, Reviewed, Tested, Ran
<1>4. {t \in Task : pr[t].st = "merged"} = {} /\ {t \in Task : past[t].overruled} = {}
  BY <1>1
<1> QED
  BY <1>1, <1>2, <1>3, <1>4 DEF Life!JobInit

\* advancePipeline, reconcileTask and the answers of humans, statement by
\* statement and whatever cuts, repeats or fails them, take every task through the
\* phases of TaskLife: none is skipped, no second pull request is inserted, only a
\* human who approves before the review merges past them, and a status or a
\* recorded merge is true when it is written.
THEOREM PipelineImplementsTaskLife == Spec => ImplementsTaskLife
<1>1. Init => TypeOK /\ Due /\ Ahead /\ InOrder
  BY InitType, InitDue, InitAhead, InitJob
<1>2. TypeOK /\ Due /\ Ahead /\ InOrder /\ [Next]_vars
        => (TypeOK /\ Due /\ Ahead /\ InOrder)'
  BY TypeStep, DueStep, AheadStep, JobStep DEF JobDone
<1>3. TypeOK /\ Due /\ Ahead /\ InOrder /\ [Next]_vars
        => [Life!JobNext]_(Life!jobVars)
  BY JobStep DEF JobDone
<1> QED
  BY <1>1, <1>2, <1>3, InitJob, PTL DEF Spec, ImplementsTaskLife, Life!JobSpec
=============================================================================
