------------------------------ MODULE Pipeline ------------------------------
(***************************************************************************)
(* The task pipeline plan -> exec -> test -> review -> merge of one org:    *)
(* the stream handlers of the cerebro (advancePipeline, reconcileTask), the *)
(* REST handlers that create and answer, the executor's message loop, and   *)
(* the two queues between them.                                             *)
(*                                                                          *)
(* A handler is one action per SQL statement or push: between two of them   *)
(* other handlers run, and the cancellation of its context drops the rest.  *)
(***************************************************************************)
EXTENDS Integers, Sequences, FiniteSets

CONSTANTS
  Task,        \* bound: tasks created
  CodeTask,    \* the tasks with a repository that has a clone_url
  Executor,    \* executors (devices) of the org
  Sess,        \* bound: streams the cerebro has not let go of at a time
  MaxDrops,    \* bound: disconnections
  Cfgs,        \* bound: the configurations the org moves between
  Cuts,        \* may a context be cancelled in the middle of a handler?
  AnyTask,     \* may an answer name a task that does not wait for one?
  MaxAnswers,  \* bound: answers of humans
  MaxFaults    \* bound: crashes of the cerebro and failed statements

\* What mergeGate returns, and run_tests of the repo's pinned worker.
Cfg == [gate : BOOLEAN, tests : BOOLEAN]

ASSUME PipeAssumption ==
  /\ CodeTask \subseteq Task
  /\ Task # {} /\ IsFiniteSet(Task)
  /\ Task \cap {"planning", "running"} = {}
  /\ Executor # {}
  /\ MaxDrops \in Nat /\ MaxAnswers \in Nat /\ MaxFaults \in Nat
  /\ Cfgs \subseteq Cfg /\ Cfgs # {}
  /\ Cuts \in BOOLEAN /\ AnyTask \in BOOLEAN

NoSess == "nosess"

ASSUME SessAssumption == NoSess \notin Sess

VARIABLES
  task,     \* task.status
  prs,      \* rows of pull_request for the task
  pr,       \* the latest of them
  cfg,      \* pool_config and the pinned worker of the repos
  hub,      \* Hub.byOrg: the stream registered for the org
  conn,     \* what the cerebro and the executor know of a stream
  owner,    \* the executor that opened it
  down,     \* cerebro to executor: the out channel and the wire
  up,       \* executor to cerebro
  hnd,      \* where the stream's handler stands
  rest,     \* the push a REST handler still has to make for the task
  answers,  \* answers given
  local,    \* the executor's workdir of a task
  merged,   \* tasks whose branch is merged and pushed to the base branch
  past,     \* for the properties: what was ever decided about the task
  drops, crashes,
  errs      \* steps in which a statement failed

rows == <<task, prs, pr>>
pipes == <<hub, conn, owner, down, up>>
faults == <<drops, crashes, errs>>
outside == <<local, merged>>
vars == <<rows, cfg, pipes, hnd, rest, answers, outside, past, faults>>

Terminal == {"merged", "failed"}

Status == {"none", "queued", "planning", "in_review", "running", "blocked"}
            \cup Terminal

Verdict == {"none", "approved", "changes"}

PrRow == [ci : {"none", "passed", "failed"}, ai : Verdict, hu : Verdict,
          st : {"open", "merged"}]

NewPr == [ci |-> "none", ai |-> "none", hu |-> "none", st |-> "open"]

\* Step kinds; "plan" is REQUEST_PLAN, the others DISPATCH_STEP.
Kind == {"plan", "exec", "test", "review", "merge"}

Command == [k : Kind, t : Task]

\* STEP_COMPLETED and PLAN_RESULT by kind, with the verdict of test and review;
\* STEP_FAILED; TASK_STATE_SNAPSHOT.
Event == [k : Kind \cup {"fail", "snapshot"}, t : Task, ok : BOOLEAN]

\* The first statement of a handler is named after its event.
HndPc == Kind \cup {"fail", "snapshot", "idle", "dispatchExec", "prSaved",
                    "afterExec", "afterTest", "afterReview", "gate", "regate",
                    "block", "prMerged", "sendTest", "sendReview", "sendMerge"}

\* What ever happened to a task, whether or not it could be saved: its exec could
\* not; the tests were green, or are switched off; the AI review approved; a human
\* approved the reviewed task, or mergeGate asked for none; a human approved it
\* before it was reviewed.
Past == [unsaved : BOOLEAN, green : BOOLEAN, skipped : BOOLEAN,
         approved : BOOLEAN, human : BOOLEAN, ungated : BOOLEAN,
         overruled : BOOLEAN]

TypeOK ==
  /\ task \in [Task -> Status]
  /\ prs \in [Task -> Nat]
  /\ pr \in [Task -> PrRow]
  /\ cfg \in Cfgs
  /\ hub \in Sess \cup {NoSess}
  /\ conn \in [Sess -> {"closed", "open", "dead"}]
  /\ owner \in [Sess -> Executor]
  /\ down \in [Sess -> Seq(Command)]
  /\ up \in [Sess -> Seq(Event)]
  /\ hnd \in [Sess -> [pc : HndPc, t : Task, ok : BOOLEAN]]
  /\ rest \in [Task -> {"none", "plan", "merge"}]
  /\ answers \in 0..MaxAnswers
  /\ local \in [Executor -> [Task -> {"none", "dir", "repo"}]]
  /\ merged \in SUBSET Task
  /\ past \in [Task -> Past]
  /\ drops \in 0..MaxDrops
  /\ crashes \in Nat /\ errs \in Nat /\ crashes + errs <= MaxFaults

\* What was decided about a task; none of it is ever taken back.  A verdict counts
\* only once the ones before it are there, so one given too early shows as a
\* phase that is skipped.
Ran(t) == prs[t] > 0 \/ past[t].unsaved
Tested(t) == Ran(t) /\ (past[t].green \/ past[t].skipped)
Reviewed(t) == Tested(t) /\ past[t].approved
Cleared(t) == Reviewed(t) /\ (past[t].human \/ past[t].ungated)

-----------------------------------------------------------------------------
(* Pushes and statements shared by the handlers. *)

\* Hub.Send, whose result dispatchStep and dispatchMerge ignore: without a
\* registered stream the command is lost.
HubSend(k, t) ==
  down' = IF hub = NoSess THEN down
          ELSE [down EXCEPT ![hub] = Append(@, [k |-> k, t |-> t])]

\* dispatchStep: nothing is sent for a task without a clone_url.
DispatchStep(k, t) ==
  IF t \in CodeTask THEN HubSend(k, t) ELSE UNCHANGED down

SetStatus(t, st) == task' = [task EXCEPT ![t] = st]

\* Variant: the id lands in the status column of the task itself.
SetTaskStatusToId(id, st) == [task EXCEPT ![id] = id]

\* UPDATE task SET status=$2 WHERE id=$1, called with (status, taskID): it
\* looks for a task whose id is the status.
SetTaskStatus(id, st) ==
  [t \in Task |-> IF t = st THEN id ELSE task[t]]

\* prIDByTask finds no row before SaveExecResult, and then nothing is updated.
SetPr(t, new) == pr' = IF prs[t] = 0 THEN pr ELSE [pr EXCEPT ![t] = new]

Goto(s, p) == hnd' = [hnd EXCEPT ![s] = [@ EXCEPT !.pc = p]]

NoHandler(t) == [pc |-> "idle", t |-> t, ok |-> FALSE]

Remember(t, flag) == past' = [past EXCEPT ![t] = [@ EXCEPT ![flag] = TRUE]]

\* A statement of this step fails.
Fails == crashes + errs < MaxFaults /\ errs' = errs + 1

At(s, p) == conn[s] \in {"open", "dead"} /\ hnd[s].pc = p

\* The cerebro process ends: every stream and every handler goes with it.
ProcessDies ==
  /\ hub' = NoSess
  /\ conn' = [s \in Sess |-> "closed"]
  /\ hnd' = [s \in Sess |-> [hnd[s] EXCEPT !.pc = "idle"]]
  /\ rest' = [t \in Task |-> "none"]
  /\ down' = [s \in Sess |-> <<>>]
  /\ up' = [s \in Sess |-> <<>>]

-----------------------------------------------------------------------------
(* Streams. *)

\* The snapshots come in the order read_dir gives.
Orders(S) ==
  {q \in [1..Cardinality(S) -> S] :
     \A i, j \in 1..Cardinality(S) : q[i] = q[j] => i = j}

\* The executor starts, opens its stream (Hub.register closes the channel of
\* the stream before it) and reports every task it has a workdir of.
Connect(e) ==
  /\ \A s \in Sess : ~(conn[s] = "open" /\ owner[s] = e)
  /\ \E s \in Sess :
       /\ conn[s] = "closed"
       /\ hub' = s
       /\ conn' = [conn EXCEPT ![s] = "open"]
       /\ owner' = [owner EXCEPT ![s] = e]
       /\ \E q \in Orders({t \in Task : local[e][t] # "none"}) :
            up' = [up EXCEPT ![s] =
                     [i \in DOMAIN q |->
                        [k |-> "snapshot", t |-> q[i], ok |-> TRUE]]]
  /\ UNCHANGED <<rows, cfg, down, hnd, rest, answers, outside, past, faults>>

\* The network or the executor process goes away; the cerebro does not know
\* yet.
Disconnect(s) ==
  /\ conn[s] = "open" /\ drops < MaxDrops
  /\ drops' = drops + 1
  /\ conn' = [conn EXCEPT ![s] = "dead"]
  /\ down' = [down EXCEPT ![s] = <<>>]
  /\ UNCHANGED <<rows, cfg, hub, owner, up, hnd, rest, answers, outside, past,
                 crashes, errs>>

\* Recv fails, unread events are gone, the context is cancelled (with Cuts
\* also under a running handler), and Hub.unregister runs.
StreamEnds(s) ==
  /\ conn[s] = "dead"
  /\ Cuts \/ hnd[s].pc = "idle"
  /\ conn' = [conn EXCEPT ![s] = "closed"]
  /\ up' = [up EXCEPT ![s] = <<>>]
  /\ down' = [down EXCEPT ![s] = <<>>]
  /\ hnd' = [hnd EXCEPT ![s] = [@ EXCEPT !.pc = "idle"]]
  /\ hub' = IF hub = s THEN NoSess ELSE hub
  /\ UNCHANGED <<rows, cfg, owner, rest, answers, outside, past, faults>>

Recv(s) ==
  /\ At(s, "idle") /\ up[s] # <<>>
  /\ hnd' = [hnd EXCEPT ![s] = [pc |-> Head(up[s]).k, t |-> Head(up[s]).t,
                                ok |-> Head(up[s]).ok]]
  /\ up' = [up EXCEPT ![s] = Tail(@)]
  /\ UNCHANGED <<rows, cfg, hub, conn, owner, down, rest, answers, outside, past,
                 faults>>

steady == <<cfg, hub, conn, owner, up, rest, answers, outside, drops, crashes>>
quiet == <<steady, errs>>

-----------------------------------------------------------------------------
(* PLAN_RESULT. *)

SavePlan(s) ==
  /\ At(s, "plan")
  /\ SetStatus(hnd[s].t, "in_review")
  /\ Goto(s, IF hnd[s].t \in CodeTask THEN "dispatchExec" ELSE "idle")
  /\ UNCHANGED <<quiet, prs, pr, down, past>>

\* The exec goes straight into the handler's own channel, which a newer stream
\* of the org has closed: then the send panics and takes the cerebro down.
DispatchExec(s) ==
  /\ At(s, "dispatchExec")
  /\ IF hub = s
     THEN /\ down' = [down EXCEPT ![s] =
                        Append(@, [k |-> "exec", t |-> hnd[s].t])]
          /\ task' = SetTaskStatus(hnd[s].t, "running")
          /\ Goto(s, "idle")
          /\ UNCHANGED <<hub, conn, up, rest>>
     ELSE ProcessDies /\ UNCHANGED task
  /\ UNCHANGED <<cfg, owner, answers, outside, faults, prs, pr, past>>

-----------------------------------------------------------------------------
(* STEP_COMPLETED: advancePipeline.  STEP_FAILED. *)

\* SaveExecResult inserts the pull_request, then moves the task.
InsertPr(s) ==
  /\ At(s, "exec")
  /\ prs' = [prs EXCEPT ![hnd[s].t] = @ + 1]
  /\ pr' = [pr EXCEPT ![hnd[s].t] = NewPr]
  /\ Goto(s, "prSaved")
  /\ UNCHANGED <<quiet, task, down, past>>

ExecSaved(s) ==
  /\ At(s, "prSaved")
  /\ SetStatus(hnd[s].t, "in_review")
  /\ Goto(s, "afterExec")
  /\ UNCHANGED <<quiet, prs, pr, down, past>>

AfterExec(s) ==
  /\ At(s, "afterExec")
  /\ IF cfg.tests
     THEN DispatchStep("test", hnd[s].t) /\ UNCHANGED past
     ELSE DispatchStep("review", hnd[s].t) /\ Remember(hnd[s].t, "skipped")
  /\ Goto(s, "idle")
  /\ UNCHANGED <<quiet, rows>>

\* The worker of the repo cannot be read, and the tests are not skipped.
AfterExecMisread(s) ==
  /\ At(s, "afterExec")
  /\ Fails
  /\ DispatchStep("test", hnd[s].t)
  /\ Goto(s, "idle")
  /\ UNCHANGED <<steady, rows, past>>

SetCIResult(s) ==
  /\ At(s, "test")
  /\ SetPr(hnd[s].t, [pr[hnd[s].t] EXCEPT
                        !.ci = IF hnd[s].ok THEN "passed" ELSE "failed"])
  /\ Goto(s, "afterTest")
  /\ IF hnd[s].ok THEN Remember(hnd[s].t, "green") ELSE UNCHANGED past
  /\ UNCHANGED <<quiet, task, prs, down>>

AfterTest(s) ==
  /\ At(s, "afterTest")
  /\ IF hnd[s].ok
     THEN DispatchStep("review", hnd[s].t) /\ UNCHANGED task
     ELSE SetStatus(hnd[s].t, "failed") /\ UNCHANGED down
  /\ Goto(s, "idle")
  /\ UNCHANGED <<quiet, prs, pr, past>>

SetAIReview(s) ==
  /\ At(s, "review")
  /\ SetPr(hnd[s].t, [pr[hnd[s].t] EXCEPT
                        !.ai = IF hnd[s].ok THEN "approved" ELSE "changes"])
  /\ Goto(s, "afterReview")
  /\ IF hnd[s].ok THEN Remember(hnd[s].t, "approved") ELSE UNCHANGED past
  /\ UNCHANGED <<quiet, task, prs, down>>

\* Variant: a missing return after a review that asks for changes.
AfterReviewFallsThrough(s) ==
  /\ At(s, "afterReview")
  /\ Goto(s, "gate")
  /\ UNCHANGED <<quiet, rows, down, past>>

AfterReview(s) ==
  /\ At(s, "afterReview")
  /\ IF hnd[s].ok
     THEN Goto(s, "gate") /\ UNCHANGED task
     ELSE SetStatus(hnd[s].t, "failed") /\ Goto(s, "idle")
  /\ UNCHANGED <<quiet, prs, pr, down, past>>

HumanApproved(t) == prs[t] > 0 /\ pr[t].hu = "approved"

\* Variant: the gate is evaluated the wrong way round.
GateInverted(s) ==
  /\ At(s, "gate") \/ At(s, "regate")
  /\ LET t == hnd[s].t
     IN  IF cfg.gate
         THEN Goto(s, "sendMerge") /\ UNCHANGED past
         ELSE Goto(s, "block") /\ Remember(t, "ungated")
  /\ UNCHANGED <<quiet, rows, down>>

\* mergeGate, and the human verdict: read now after a review, taken from the
\* snapshot of GetTaskPipelineState in a reconciliation.
Gate(s) ==
  /\ At(s, "gate") \/ At(s, "regate")
  /\ LET t == hnd[s].t
         ok == IF hnd[s].pc = "gate" THEN HumanApproved(t) ELSE hnd[s].ok
     IN  /\ Goto(s, IF cfg.gate /\ ~ok THEN "block" ELSE "sendMerge")
         /\ IF cfg.gate THEN UNCHANGED past ELSE Remember(t, "ungated")
  /\ UNCHANGED <<quiet, rows, down>>

\* A query of mergeGate fails and counts as one that found nothing: the repo then
\* has no worker, the pool does not merge by itself, the task is of another org;
\* so the answer can be either.  An unread human verdict is none.
GateMisread(s) ==
  /\ At(s, "gate") \/ At(s, "regate")
  /\ Fails
  /\ \/ Goto(s, "block") /\ UNCHANGED past
     \/ Goto(s, "sendMerge") /\ Remember(hnd[s].t, "ungated")
  /\ UNCHANGED <<steady, rows, down>>

SetTaskBlocked(s) ==
  /\ At(s, "block")
  /\ SetStatus(hnd[s].t, "blocked")
  /\ Goto(s, "idle")
  /\ UNCHANGED <<quiet, prs, pr, down, past>>

\* MarkMerged: the pull_request, then the task.
MarkPrMerged(s) ==
  /\ At(s, "merge")
  /\ SetPr(hnd[s].t, [pr[hnd[s].t] EXCEPT !.st = "merged"])
  /\ Goto(s, "prMerged")
  /\ UNCHANGED <<quiet, task, prs, down, past>>

MarkTaskMerged(s) ==
  /\ At(s, "prMerged")
  /\ SetStatus(hnd[s].t, "merged")
  /\ Goto(s, "idle")
  /\ UNCHANGED <<quiet, prs, pr, down, past>>

FailTask(s) ==
  /\ At(s, "fail")
  /\ SetStatus(hnd[s].t, "failed")
  /\ Goto(s, "idle")
  /\ UNCHANGED <<quiet, prs, pr, down, past>>

-----------------------------------------------------------------------------
(* TASK_STATE_SNAPSHOT: reconcileTask. *)

\* Variant: before the PR exists, the exec is simply dispatched again.
ReconcileNextReexec(t) ==
  IF task[t] \in Terminal THEN "idle"
  ELSE IF prs[t] = 0 THEN "dispatchExec"
  ELSE IF pr[t].ci = "none" THEN "sendTest" ELSE "idle"

\* Variant: no reconciliation of a merge that was lost.
ReconcileNextNoMerge(t) ==
  IF task[t] \in Terminal \/ prs[t] = 0 THEN "idle"
  ELSE IF pr[t].ci = "none" THEN "sendTest"
  ELSE IF pr[t].ci = "passed" /\ pr[t].ai = "none" THEN "sendReview" ELSE "idle"

\* The next step of a task that is not terminal and has a PR.
ReconcileNext(t) ==
  IF task[t] \in Terminal \/ prs[t] = 0 THEN "idle"
  ELSE IF pr[t].ci = "none" THEN "sendTest"
  ELSE IF pr[t].ci = "passed" /\ pr[t].ai = "none" THEN "sendReview"
  ELSE IF pr[t].ai = "approved" THEN "regate"
  ELSE "idle"

\* GetTaskPipelineState reads all of it in one statement.
Reconcile(s) ==
  /\ At(s, "snapshot")
  /\ LET t == hnd[s].t
     IN  hnd' = [hnd EXCEPT ![s] = [pc |-> ReconcileNext(t), t |-> t,
                                    ok |-> pr[t].hu = "approved"]]
  /\ UNCHANGED <<quiet, rows, down, past>>

\* Variant: the task counts as merged as soon as the merge is dispatched.
SendStepMarksMerged(s) ==
  /\ At(s, "sendMerge")
  /\ DispatchStep("merge", hnd[s].t)
  /\ SetStatus(hnd[s].t, "merged")
  /\ Goto(s, "idle")
  /\ UNCHANGED <<quiet, prs, pr, past>>

\* The dispatchStep that ends a reconciliation or a passed gate.
SendStep(s) ==
  /\ \E p \in {<<"sendTest", "test">>, <<"sendReview", "review">>,
               <<"sendMerge", "merge">>} :
       At(s, p[1]) /\ DispatchStep(p[2], hnd[s].t)
  /\ Goto(s, "idle")
  /\ UNCHANGED <<quiet, rows, past>>

\* Where a handler goes on when its statement fails.  Results that cannot be saved
\* are acted upon all the same; elsewhere nothing more is done.
AfterFailure(p) ==
  CASE p \in {"exec", "prSaved"} -> "afterExec"
    [] p = "test"                 -> "afterTest"
    [] p = "review"               -> "afterReview"
    [] p = "merge"                -> "prMerged"
    [] OTHER                      -> "idle"

\* Every handler drops the errors of its statements (SavePlan's excepted, which
\* ends it); dispatchStep sends nothing for a task it cannot look up.  A passed
\* review issues no statement before the gate.
StatementFails(s) ==
  /\ ~At(s, "idle") /\ ~At(s, "gate") /\ ~At(s, "regate")
  /\ conn[s] # "closed" /\ ~(At(s, "afterReview") /\ hnd[s].ok)
  /\ Fails
  /\ LET p == hnd[s].pc
         t == hnd[s].t
     IN  /\ Goto(s, AfterFailure(p))
         /\ CASE p = "exec"                  -> Remember(t, "unsaved")
              [] p = "test" /\ hnd[s].ok     -> Remember(t, "green")
              [] p = "review" /\ hnd[s].ok   -> Remember(t, "approved")
              [] OTHER                       -> UNCHANGED past
  /\ UNCHANGED <<steady, rows, down>>

-----------------------------------------------------------------------------
(* REST: createAndPlan (fireRoutine does the same) and interventionAnswer. *)

CreateTask(t) ==
  /\ task[t] = "none"
  /\ SetStatus(t, "queued")
  /\ rest' = [rest EXCEPT ![t] = "plan"]
  /\ UNCHANGED <<prs, pr, cfg, pipes, hnd, answers, outside, past, faults>>

SendPlan(t) ==
  /\ rest[t] = "plan"
  /\ HubSend("plan", t)
  /\ task' = IF hub # NoSess THEN SetTaskStatus(t, "planning") ELSE task
  /\ rest' = [rest EXCEPT ![t] = "none"]
  /\ UNCHANGED <<prs, pr, cfg, hub, conn, owner, up, hnd, answers, outside, past,
                 faults>>

\* POST /v1/interventions/{id}/answer names any task of the org; whether it waits
\* for a human is not asked.  Bound: one request under way for a task.
Answerable(t) ==
  /\ task[t] # "none" /\ answers < MaxAnswers /\ rest[t] = "none"
  /\ AnyTask \/ task[t] = "blocked"

\* ApproveHumanReview is one transaction; it looks at no status.
Approve(t) ==
  /\ Answerable(t)
  /\ answers' = answers + 1
  /\ SetPr(t, [pr[t] EXCEPT !.hu = "approved"])
  /\ SetStatus(t, "running")
  /\ rest' = [rest EXCEPT ![t] = "merge"]
  /\ Remember(t, IF Reviewed(t) THEN "human" ELSE "overruled")
  /\ UNCHANGED <<prs, cfg, pipes, hnd, outside, faults>>

\* dispatchMerge.
SendMerge(t) ==
  /\ rest[t] = "merge"
  /\ DispatchStep("merge", t)
  /\ rest' = [rest EXCEPT ![t] = "none"]
  /\ UNCHANGED <<rows, cfg, hub, conn, owner, up, hnd, answers, outside, past,
                 faults>>

\* The task cannot be looked up: approved, and nothing is sent.
SendMergeFails(t) ==
  /\ rest[t] = "merge"
  /\ Fails
  /\ rest' = [rest EXCEPT ![t] = "none"]
  /\ UNCHANGED <<rows, cfg, pipes, hnd, answers, outside, past, drops, crashes>>

Reject(t) ==
  /\ Answerable(t)
  /\ answers' = answers + 1
  /\ SetPr(t, [pr[t] EXCEPT !.hu = "changes"])
  /\ SetStatus(t, "failed")
  /\ UNCHANGED <<prs, cfg, pipes, hnd, rest, outside, past, faults>>

\* The HTTP client goes away: r.Context() is cancelled before the push.
RequestCut(t) ==
  /\ Cuts /\ rest[t] = "merge"
  /\ rest' = [rest EXCEPT ![t] = "none"]
  /\ UNCHANGED <<rows, cfg, pipes, hnd, answers, outside, past, faults>>

\* Pool configuration, pinned workers.
Reconfigure ==
  /\ \E c \in Cfgs \ {cfg} : cfg' = c
  /\ UNCHANGED <<rows, pipes, hnd, rest, answers, outside, past, faults>>

Crash ==
  /\ crashes + errs < MaxFaults
  /\ crashes' = crashes + 1
  /\ ProcessDies
  /\ UNCHANGED <<rows, cfg, owner, answers, outside, past, drops, errs>>

-----------------------------------------------------------------------------
(* The executor's loop: one command at a time, its result reported once. *)

\* What a step can report, given the workdir.  Planning falls back to a stub
\* and never fails; a step without its clone fails.
Outcomes(m, dir) ==
  LET fail == [k |-> "fail", t |-> m.t, ok |-> FALSE]
      done(b) == [k |-> m.k, t |-> m.t, ok |-> b]
  IN  IF m.k = "plan" THEN {done(TRUE)}
      ELSE IF m.k = "exec" THEN {done(TRUE), fail}
      ELSE IF dir # "repo" THEN {fail}
      ELSE IF m.k = "merge" THEN {done(TRUE), fail}
      ELSE {done(TRUE), done(FALSE), fail}

\* exec clones into a fresh workdir; a failed one may leave no clone.
DirsAfter(r, m, dir) ==
  IF m.k # "exec" THEN {dir}
  ELSE IF r.k = "exec" THEN {"repo"} ELSE {"dir", "repo"}

RunStep(s) ==
  /\ conn[s] = "open" /\ down[s] # <<>>
  /\ LET m == Head(down[s])
         e == owner[s]
     IN  \E r \in Outcomes(m, local[e][m.t]) :
           /\ \E d \in DirsAfter(r, m, local[e][m.t]) :
                local' = [local EXCEPT ![e] = [@ EXCEPT ![m.t] = d]]
           /\ merged' = IF r.k = "merge" THEN merged \cup {m.t} ELSE merged
           /\ up' = [up EXCEPT ![s] = Append(@, r)]
  /\ down' = [down EXCEPT ![s] = Tail(@)]
  /\ UNCHANGED <<rows, cfg, hub, conn, owner, hnd, rest, answers, past, faults>>

-----------------------------------------------------------------------------
Handler(s) ==
  \/ Recv(s) \/ SavePlan(s) \/ DispatchExec(s)
  \/ InsertPr(s) \/ ExecSaved(s) \/ AfterExec(s) \/ AfterExecMisread(s)
  \/ SetCIResult(s) \/ AfterTest(s)
  \/ SetAIReview(s) \/ AfterReview(s)
  \/ Gate(s) \/ GateMisread(s) \/ SetTaskBlocked(s)
  \/ MarkPrMerged(s) \/ MarkTaskMerged(s) \/ FailTask(s)
  \/ Reconcile(s) \/ SendStep(s) \/ StatementFails(s)

Rest(t) == SendPlan(t) \/ SendMerge(t) \/ SendMergeFails(t)

People ==
  \/ \E t \in Task : CreateTask(t) \/ Approve(t) \/ Reject(t) \/ RequestCut(t)
  \/ Reconfigure

Next ==
  \/ \E s \in Sess : Handler(s) \/ RunStep(s) \/ Disconnect(s) \/ StreamEnds(s)
  \/ \E e \in Executor : Connect(e)
  \/ \E t \in Task : Rest(t)
  \/ People
  \/ Crash

Init ==
  /\ task = [t \in Task |-> "none"]
  /\ prs = [t \in Task |-> 0]
  /\ pr = [t \in Task |-> NewPr]
  /\ cfg \in Cfgs
  /\ hub = NoSess
  /\ conn = [s \in Sess |-> "closed"]
  /\ owner = [s \in Sess |-> CHOOSE e \in Executor : TRUE]
  /\ down = [s \in Sess |-> <<>>]
  /\ up = [s \in Sess |-> <<>>]
  /\ hnd \in [Sess -> {NoHandler(t) : t \in {CHOOSE t \in Task : TRUE}}]
  /\ rest = [t \in Task |-> "none"]
  /\ answers = 0
  /\ local = [e \in Executor |-> [t \in Task |-> "none"]]
  /\ merged = {}
  /\ past = [t \in Task |-> [unsaved |-> FALSE, green |-> FALSE,
                             skipped |-> FALSE, approved |-> FALSE,
                             human |-> FALSE, ungated |-> FALSE,
                             overruled |-> FALSE]]
  /\ drops = 0 /\ crashes = 0 /\ errs = 0

\* Goroutines of the cerebro and the executor's loop keep running, a dead
\* connection is noticed, and an executor that lost its stream is started
\* again.  People owe nothing.
Fairness ==
  /\ \A s \in Sess : WF_vars(Handler(s)) /\ WF_vars(RunStep(s))
                     /\ WF_vars(StreamEnds(s))
  /\ \A e \in Executor : WF_vars(Connect(e))
  /\ \A t \in Task : WF_vars(Rest(t))

Spec == Init /\ [][Next]_vars /\ Fairness
-----------------------------------------------------------------------------
(* Correctness properties. *)

\* The gates: nothing is merged into the base branch that was not approved by
\* the AI review, after a green test run or with the tests switched off, and by
\* a human unless mergeGate once asked for none; whatever was lost, repeated by a
\* reconciliation, answered late, interrupted or not saved.  Only an answer to a
\* task that was not reviewed yet merges past the gates.
GatedMerge ==
  \A t \in merged :
    \/ past[t].overruled
    \/ /\ past[t].approved
       /\ past[t].green \/ past[t].skipped
       /\ past[t].human \/ past[t].ungated

\* A task, and its PR, is recorded as merged only once the branch really is in
\* the base branch.
MergedIsReal ==
  \A t \in Task : task[t] = "merged" \/ pr[t].st = "merged" => t \in merged

\* A task has one pull_request at most, so the latest one that the handlers
\* look up is the one they mean.
OnePr == \A t \in Task : prs[t] <= 1

\* A task that waits for a human was approved by the AI review at least once, and
\* has a PR to look at, unless the error of SaveExecResult was dropped.
BlockedHasPr ==
  \A t \in Task : task[t] = "blocked" =>
    past[t].approved /\ (prs[t] = 1 \/ past[t].unsaved)

\* Once a task has its PR it does not get stuck: again and again it is merged,
\* failed or waiting for a human, because what a disconnection loses the next
\* reconnection resumes.
PrProgress ==
  \A t \in CodeTask :
    (prs[t] > 0) ~> (task[t] \in Terminal \cup {"blocked"})
-----------------------------------------------------------------------------
(* What the pipeline promises of a task, as TaskLife states it. *)

PhaseOf(t) ==
  IF Cleared(t) THEN "cleared"
  ELSE IF Reviewed(t) THEN "reviewed"
  ELSE IF Tested(t) THEN "tested"
  ELSE IF Ran(t) THEN "executed" ELSE "new"

ShownOf(t) == IF task[t] = "blocked" THEN "waiting"
              ELSE IF task[t] = "merged" THEN "merged" ELSE "open"

Life == INSTANCE TaskLife WITH
  Job       <- Task,
  phase     <- [t \in Task |-> PhaseOf(t)],
  pulls     <- prs,
  overruled <- {t \in Task : past[t].overruled},
  done      <- merged,
  shown     <- [t \in Task |-> ShownOf(t)],
  recorded  <- {t \in Task : pr[t].st = "merged"}

\* Whatever is lost, repeated, late, interrupted or not saved, a task goes through
\* the phases of TaskLife one at a time, with one pull request at most, is merged
\* when the last of them is reached or a human overruled them, and is shown as
\* waiting or merged only where that is true.
ImplementsTaskLife == Life!JobSpec
=============================================================================
