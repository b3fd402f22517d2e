# Verification of apifor.dev

TLA+ models of apifor.dev: the cérebro (a Go server with a PostgreSQL
database), the executors (a Rust daemon on a user's machine) that it drives
over a bidirectional gRPC stream, and the dashboard (React pages that poll the
cérebro over REST). TLC checks the models on small instances; TLAPS proves the
safety properties of the lease manager, the task pipeline, billing, the GitHub
login flow, the dashboard and the smaller services for every value of their
constants.

Paths below are relative to `src/`; `cerebro/` stands for
`app/cerebro/internal/`, `executor/` for `app/executor/src/` and `dashboard/`
for `app/dashboard/app/`.

## The system

| Part | Code | State | Operations |
|---|---|---|---|
| Lease manager | `cerebro/grpcsrv/reaper.go`, `cerebro/db/db.go` | `worker_instance`, `lease`, `worker_hours_counter`, `usage_event`, `org.plan`, `pool_config` | `tryGrant` per LEASE_REQUEST; `reapOnce`/`revoke` on a ticker; revoking a device; plan and pool changes |
| Task pipeline | `cerebro/grpcsrv/server.go`, `cerebro/httpapi/api.go`, `cerebro/db/db.go` | `task`, `pull_request` | create and plan, `advancePipeline` per STEP_COMPLETED, STEP_FAILED, `reconcileTask` per TASK_STATE_SNAPSHOT, approve/reject |
| Executor loop | `executor/main.rs`, `executor/exec.rs` | workdirs of tasks, the remote repository | connect and report workdirs; run plan, exec, test, review, merge |
| Push hub | `cerebro/grpcsrv/hub.go` | one channel of 16 per org | register, unregister, Send |
| Billing | `cerebro/httpapi/api.go`, `cerebro/billing/stripe.go`, `cerebro/grpcsrv/reaper.go` | `org.plan`, `subscription`, `invoice` | webhook events, dunning, plan changes by user and staff |
| Routine scheduler | `cerebro/grpcsrv/scheduler.go`, `cerebro/httpapi/api.go` | `routine` | read the due ones, fire, mark as run; create, enable, delete, run now |
| Rate limiter | `cerebro/httpapi/middleware.go` | a window per org, a cached limit | allow or 429 |
| GitHub login | `dashboard/config/page.tsx`, `cerebro/httpapi/api.go` | the page's dialog and interval, `ghStates`, `ghFlows`, `connection` | start (web or device), poll the status, callback, store |
| Subscription login | `app/auth-sidecar/server.py` | a terminal session | start, send the code, finish |
| Vault | `executor/vault.rs`, `executor/ipc.rs` | the encrypted secrets file, `secret_ref` | set, delete |
| Session and gates | `dashboard/ui.tsx`, `dashboard/login`, `dashboard/superadmin/shell.tsx`, `cerebro/auth` | a token in localStorage, what each tab shows | sign in and out, ask `/v1/me`, expire, 401 |
| Connections tab | `dashboard/config/page.tsx`, `cerebro/httpapi/api.go` | `connection`, four dialogs | test, connect, reuse, disconnect |
| Repositories tab | the same | `repository`, three dialogs | add in three steps, edit, remove |
| Workers tab | the same | `pool_config`, `pinned_worker`, copies of both on the page | change a setting, create, edit, switch, remove pinned workers |
| List pages | `dashboard/*/page.tsx`, `usePoll` in `ui.tsx` | the rows read, filter, page number, dialog | poll, filter, turn pages, submit, act on a row |
| Roles, tenancy, identity | `cerebro/httpapi/api.go`, `contracts/sql/002_rls.sql`, `cerebro/pki/pki.go` | memberships, policies, certificates | checks per request |
| Reads, memory, docs, notifications | `cerebro/httpapi/api.go` | rows of their own | single statements |
| Menus, account, help, public pages, desktop, deployment | `dashboard/ui.tsx`, `paginas`, `app/desktop`, `app/deploy` | local, or none | |

How they interact: an executor opens one stream; the handler goroutine of that
stream calls `tryGrant` and the pipeline; REST handlers run in goroutines of
their own and push to the executor through the hub; the reaper (leases and
dunning) and the scheduler are two more goroutines. They share nothing but the
tables and the hub, and hardly any operation is a transaction: most are two to
five statements, each committed by itself. The context of a stream handler is
cancelled when its executor goes away, so a handler may end between any two
statements. A page of the dashboard shares nothing with another page but the
token and what both read from the cérebro. It reads by polling, every few
seconds and without waiting for the last answer, works on the copy a poll
brought, and applies the answer of a request to whatever it shows by then.

What is hard here, then, is what two sequences of statements do to each other,
what a sequence leaves behind when it is broken off, what is never taken up
again, and what a late or lost answer does to a page that moved on.
`PROJECT.json` lists these hazards with the line where each bites.

What makes each part correct:

- leases: a lease that has not ended has a running worker; each grant is issued
  and closed once in the ledger; an org exceeds its worker limit only by what
  its parallel streams and failed statements explain; expiry, kill-switch and
  weekly hours end leases;
- pipeline: nothing is merged that a gate should have stopped, unless a human
  approved it ahead of the gates; what is recorded as merged is merged; a task
  with a pull request does not get stuck;
- billing: no org loses its plan without a cause; the plan of an org and that
  of its subscription agree, or do again after the next writer; debts are
  resolved one way or the other;
- hub: no channel is closed twice, and a handler whose executor is gone ends;
- scheduler: a routine runs once for each time it comes up;
- limiter: what passes in a minute is bounded, by a limit that was in force
  recently;
- vault: a secret is lost only where two requests overlapped, a save was cut or
  the file could not be read, and is safe again when it is put again;
- GitHub login: one interval per page, a code on the screen is watched until
  its fate is known, an authorisation is stored once and where it was asked for;
- dashboard: the console opens to superadmins only; a session that ended ends
  at the login page; a button that waits has a request behind it; a form is sent
  once; a connection of a code provider has a token that works; what was removed
  does not come back; a list never claims to be empty when it is not, and
  becomes what the server has.

## Modules

| Module | Models |
|---|---|
| `Lease`, `LeaseLife` | the lease manager; what it promises of a grant, which `Lease` implements |
| `Pipeline`, `TaskLife` | tasks, handlers, executors; what the pipeline promises of a task, which `Pipeline` implements |
| `Billing` | webhook, dunning, plan changes |
| `GithubFlow` | page, server and GitHub in one authorisation |
| `UsePoll` | the polling hook; `Connections`, `Repos`, `Pool` and `Console` take an instance per list |
| `Session`, `Connections`, `Repos`, `Pool` | the parts of the dashboard with state of their own |
| `Views`, `Console` | the list pages as records, and the machine they share |
| `Dashboard` | the composition of these parts |
| `Hub`, `Routines`, `RateLimit`, `Vault` | the smaller services |
| `Services` | the composition of these |
| `MCLease`, `MCPipeline`, `MCBilling`, `MCDashboard`, `MCServices` | values of the constants for TLC |
| `LeaseProofs`, `PipelineProofs`, `BillingProofs`, `GithubFlowProofs`, `DashboardProofs`, `ConsoleProofs`, `ServicesProofs` | the proofs |

An action is one SQL statement (or one transaction, one push, one request or
one answer), and the program counter of a handler says which statement is next.
Where one `SELECT` feeds the next `UPDATE` they are two actions if anything can
come between them that matters, and one otherwise. Definitions whose comment
begins with *Variant* or *Mutant* are plausible mistakes in the code; the
mutation entries of `PROJECT.json` put them in place of the definition they
precede, and every property is shown to fail for at least one of them.

### Lease

| State | Code |
|---|---|
| `plan`, `pool` | `org.plan`; `pool_config.behavior` and the summed concurrency of enabled pinned workers |
| `revoked` | `device.revoked_at` |
| `used` | `worker_hours_counter` of this week, in reaper ticks |
| `worker`, `lease`, `ledger` | the `worker_instance`, `lease` and `usage_event` rows of one grant, indexed by a slot |
| `conn`, `grant` | an open stream, its LEASE_REQUESTs, and where its handler stands in `tryGrant` |
| `reaper` | where the reaper stands: the snapshot still to do, the lease at hand, the reason found |
| `errs`, `uncounted`, `torn` | failed statements; history: leases given out on a count that was not read, slots whose `revoke` failed or stopped half-way |

`GrantBegin` (pool switch, plan limits, mode, pinned concurrency), `GrantCount`
(the comparison with `max_workers` and the weekly cap), `InsertWorker`,
`InsertLease` and `RecordIssued` are `tryGrant`. `ReapSnapshot`, `ReapTake`,
`ReapCheck` are `reapOnce`; `EndLease`, `ParkWorker`, `RecordEnded` are
`revoke`. `TtlElapses`, `WeekRolls`, `ChangePlan`, `UpdatePool`,
`RevokeDevice`, `CloseStream` and `Crash` are the world around it. A closed
stream drops the rest of its handler and leaves what it wrote.

Both handlers drop most of their errors and go on with what a failed query
leaves in its variable, so a failing statement is a step of its own at each
place: `GrantMisread` (the pool is not seen to be paused or pinned),
`GrantCountMisread` (`n, _ := ActiveLeaseCount` and `used, _ :=
WeekSecondsUsed` read 0, and the request is granted), `GrantFails` (an insert;
here the request is refused), `ReapTakeUncharged`, `ReapCheckMisread` (a revoked
device, the plan or the hours are not seen, a renewal is lost), `RevokeTears`
(`EndLease` or the update of the worker fails and `revoke` does the rest) and
`RecordEndedFails`.

Time is abstracted to what `time.Now().After(expires_at)` tells apart, and the
weekly counter to the number of passes that charged the org, saturated at
`MaxTicks`. The dunning loop with which `reapOnce` begins is in `Billing`; here
it is one of the causes of `ChangePlan`.

`LeaseLife` is the abstract specification: a grant is started, held, revoked,
parked and closed, each once and in this order, billed once at some time after
it was given out, and an org never holds more than its quota of leases that were
counted (`Hold`); one given out without a count is remembered as such
(`HoldUncounted`). `Lease` implements it (`ImplementsLife`): the stage of a grant is read off its three rows --
`free` without any, `started` with a running worker and no lease, `held` with an
active lease, `revoked` once the lease has ended, `parked` once the worker has,
`closed` once the ledger says so -- and any combination of rows that is none of
these is `broken`, which no step of `LeaseLife` reaches. A slot whose `revoke`
tore is `held` or `revoked` whatever its worker does. `billed` are the slots
with an *issued* entry. The quota of an org is the largest `max_workers` of a
plan and one more for every stream beyond the first, which is what the race of
two `tryGrant`s costs.

### Pipeline

| State | Code |
|---|---|
| `task`, `prs`, `pr` | `task.status`; the number of `pull_request` rows of the task, and the latest |
| `cfg` | what `mergeGate` answers, and `run_tests` of the repository's pinned worker |
| `hub`, `conn`, `owner`, `down`, `up` | the registered stream, each stream's life, executor and two queues |
| `hnd`, `rest` | where a stream's handler stands; the push a REST handler still owes |
| `local`, `merged` | the workdirs on each executor, and the branches in the base branch |
| `past` | history for the properties: what was ever decided about a task |

`Recv` takes the next message; the actions named after database functions are
their statements; `AfterExec`, `AfterTest`, `AfterReview`, `Gate` and
`SendStep` are the decisions of `advancePipeline` and `reconcileTask`.
`RunStep` is one round of the executor's loop, with every outcome a step can
have. A disconnection makes a stream `dead`; it stays registered, and its
handler keeps going, until `StreamEnds`, so an executor that comes back quickly
has two handlers. `DispatchExec` writes straight into the handler's own
channel; if a newer stream has closed it, the send panics and the whole process
ends (there is no recovery in the gRPC server).

`Approve` and `Reject` are open for any task that exists, at any time:
`interventionAnswer` takes the id from the URL, and neither it nor
`ApproveHumanReview` nor `dispatchMerge` asks for the status. An approval of a
task that was reviewed is the human gate (`past.human`); one that comes before
overrules the gates (`past.overruled`), because it sends the merge at once.

`StatementFails` is the failing statement of any handler, and `AfterFailure`
where that handler goes on: `advancePipeline` drops the error of
`SaveExecResult`, `SetCIResult`, `SetAIReview` and of the first half of
`MarkMerged` and acts on the result all the same (`past.unsaved` is an exec that
left no pull request). `GateMisread`, `AfterExecMisread` and `SendMergeFails`
are the queries whose failure changes a decision.

`SetTaskStatus` is modelled as it is written: the statement is
`SET status=$2 WHERE id=$1`, bound to `(status, taskID)`, so it looks for a
task whose id is `planning` or `running` and changes nothing.

Left out: `step`, `ci_run`, `qa_report`, notification and activity rows, which
no handler reads back; and the capacity of the channels, which is the subject
of `Hub`.

`TaskLife` is the abstract specification: a task is executed (it gets its one
pull request then, or never), tested, reviewed and cleared, one phase at a time
and never back, and merged in the last one; its status says `waiting` or
`merged`, and its pull request is recorded as merged, only where that is true.
`PhaseOf` and `ShownOf` read phase and status off the rows and `past`. Two
things are *not* promised. A human may overrule the gates (`Overrule`), after
which the task may be merged in any phase. And the status does not stay: an
answer to a merged task moves it to `running` or `failed`, and `TaskLife` allows
it (`Resume`).

### Billing

| State | Code |
|---|---|
| `plan`, `sub`, `invoices` | `org.plan`, rows of `subscription` and of `invoice` |
| `hook` | where a webhook request stands |
| `dun` | the dunning loop: how often each org is still in the list, and the org at hand |
| `net`, `stripe`, `sent`, `collected` | Stripe, external: events not yet answered, its own view of the subscription, the invoices it was paid |
| `lapsed`, `ended`, `crossed`, `mixed` | history for the properties: whose grace ran out, whose subscription Stripe deleted; the orgs with somebody's write between the statements of a writer still under way, and those whose plans may differ |

`UpsertSubscription` is `CheckoutOrg`, `CheckoutSub`, `CheckoutInsert`;
`DowngradeToFree` is `DeletedOrg`, `DeletedSub` in the webhook and
`DunDowngradeOrg`, `DunCancelSub` in the reaper; `SetPlan` is one transaction;
`AdminSetOrgPlan` writes `org.plan` only. Stripe delivers in any order, again
after an attempt that was cut off or whose answer was lost, and never again
after a 200, which the handler also answers when a statement failed
(`StatementFails`). `mixed` is history that the operators `Starts`, `Leaves`,
`Ends` and `Breaks` keep: an org enters it when a writer of two statements ends
while it was overlapped, or is broken off, or staff write `org.plan` alone, and
leaves it when the next writer runs alone and to its end. An invoice event finds its org by the customer stored in
`subscription`; if the checkout has not been handled yet it is ignored.

### GithubFlow

| State | Code |
|---|---|
| `call` | a call of `startGithubDevice`: its purpose, its instance of the page, where it stands between its two POSTs and `openExternal` |
| `page`, `ref`, `timers` | the mounted page (dialog, status, device code, `starting`), each instance's `ghPoll.current`, the intervals alive in the browser |
| `req` | status requests and their answers under way |
| `secretSet`, `ghStates`, `flow` | is the web flow available, the states the server still accepts, `ghFlows[org]` |
| `handler` | the callback or the polling goroutine of a call, between its statements |
| `stored`, `saves` | the `connection` rows by purpose; how often each call had one stored |

`StartGithubDevice`, `ReceiveUrl`, `FallBackToDevice`, `ReceiveCode`,
`StartFails`, `PollGhStatus`, `Tick` and `ReceiveStatus` are the page;
`GithubOAuthStart`, `TakeState`, `CallbackStores`, `CallbackDone`,
`GithubDeviceStart`, `DeviceStores`, `DeviceDone`, `DeviceFails`,
`GithubDeviceStatus` and `Restart` the server. The status `failed` stands for
`expired`, `denied` and `error`, which nothing tells apart. The page can be
left and entered again at any point; an instance that was left keeps the
interval it had or sets one when its `await` returns. A status request may be
answered without a status (`StatusRefused`: `safeJson` makes an empty object of
a 429 or an error page, and the page sets the status to the empty string) or
not at all (`StatusLost`). An unreadable answer to the first POST, after which
the page falls back to a device code although the web flow is available, is
left out.

### Dashboard

`Dashboard` composes five parts. One page is mounted at a time and its state
starts afresh when it is, so a behaviour is a visit to one part (`route`), with
what other pages write as its environment; the parts not visited are at rest.

- `UsePoll`: `server` is what the cérebro would answer now, `data` what is
  shown, `gets` the answers under way. A poll takes its answer when it is
  served and delivers it later, in any order; a miss (the fetch throws, or the
  answer has no list) keeps what is shown.
- `Session`: `issued` and `expired` tokens, the one in localStorage (`token`),
  and for each tab which shell it shows, whether its gate has opened, the token
  its own `/v1/me` was sent with, and the calls under way with theirs. A 401
  removes the token of the moment it arrives, as `safeJson` does.
- `Connections`: rows of `connection` with the token stored (`conns`), one dialog for each of the four kinds (`dialog`), requests with the
  card and credential they were sent with (`connReq`). A credential is checked,
  or read from an identity of the family (`Check`), before it is stored, and that
  identity may be gone by then. Replacing a row is a
  DELETE that sees what is committed (`Begin`) and an INSERT with the COMMIT
  (`Commit`), so two of them may leave two rows, as under READ COMMITTED. A late
  answer is applied to whatever the dialog shows.
- `Repos`: rows of `repository` (`repos`), the three dialogs (`add`, `edit`,
  `del`) and their requests. A row keeps the source it was registered under and
  the source its address was picked from.
- `Pool`: the `pool_config` row and `pinned_worker` rows (`cfg`, `pinned`), the
  copies on the page (`pool`, `pinShown`), the dialog of a pinned worker, the
  requests. A setting is changed in the copy first and the whole copy posted;
  `LoadPoolBlank` is an answer that is not JSON, which `loadPool` takes for the
  settings.
- `Views` and `Console`: a list page is a record (the rows it may hold, as the
  set of filters that let them through; page size, bounded index, dialog,
  buttons of rows, what it keeps locally) and `Console` says what the record
  means: read, filter, turn pages, open, submit, act on a row, while others
  change the rows.

### Services

`Services` composes four small services that read nothing of each other; a
behaviour follows one of them (`service`).

- `Hub`: the registered stream (`byOrg`), each stream's channel as the number
  of commands in it and how often it was closed (`chan`), its handler and its
  writer, the streams gRPC still takes for connected, and each caller of `Send`
  between reading the channel and sending (`push`). A panic in `net/http` ends
  the request, any other the process (`falls`).
- `Routines`: rows with `next_run_at` as null, ahead or past (`routine`), the
  rest of the list `DueRoutines` returned (`due`), the routine fired and not yet
  marked (`at`); `turns`, `fired` and `misses` are history.
- `RateLimit`: the clock in steps, the plan, the cached limit, the window, and
  for each request which of its clock readings and critical sections is next.
- `Vault`: `vault.json` as whole, blank (truncated) or torn, each request
  between load, truncate, write and registration, and the `secret_ref` rows. A
  file that cannot be read loads as an empty store, as one that is not JSON does
  (`Load`). `kept`, `missed` and `risked` are history: what the completed
  requests should have left, the names for which a request's copy may be
  outdated, and those that a save has put at risk.

## Runs

Every passing run is complete: TLC explores the whole state space of the
instance. `-workers 2`, each below five minutes.

| Run | Instance | Shows |
|---|---|---|
| `lease_safety` | one device with two streams, two slots, plans Free and Pro changing at will, one crash or failed statement | rows of a grant and handlers agree at every statement (`Bookkeeping`), the limit is exceeded by at most one per extra stream and one per failed statement (`OvershootBounded`), a grant keeps to the limit it read unless its count failed or was overtaken (`GrantWithinCap`), and every grant goes through the stages of `LeaseLife` (`ImplementsLife`) |
| `lease_liveness` | one stream opened again and again, one slot, a limited and an unlimited plan with TTL, shared, paused and pinned pool, two crashes or failed statements | expiry, kill-switch and weekly hours end leases and park their workers, whatever pass failed (`LeasesEnd`) |
| `lease_cap_race` | two streams, Free | **violated**: `NeverOverMaxWorkers` |
| `pipeline_safety` | one task, one executor, two streams, the gate or the tests switched off at any time, interruptions, an answer at any time, a crash or a failed statement | merges pass the gates or were overruled (`GatedMerge`), records of merges are true (`MergedIsReal`), what waits for a human can be judged (`BlockedHasPr`), and a task goes through the phases of `TaskLife`, with one pull request at most (`ImplementsTaskLife`) |
| `pipeline_liveness` | one task, one stream at a time, two disconnections | a task with a pull request is merged, failed or with a human again and again (`PrProgress`) |
| `pipeline_cut` | handlers interrupted | **violated**: `PrProgress` |
| `billing_safety` | one org, two requests at a time, three things that happen at Stripe, one request cut off or crash, one failing statement, two rows | downgrades have a cause (`DowngradeHasCause`), plans agree again after the next writer that runs alone (`PlansAgree`), invoices are paid ones (`InvoicesArePaid`) |
| `billing_liveness` | one request at a time, one cut or crash | debts are resolved (`DunningResolves`), cancellations arrive (`CancelReachesFree`) |
| `github_flow` | two calls for two purposes, one visit to the page that may be left, one restart of the server, one status request at a time | one interval per page (`OnePoll`), a code on the screen is watched (`CodeIsPolled`) and comes to an end (`CodeResolves`), authorisations are stored once (`StoredOnce`) and where they belong (`StoredAsAsked`) |
| `dashboard` | every part, two requests under way in each | buttons come back (`ButtonsComeBack`), a form is sent once (`SubmitOnce`), no list claims to be empty (`RowsWhenAny`), the console is closed to others (`AdminsOnly`), tokens work (`CodeHasToken`), removed rows stay removed (`RemovedStays`) |
| `dashboard_liveness` | session and workers tab, polls missed, lost and overtaking each other | the workers tab becomes what the server has (`PoolShown`), ended sessions end at the login page (`SessionEnds`) |
| `services` | two streams and two callers of `Send`, two routines, two requests in the limiter, two clients of the vault; two panics, two lost marks, one stop, disks that fail | no channel is closed twice (`ClosedOnce`), handlers of dead streams end (`DeadStreamEnds`), routines run once per turn (`OncePerTurn`), limits hold (`WindowBounded`, `LimitIsRecent`), secrets are kept (`SecretsKept`) |

The violated properties state what a document of the repository says; the
entries under `findings` quote it. In words:

- `tryGrant` counts and inserts in separate statements, so two streams of an org
  obtain lease N+1 together. `OvershootBounded` is what is left of the promise.
- A handler broken off between the verdict of a test or review and `FailTask`
  leaves `ci_status = failed` (or `changes`) with the task `in_review`: no case
  of `reconcileTask` matches. `PrProgress` holds when handlers are not broken
  off.

Several properties say in their own terms how far a promise goes, rather than
that it is kept: `WindowBounded` counts the requests that held a clock reading
over the end of a minute, `OncePerTurn` the marks that were lost,
`OvershootBounded` the statements that failed; `SecretsKept` and `PlansAgree`
name what puts a secret or a plan at risk and when it is safe again;
`GatedMerge` and `BlockedHasPr` name the approval ahead of the review and the
pull request that could not be saved; and `DeadStreamEnds` names the one way a
handler has not to end. `RowsWhenAny` leaves out the home page's list of blocked tasks,
whose index has no bound.

### Divergences without a run

Seen while modelling, and part of the models where these reach them.

Leases, tasks and billing:

- the kill-switch looks for any revoked device of the org and so ends the leases
  of the others (`PROTOCOLO.md:43`); a device revoked while its stream is open
  still has its requests served (`PROTOCOLO.md:42`);
- `revoke` broken off between `EndLease` and the update of the worker, or whose
  update fails, leaves it `running` for ever, because only leases that have not
  ended are looked at again (`cerebro/grpcsrv/reaper.go:171`;
  `app/README.md:82-83` promises `LEASE_REVOKED` and `STOP_WORKER`); one whose
  `EndLease` fails parks the worker of an active lease, which the next pass
  revokes again and closes twice in the ledger;
- a count of leases or weekly seconds that fails reads 0 and refuses nothing
  (`cerebro/grpcsrv/reaper.go:82`, `:88`);
- `POST /v1/interventions/{id}/answer` with `approve` merges any task that has a
  workdir, also before its tests and its review
  (`cerebro/httpapi/api.go:728`; `app/README.md:126-127` says "o cérebro aplica
  os gates server-side entre as etapas: CI verde, revisão IA aprovada e
  (opcional) revisão humana");
- a pull request that cannot be saved is dropped, the task goes on, and it may
  wait for a human with nothing to look at (`cerebro/grpcsrv/server.go:249`);
- a task created while no executor is connected is never planned
  (`PROTOCOLO.md:182`); with two executors in one org a step goes to the newer
  stream and fails for want of a clone;
- after a quick reconnection the same test may run twice; if one is green and
  the other red, the branch is merged although the last result on record is a
  failure (`cerebro/grpcsrv/server.go:261`, `app/README.md:202`);
- `SetTaskStatus` never changes a status (`cerebro/db/db.go:1626`);
- the first invoice is lost when its event overtakes the checkout's, and any
  event is lost whose statement failed (`SCHEMA-DADOS.md:138`); a payment
  recorded after `PastDueExpired` was read does not save the plan
  (`cerebro/grpcsrv/reaper.go:128`, `SCHEMA-DADOS.md:108`).

Services:

- a send on a channel that a newer stream closed panics; outside `net/http`
  nothing recovers and the whole cérebro ends (`cerebro/grpcsrv/hub.go:44`, the
  handlers' `out <-`); a handler whose channel is full and whose writer failed
  waits until the next stream closes its channel under it (`hub.go:49`);
- a routine disabled or deleted after it was listed is still fired, the mark
  sets a next run for a disabled one, and a task that could not be inserted is
  marked as run (`cerebro/grpcsrv/scheduler.go:27`);
- a failing `GetOrgPlan`, for instance because the client hung up, rates the org
  as Free for 30 seconds (`cerebro/db/db.go:555`); `SECURITY.md:33` and
  `app/README.md:235` give 60, 300 and 1000 requests per minute, the code 240,
  600 and 2000 (`cerebro/httpapi/middleware.go:64`);
- `secret.delete` leaves the `secret_ref` row; a reader between truncating and
  writing sees an empty vault, and an engine without a key runs the stub; a file
  that cannot be read counts as empty, and the next save drops every other
  secret (`executor/vault.rs:74`);
- two users setting the AI engine at once leave two, where the comment says
  there is one (`cerebro/db/db.go:411`; `Begin` and `Commit` of `Connections`
  have this interleaving).

Dashboard (`config` is `dashboard/config/page.tsx`):

- `connectApiKey` neither sends nor stores the key that the text at config:1456
  says is stored encrypted; `reuseConn` shows success on a refusal (config:450);
  a web flow refused or abandoned at GitHub stays pending for ever
  (`cerebro/httpapi/api.go:1666`); leaving the page while `openExternal` is
  awaited leaks an interval (config:305);
- a poll of the pool settings that is not JSON replaces the copy by blanks and
  the next click posts them (config:469; `ui.tsx:956` says the last good value
  is kept); a poll between two clicks takes back the first; the list of another
  source may arrive late in the repository dialog (config:487); `saveRepo` and
  `savePw` close and report success when refused;
- merge rules, agent models, behaviour and limits (config:691, 1740) and the
  home page's *Pausar pool* (`dashboard/page.tsx:78`) are local state only; the
  limit of eight pinned workers is the page's (`SCHEMA-DADOS.md:177`);
- the index of the blocked tasks on the home page has no bound, so *Tudo certo*
  may be shown while there are some (`dashboard/page.tsx:474`); the button back
  steps from the raw index and may seem to do nothing;
- create dialogs close and clear on refusals and on late answers (tasks:55,
  routines:69, knowledge:125; org:124 also lists the invitation); an imported
  document may be listed twice (knowledge:144) and deleting it calls a route
  that is not registered; invoices and notifications show samples when there
  are none;
- in the console a slow answer may reopen the details of another org
  (orgs:29), or show the audit of the scope chosen before (audit:23);
- a wrong password is a 401, so it removes the token of the other tabs and the
  error is not shown (`ui.tsx:931`, login:25); an expired token loses `?next`; a
  superadmin whose `/v1/me` fails is shown the dashboard (`ui.tsx:1013`).

### Bounds, and why they are enough

- *Lease*: two slots are the smallest number with one lease live while another
  is granted, ended or orphaned; two streams give every pair of grants. Three
  streams add only more of the same pairs, and the theorems cover any number.
  `lease_safety` has one shared pool, and the pinned and paused ones are in the
  theorems; `lease_liveness` has one slot, as leases end one by one. `MaxFaults`
  bounds crashes and failed statements together: one breaks anything once, two
  break a pass and the pass that repairs it.
- *Pipeline*: handlers of different tasks share no row, so one task suffices
  for the safety properties. One disconnection with two streams gives an old
  and a new handler of the task; one answer at any time is late, early or in
  time, and the theorems cover any number. The gate and the tests are not
  switched off both at once, which only drops more of the order to be kept.
- *Billing*: three things at Stripe are a purchase, a failed payment and a
  second failure, payment or cancellation; two rows are one too many, which is
  what a second insert would do.
  An org buys again only after its subscription was deleted (`StripeCheckout`),
  though `checkout` would start a second session.
- Failing statements are steps of `Lease`, `Pipeline`, `Billing`, `Routines`,
  `RateLimit` and `Vault`, wherever the code drops the error and goes on; where
  it returns instead, the handler is idle afterwards. The two liveness runs of
  the pipeline and that of billing have none: there a dropped error is what no
  later step makes up for.
- *GithubFlow*: two calls give every overlap of two; one visit to the page that
  may be left at any point is enough to have an interval without a page, and
  the bound `MaxStarts` counts calls over all visits. One status slot: answers
  that overtake each other would end the polling earlier, never later.
- *Dashboard*: two requests under way in a part are one late and one new; two
  tabs, two users and two logins give a session replaced under a call. A deck
  of two cards is a pair of one provider in two roles (reuse) or the two kinds
  of AI engine; cards outside a deck share neither dialog nor identity. A page
  size of one with two rows has a last page that may go.
- *Services*: two streams are an old and a new one; a channel of two fills as one of sixteen.
  Two panics let a process end and end again. Two turns and two lost marks give
  a routine listed, fired and come up again in between. A minute of two steps
  and a cache of one make a request meet every edge; Free allows one request,
  Enterprise is without limit. Two clients of the vault are the pair that can
  overlap; three requests leave something before, between and after.
- `CHECK_DEADLOCK FALSE` is used for `Pipeline`, `GithubFlow`, `Dashboard` and
  `Services`: once tasks, calls, clicks, requests and falls are used up there
  is nothing left to do.
- Symmetry (slots; streams; rows and requests; requests of the connections tab)
  is used in the safety runs only: no action tells the members apart, and every
  property quantifies over all.

### Fairness

`Lease`: the reaper is a goroutine on a ticker, so `ReaperStep` is weakly fair;
nobody else owes anything. `Pipeline`: handlers, the executor's loop and the
pushes of REST handlers are weakly fair, a dead connection is noticed
(keep-alive) and an executor that lost its stream is started again; people owe
nothing, which is why *waiting for a human* is a goal of `PrProgress`.
`Billing`: Stripe keeps trying, requests are served, the reaper's ticker fires
and the grace period passes.

`GithubFlow`: the event loop runs what is due and the goroutine of a code ends
at its deadline (weak); an interval ticks, and of infinitely many status
requests one is answered (strong, because a lost request takes the place of an
answer now and then). Neither the user nor GitHub owes anything.
`Dashboard`: an open tab keeps polling and its calls return (weak), not every
call fails to reach the cérebro (strong); the intervals of the workers tab run
and of infinitely many polls one brings the list (strong). Requests that were
sent are served. Clicks are not fair, and bounded. `Services`: goroutines that
can go on do (`Answer`, `AnswerPanics`, `Leave`, `Write`, all weak); executors,
users and the callers of `Send` owe nothing.

## Proofs

`LeaseProofs` proves, for any number of orgs, devices, streams, slots and plans
and for any bounds that satisfy `ConstAssumption` and `SlotAssumption`:

- `LeaseTypeCorrect`: `TypeOK`.
- `LeaseBookkeeping`: the inductive invariant, with `LeaseActiveMeansRunning`,
  `LeaseEndReasonSound` and `LeaseLedgerClosedOnce` as parts of it. None of the
  three is inductive alone. `ActiveMeansRunning` needs that the reaper parks
  only the worker of a lease it has ended (`ReaperHoldsLive`) and that a grant
  about to insert its lease owns a running worker nobody else writes
  (`GrantsOwnSlots`); closing the ledger once needs that the snapshot of the
  reaper contains only leases still active, which holds because nobody but the
  reaper ends a lease; and all need that the three rows of a slot never get
  ahead of each other (`RowsAgree`). A slot whose `revoke` failed half-way is
  `torn` and excepted; `TornExplained` bounds these by the failures.
- `LeaseEndedIsFinal`: an action property, from the same invariant.
- `LeaseOvershootBounded`: by counting. A lease is added by `InsertLease` alone,
  which moves a stream out of `Inserting`; a stream enters `Inserting` only when
  it counted fewer leases than the limit, and at most all the other streams are
  inserting then; or its count failed, which is one of `errs`, and its lease is
  then `uncounted`. Finiteness of `Slot` and `Conn` is used here only.
- `LeaseGrantWithinCap`: a grant whose count was read, and which no other
  stream's insert has overtaken since, finds room (`LeaseGrantFits`), for any
  number of streams.
- `LeaseImplementsLife`: the refinement. The invariant says which rows a grant
  in each place has, so each statement moves one stage or none; that `Hold`
  stays within the quota is `OvershootBounded` before the step.

`PipelineProofs` proves, from `PipeAssumption` and `SessAssumption`, for any
finite number of tasks and any executors, streams, configurations,
disconnections, answers and crashes:

- `PipelineTypeCorrect`: `TypeOK`, with the contents of every queue.
- `PipelineGatedMerge` and `PipelineMergedIsReal`, from `Due`: whatever is on its
  way to a merge carries the reasons for it. `GatedMerge` speaks of the merge
  only, and the command to merge may be sent long after the verdicts, by a
  reconciliation after a cut stream or a restart, or by an answer; so `Due` says
  of each event that goes up, each command that goes down, each statement a
  handler stands at and each row what must have been decided, or that a human
  overruled the gates.
- `PipelineOnePr` and `PipelineBlockedHasPr`, from `Ahead`: the plan and execute
  commands of a task, and the reports of them, are at most one over all the
  places one can be in, and none is left once the pull request exists. `OnePr`
  alone allows a second execution to be on its way, and a pull request that was
  not saved must not lead to a second one either; the count is over the
  REST handlers, the handlers of the streams and their two queues, and every
  action moves one item between two of these places or drops it.
- `PipelineImplementsTaskLife`: the refinement, from both and from `InOrder`,
  which says that of each verdict the one before it was given: each statement
  then moves one task by one phase, or tells something that `Due` says is true
  already, or is a stutter. That the pull request is new when it is inserted is
  `Ahead`.

`BillingProofs` proves, for any number of webhook deliveries, staff requests and
bounds, from `BillingAssumption` and `NoOrgAssumption`: `BillingInv`, whose parts
are

- `TypeOK` (`BillingTypeCorrect`);
- `DeliveryInv`, for `BillingInvoicesArePaid`: a request serves an event Stripe
  still waits for, and the invoice rows of a payment are counted against its
  deliveries, the rows its requests have still to write, and the cuts;
- `PlansInv`, for `BillingPlansAgree`: a writer between its two statements is
  alone and finds `org.plan` as it left it unless somebody has written between,
  which is what `crossed` remembers, so a writer that was not crossed leaves one
  row with the plan of the org, whatever was there before; `PlansAgree` speaks of
  the moments without a writer, so it says nothing of the state a writer starts
  its second statement in;
- `GraceInv` and `DunHolds`, for `BillingDowngradeHasCause`: what the dunning
  ticker holds in its list had its grace lapsed when the list was read.

`GithubFlowProofs` proves, from `ConstAssumption`, for any number of calls,
visits, restarts, purposes and requests: type correctness; `OnePoll` and
`CodeIsPolled` from `PollInv` (an interval is the one its instance's ref names,
and a page shows a code only while one runs or a call is about to set one);
`StoredOnce` and `StoredAsAsked` from `SaveInv` (a call whose state or code was
used up has no handler that could store again), each on top of `FlowInv`
(types, and what is known of the calls already made).

`DashboardProofs` proves, for any tabs, users, cards, rows, settings, list
pages and requests: the types of session, connections, repositories and workers;
`AdminsOnly` from `SessionInv` (the token the gate opened for
was a superadmin's; tokens are never issued anew), `ButtonsComeBack` from
`ConnInv`, `RepoInv` and `PwInv` (each flag has its request, and each request the
kind of dialog it was sent from), `SubmitOnce` from `ListInv`, and the action properties
`CodeHasToken` and `RemovedStays` step by step. `StepOfPart` reduces a step of
`Dashboard` to a step of the part visited.

`ConsoleProofs` proves `DashboardRowsWhenAny` and `DashboardTypeCorrect`, which
need the list pages as well. `RowsWhenAny` divides a number of items into pages,
and holds because of `RowsInv`: the rows of an answer, however late, were read in
one state of the table, so no two of them have the same number. `EveryRank` turns
that into positions (in a finite set of items each position up to its size is
held by one), by the least item that lacks it: the well-foundedness of `<` on the
naturals in the form that quantifies over sets, since the library's induction
theorem is beyond the provers. The assumption is that items are numbered from 1.

`ServicesProofs` proves, from the four named assumptions of the services, for
any number of streams, callers, routines, plans, requests, names and clients:
type correctness; `ClosedOnce` from `HubInv` (a channel not yet used is open, and
only the registered one is open once used); `OncePerTurn` from `RoutinesInv`
(what is listed or fired and not marked is still owed to a turn); `WindowBounded`
from `WindowInv` (what passed in a minute is what the window counts, and what
each stray gave back); `LimitIsRecent` from `RecentInv` (the cache and every
request carry a limit with the time it was in force); `SecretsKept` from
`VaultInv` (the copy a request is about to save holds what should be there, for
every name that is neither at risk nor missed).

The proofs treat each action separately, and in it each conjunct that the
action can disturb.

Every invariant and every action property the runs check is stated by a
theorem. Only model-checked: the liveness properties (`LeasesEnd`, `PrProgress`,
`DunningResolves`, `CancelReachesFree`, `CodeResolves`, `PoolShown`,
`SessionEnds`, `DeadStreamEnds`), since fairness is beyond the prover. Only
proved, because the runs check a stronger property: `GrantFits`,
`EndedIsFinal`, `ActiveMeansRunning`, `EndReasonSound` and `LedgerClosedOnce`,
which follow from `Bookkeeping`, and `OnePr`, which follows from
`ImplementsTaskLife`.

The assumptions are named in the module that declares the constant, and TLC
evaluates them in the runs: sets that are counted over are finite, bounds are
natural numbers, a page has at least one row.

## Not modelled

The parts with status `not_modelled` in `PROJECT.json`: roles are a table lookup
per request (a refusal is an outcome of every write in the dashboard models),
row-level security is evaluated by PostgreSQL, certificates by TLS libraries;
LLM and git calls appear as a choice of outcomes; reads, memory, documents,
notifications and audit are single statements without a protocol; menus, the
account page, help, pricing and the public pages have local state or none;
`support.js` is a generated script; the desktop shell and the deployment have no
protocol of their own. The browser login of the Claude subscription, in which
the auth sidecar drives a terminal, is a choice of outcomes in `Connections`.

## Plan

1. An abstract specification of entitlement (a plan, a debt, a downgrade) that
   `Billing` implements when its writers do not overlap.
2. `Pipeline`'s queues as an instance of what `Hub` promises: a command is
   delivered, dropped or fails, and a full channel holds up its handler.
3. The login of the subscription through the auth sidecar.
4. The parts of the liveness arguments that are action properties: what keeps a
   step enabled until it is taken, and what each step makes smaller.
