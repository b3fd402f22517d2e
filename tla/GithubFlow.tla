----------------------------- MODULE GithubFlow -----------------------------
(***************************************************************************)
(* "Connect GitHub" of the configuration page, end to end.                 *)
(*                                                                         *)
(* Three parties share one flow per organisation:                          *)
(*   - the page (config/page.tsx): startGithubDevice asks the server for a *)
(*     web flow and falls back on a device code; pollGhStatus then asks    *)
(*     for the status on an interval until a terminal answer;              *)
(*   - the server (httpapi/api.go): ghStates remembers the web flows       *)
(*     started, ghFlows[org] holds ONE status for the organisation, and a  *)
(*     goroutine polls GitHub for every device code handed out;            *)
(*   - GitHub and its user, who may authorise, refuse or walk away.        *)
(*                                                                         *)
(* A call of startGithubDevice is named by a number k: it owns the web     *)
(* state or the device code it obtained, the goroutine that polls for the  *)
(* code and the interval it opens.  The page may be left and entered       *)
(* again: every mount is an instance of its own, with its own ghPoll ref.  *)
(***************************************************************************)
EXTENDS Integers, FiniteSets

CONSTANTS
  Purpose,      \* where a connection is stored: code, tasks, ci, docs
  MaxStarts,    \* bound: calls of startGithubDevice
  MaxMounts,    \* bound: times the page is entered
  MaxRestarts,  \* bound: restarts of the server
  Slots         \* status requests that may be in flight at once

ASSUME ConstAssumption ==
  /\ MaxStarts \in Nat \ {0}
  /\ MaxMounts \in Nat \ {0}
  /\ MaxRestarts \in Nat
  /\ Purpose # {}
  /\ "none" \notin Purpose

VARIABLES
  secretSet,  \* the server has the secret of an OAuth App: web flow available
  call,       \* call[k]: progress of the k-th startGithubDevice
  page,       \* the React state of the mounted page
  ref,        \* ref[i]: ghPoll.current of the i-th instance, 0 for null
  timers,     \* intervals alive in the browser, named by the call that set them
  req,        \* status requests in flight
  flow,       \* ghFlows[org]
  ghStates,   \* calls whose web state the server still accepts
  handler,    \* handler[k]: the callback or the goroutine working for call k
  stored,     \* purposes with a connection in the database
  saves,      \* history: times call k had a connection stored
  restarts

vars == <<secretSet, call, page, ref, timers, req, flow, ghStates, handler,
          stored, saves, restarts>>

server  == <<flow, ghStates, handler, stored, saves, restarts>>
browser == <<call, page, ref, timers, req>>

Call     == 1..MaxStarts
Instance == 1..MaxMounts
\* "failed" stands for expired, denied and error, which nothing tells apart
Status   == {"", "pending", "authorized", "failed"}

\* "oauth", "device": a POST waits for its answer; "url", "not_configured",
\* "code", "failed": the answer arrived; "opening": openExternal is awaited
CallPc == {"unused", "oauth", "url", "not_configured", "device", "code",
           "failed", "opening", "done", "gave_up"}

NoPage == [inst |-> 0, modal |-> "none", status |-> "", device |-> FALSE,
           starting |-> FALSE]
\* Mutant: useState("") for the dialog instead of null
FreshPageEmptyModal(i) == [NoPage EXCEPT !.inst = i, !.modal = ""]
FreshPage(i) == [NoPage EXCEPT !.inst = i]
NoReq == [by |-> 0, ans |-> "free"]
NoFlow == [status |-> "", purpose |-> "none"]

TypeOK ==
  /\ secretSet \in BOOLEAN
  /\ call \in [Call -> [pc : CallPc, inst : 0..MaxMounts,
                        purpose : Purpose \cup {"none"}]]
  /\ page \in [inst : 0..MaxMounts, modal : Purpose \cup {"none"},
               status : Status, device : BOOLEAN, starting : BOOLEAN]
  /\ ref \in [Instance -> 0..MaxStarts]
  /\ timers \in SUBSET Call
  /\ req \in [Slots -> [by : 0..MaxStarts,
                        ans : Status \cup {"free", "waiting"}]]
  /\ flow \in [status : Status, purpose : Purpose \cup {"none"}]
  /\ ghStates \in SUBSET Call
  /\ handler \in [Call -> {"none", "polling", "exchanging", "stored"}]
  /\ stored \in SUBSET Purpose
  /\ saves \in [Call -> Nat]
  /\ restarts \in 0..MaxRestarts

Init ==
  /\ secretSet \in BOOLEAN
  /\ call = [k \in Call |-> [pc |-> "unused", inst |-> 0, purpose |-> "none"]]
  /\ page = FreshPage(1)
  /\ ref = [i \in Instance |-> 0]
  /\ timers = {}
  /\ req = [s \in Slots |-> NoReq]
  /\ flow = NoFlow
  /\ ghStates = {}
  /\ handler = [k \in Call |-> "none"]
  /\ stored = {}
  /\ saves = [k \in Call |-> 0]
  /\ restarts = 0

----------------------------------------------------------------------------
(* The page.                                                               *)

Mounted(i) == i # 0 /\ page.inst = i

\* stopGhPoll: clears the interval the ref of instance i holds, if any
StopGhPoll(i) ==
  /\ timers' = timers \ {ref[i]}
  /\ ref' = [ref EXCEPT ![i] = 0]

\* resetGit, resetTask and resetInt share the GitHub part of the page
OpenModal(p) ==
  /\ page.inst # 0 /\ page.modal = "none"
  /\ StopGhPoll(page.inst)
  /\ page' = [FreshPage(page.inst) EXCEPT !.modal = p]
  /\ UNCHANGED <<secretSet, call, req, server>>

CloseModal ==
  /\ page.inst # 0 /\ page.modal # "none"
  /\ StopGhPoll(page.inst)
  /\ page' = FreshPage(page.inst)
  /\ UNCHANGED <<secretSet, call, req, server>>

\* navigating away: the cleanup effect clears the interval
Unmount ==
  /\ page.inst # 0
  /\ StopGhPoll(page.inst)
  /\ page' = [NoPage EXCEPT !.inst = 0]
  /\ UNCHANGED <<secretSet, call, req, server>>

\* a new instance of the page; it takes the next number
Mount(i) ==
  /\ page.inst = 0
  /\ ref[i] = 0
  /\ \A k \in Call : call[k].inst < i
  /\ page' = FreshPage(i)
  /\ UNCHANGED <<secretSet, call, ref, timers, req, server>>

\* "Authorise with GitHub": shown while no code is displayed and no
\* authorisation is awaited, inert while ghStarting
StartGithubDevice(k) ==
  /\ call[k].pc = "unused"
  /\ \A j \in Call : j < k => call[j].pc # "unused"
  /\ page.inst # 0 /\ page.modal # "none"
  /\ ~page.device /\ page.status # "pending" /\ ~page.starting
  /\ page' = [page EXCEPT !.starting = TRUE, !.status = "",
                          !.device = FALSE]
  /\ call' = [call EXCEPT ![k] = [pc |-> "oauth", inst |-> page.inst,
                                  purpose |-> page.modal]]
  /\ UNCHANGED <<secretSet, ref, timers, req, server>>

\* what a resumed call writes into the page is lost once it is unmounted
PageOf(k, new) == page' = IF Mounted(call[k].inst) THEN new ELSE page

\* the answer carries the address to authorise at: it is opened in a tab
ReceiveUrl(k) ==
  /\ call[k].pc = "url"
  /\ PageOf(k, [page EXCEPT !.status = "pending"])
  /\ call' = [call EXCEPT ![k].pc = "opening"]
  /\ UNCHANGED <<secretSet, ref, timers, req, server>>

\* no OAuth App on the server: ask for a device code instead
FallBackToDevice(k) ==
  /\ call[k].pc = "not_configured"
  /\ call' = [call EXCEPT ![k].pc = "device"]
  /\ UNCHANGED <<secretSet, page, ref, timers, req, server>>

ReceiveCode(k) ==
  /\ call[k].pc = "code"
  /\ PageOf(k, [page EXCEPT !.device = TRUE, !.status = "pending"])
  /\ call' = [call EXCEPT ![k].pc = "opening"]
  /\ UNCHANGED <<secretSet, ref, timers, req, server>>

\* either POST refused or lost: the catch shows the error and the button
\* works again
StartFails(k) ==
  /\ call[k].pc = "failed"
  /\ PageOf(k, [page EXCEPT !.starting = FALSE])
  /\ call' = [call EXCEPT ![k].pc = "gave_up"]
  /\ UNCHANGED <<secretSet, ref, timers, req, server>>

\* Mutant: pollGhStatus without its stopGhPoll
PollGhStatusNoStop(k) ==
  LET i == call[k].inst IN
  /\ call[k].pc = "opening"
  /\ timers' = timers \cup {k}
  /\ ref' = [ref EXCEPT ![i] = k]
  /\ PageOf(k, [page EXCEPT !.starting = FALSE])
  /\ call' = [call EXCEPT ![k].pc = "done"]
  /\ UNCHANGED <<secretSet, req, server>>

\* pollGhStatus once openExternal returned, then the finally of the call.
\* The ref is written even when its page is gone: nothing clears it then
PollGhStatus(k) ==
  LET i == call[k].inst IN
  /\ call[k].pc = "opening"
  /\ timers' = (timers \ {ref[i]}) \cup {k}
  /\ ref' = [ref EXCEPT ![i] = k]
  /\ PageOf(k, [page EXCEPT !.starting = FALSE])
  /\ call' = [call EXCEPT ![k].pc = "done"]
  /\ UNCHANGED <<secretSet, req, server>>

\* the interval fires whether or not its last request was answered
Tick(k, s) ==
  /\ k \in timers
  /\ req[s].by = 0
  /\ req' = [req EXCEPT ![s] = [by |-> k, ans |-> "waiting"]]
  /\ UNCHANGED <<secretSet, call, page, ref, timers, server>>

\* Mutant: the failed statuses stop the poll but leave the code on the screen
ReceiveStatusKeepsCode(s) ==
  LET k  == req[s].by
      st == req[s].ans
  IN
  /\ st \notin {"free", "waiting"}
  /\ req' = [req EXCEPT ![s] = NoReq]
  /\ IF st \in {"authorized", "failed"}
       THEN StopGhPoll(call[k].inst) ELSE UNCHANGED <<ref, timers>>
  /\ PageOf(k, IF st = "authorized" THEN FreshPage(call[k].inst)
                                     ELSE [page EXCEPT !.status = st])
  /\ UNCHANGED <<secretSet, call, server>>

\* Mutant: "expired" is missing from the statuses that end the poll
ReceiveStatusMissesExpired(s) ==
  LET k  == req[s].by
      st == req[s].ans
  IN
  /\ st \notin {"free", "waiting"}
  /\ req' = [req EXCEPT ![s] = NoReq]
  /\ IF st = "authorized"
       THEN StopGhPoll(call[k].inst) ELSE UNCHANGED <<ref, timers>>
  /\ PageOf(k, IF st = "authorized" THEN FreshPage(call[k].inst)
                                     ELSE [page EXCEPT !.status = st])
  /\ UNCHANGED <<secretSet, call, server>>

\* the continuation of one request; answers may arrive in any order
ReceiveStatus(s) ==
  LET k  == req[s].by
      st == req[s].ans
      i  == call[k].inst
  IN
  /\ st \notin {"free", "waiting"}
  /\ req' = [req EXCEPT ![s] = NoReq]
  /\ \/ /\ st = "authorized"
        /\ StopGhPoll(i)
        /\ PageOf(k, FreshPage(i))
     \/ /\ st = "failed"
        /\ StopGhPoll(i)
        /\ PageOf(k, [page EXCEPT !.status = st, !.device = FALSE])
     \/ /\ st \in {"", "pending"}
        /\ PageOf(k, [page EXCEPT !.status = st])
        /\ UNCHANGED <<ref, timers>>
  /\ UNCHANGED <<secretSet, call, server>>

----------------------------------------------------------------------------
(* The server.                                                             *)

\* a status request is read under ghMu; 404 without a flow reads as ""
GithubDeviceStatus(s) ==
  /\ req[s].ans = "waiting"
  /\ req' = [req EXCEPT ![s].ans = flow.status]
  /\ UNCHANGED <<secretSet, call, page, ref, timers, server>>

\* an answer without a status, as of the rate limiter or a gateway: safeJson
\* reads it as an empty one
StatusRefused(s) ==
  /\ req[s].ans = "waiting"
  /\ req' = [req EXCEPT ![s].ans = ""]
  /\ UNCHANGED <<secretSet, call, page, ref, timers, server>>

\* a request that gets no answer is caught and forgotten: the next tick asks again
StatusLost(s) ==
  /\ req[s].ans = "waiting"
  /\ req' = [req EXCEPT ![s] = NoReq]
  /\ UNCHANGED <<secretSet, call, page, ref, timers, server>>

\* a POST is lost, refused, or its answer is lost after the server acted
PostFails(k) ==
  /\ call[k].pc \in {"oauth", "device", "url", "code"}
  /\ call' = [call EXCEPT ![k].pc = "failed"]
  /\ UNCHANGED <<secretSet, page, ref, timers, req, server>>

GithubOAuthStart(k) ==
  /\ call[k].pc = "oauth"
  /\ \/ /\ secretSet
        /\ ghStates' = ghStates \cup {k}
        /\ flow' = [status |-> "pending", purpose |-> call[k].purpose]
        /\ call' = [call EXCEPT ![k].pc = "url"]
     \/ /\ ~secretSet
        /\ call' = [call EXCEPT ![k].pc = "not_configured"]
        /\ UNCHANGED <<ghStates, flow>>
  /\ UNCHANGED <<secretSet, page, ref, timers, req, handler, stored,
                 saves, restarts>>

GithubDeviceStart(k) ==
  /\ call[k].pc = "device"
  /\ flow' = [status |-> "pending", purpose |-> call[k].purpose]
  /\ handler' = [handler EXCEPT ![k] = "polling"]
  /\ call' = [call EXCEPT ![k].pc = "code"]
  /\ UNCHANGED <<secretSet, page, ref, timers, req, ghStates, stored,
                 saves, restarts>>

\* ten minutes pass, or the next start collects the state
StateExpires(k) ==
  /\ k \in ghStates
  /\ ghStates' = ghStates \ {k}
  /\ UNCHANGED <<secretSet, browser, flow, handler, stored, saves,
                 restarts>>

\* The page showed the user where to authorise call k
Asked(k) == call[k].pc \in {"opening", "done"}

\* Mutant: the state is looked up but not deleted
TakeStateKept(k) ==
  /\ Asked(k) /\ k \in ghStates
  /\ handler[k] = "none"
  /\ handler' = [handler EXCEPT ![k] = "exchanging"]
  /\ UNCHANGED <<secretSet, browser, flow, ghStates, stored, saves, restarts>>

\* The user authorises and GitHub redirects to githubOAuthCallback: the state
\* is looked up and deleted under ghMu.  A callback that reports a refusal, or
\* whose state is gone, only redirects: the flow stays pending
TakeState(k) ==
  /\ Asked(k) /\ k \in ghStates
  /\ handler[k] = "none"
  /\ ghStates' = ghStates \ {k}
  /\ handler' = [handler EXCEPT ![k] = "exchanging"]
  /\ UNCHANGED <<secretSet, browser, flow, stored, saves, restarts>>

CallbackFails(k) ==
  /\ handler[k] = "exchanging"
  /\ flow' = [status |-> "failed", purpose |-> call[k].purpose]
  /\ handler' = [handler EXCEPT ![k] = "none"]
  /\ UNCHANGED <<secretSet, browser, ghStates, stored, saves, restarts>>

\* Mutant: the purpose is read from the flow of the organisation
StoreUnderFlow(k) ==
  /\ stored' = stored \cup ({flow.purpose} \ {"none"})
  /\ saves' = [saves EXCEPT ![k] = @ + 1]

\* storeGitHubConn writes under the purpose of the call and ignores the
\* error of the database
Store(k) ==
  /\ \/ stored' = stored \cup {call[k].purpose}
     \/ stored' = stored
  /\ saves' = [saves EXCEPT ![k] = @ + 1]

CallbackStores(k) ==
  /\ handler[k] = "exchanging"
  /\ saves[k] < 2   \* bound on the history
  /\ Store(k)
  /\ handler' = [handler EXCEPT ![k] = "stored"]
  /\ UNCHANGED <<secretSet, browser, flow, ghStates, restarts>>

\* the callback replaces the flow of the organisation by its own
CallbackDone(k) ==
  /\ secretSet /\ handler[k] = "stored"
  /\ flow' = [status |-> "authorized", purpose |-> call[k].purpose]
  /\ handler' = [handler EXCEPT ![k] = "none"]
  /\ UNCHANGED <<secretSet, browser, ghStates, stored, saves, restarts>>

\* pollGitHubDevice: the user typed the code and GitHub answers with a token,
\* which is stored and then announced.  `set` writes into whatever flow the organisation has
SetFlow(st) == flow' = IF flow = NoFlow THEN flow ELSE [flow EXCEPT !.status = st]

DeviceStores(k) ==
  /\ handler[k] = "polling" /\ Asked(k)
  /\ Store(k)
  /\ handler' = [handler EXCEPT ![k] = "stored"]
  /\ UNCHANGED <<secretSet, browser, flow, ghStates, restarts>>

DeviceDone(k) ==
  /\ ~secretSet /\ handler[k] = "stored"
  /\ SetFlow("authorized")
  /\ handler' = [handler EXCEPT ![k] = "none"]
  /\ UNCHANGED <<secretSet, browser, ghStates, stored, saves, restarts>>

\* refused, an invalid token, an expired code or the deadline of the goroutine
DeviceFails(k) ==
  /\ handler[k] = "polling"
  /\ SetFlow("failed")
  /\ handler' = [handler EXCEPT ![k] = "none"]
  /\ UNCHANGED <<secretSet, browser, ghStates, stored, saves, restarts>>

\* flows, states and goroutines live in memory only
Restart ==
  /\ restarts < MaxRestarts
  /\ restarts' = restarts + 1
  /\ flow' = NoFlow
  /\ ghStates' = {}
  /\ handler' = [k \in Call |-> "none"]
  /\ UNCHANGED <<secretSet, browser, stored, saves>>

----------------------------------------------------------------------------
User ==
  \/ \E p \in Purpose : OpenModal(p)
  \/ \E i \in Instance : Mount(i)
  \/ CloseModal \/ Unmount
  \/ \E k \in Call : StartGithubDevice(k)

Page ==
  \/ \E k \in Call :
       \/ ReceiveUrl(k) \/ FallBackToDevice(k) \/ ReceiveCode(k)
       \/ StartFails(k) \/ PollGhStatus(k)
       \/ \E s \in Slots : Tick(k, s)
  \/ \E s \in Slots : ReceiveStatus(s)

Server ==
  \/ \E s \in Slots : GithubDeviceStatus(s) \/ StatusRefused(s) \/ StatusLost(s)
  \/ \E k \in Call :
       \/ PostFails(k) \/ GithubOAuthStart(k) \/ GithubDeviceStart(k)
       \/ StateExpires(k) \/ TakeState(k) \/ CallbackFails(k)
       \/ CallbackStores(k) \/ CallbackDone(k)
       \/ DeviceStores(k) \/ DeviceDone(k) \/ DeviceFails(k)
  \/ Restart

Next == User \/ Page \/ Server

Spec == Init /\ [][Next]_vars

(***************************************************************************)
(* Fairness: the event loop runs what is due, a started handler finishes,  *)
(* and the goroutine of a code ends at its deadline.  The user, and the    *)
(* success of a single request, are not fair: of infinitely many status    *)
(* requests one is answered, and the slots, which the code does not have,  *)
(* do not starve an interval (both SF).                                    *)
(***************************************************************************)
Fairness ==
  /\ WF_vars(\E k \in Call : ReceiveUrl(k) \/ FallBackToDevice(k)
                \/ ReceiveCode(k) \/ StartFails(k) \/ PollGhStatus(k))
  /\ WF_vars(\E k \in Call : DeviceStores(k) \/ DeviceDone(k) \/ DeviceFails(k))
  /\ \A k \in Call : SF_vars(\E s \in Slots : Tick(k, s))
  /\ WF_vars(\E s \in Slots : ReceiveStatus(s))
  /\ SF_vars(\E s \in Slots : GithubDeviceStatus(s))

FairSpec == Spec /\ Fairness

----------------------------------------------------------------------------
(* Properties.                                                             *)

\* An instance of the page never has two intervals asking for the status,
\* and the one it has is the one stopGhPoll would clear (ghPoll ref and
\* setInterval of pollGhStatus), however calls of startGithubDevice, closed
\* dialogs and late answers overlap.
OnePoll ==
  \A k \in timers : ref[call[k].inst] = k

\* A device code on the screen is being watched: the page polls, or is about
\* to once the browser opened.  A dialog can never be left with a code whose
\* fate nobody asks for, even when two calls of startGithubDevice overlap.
CodeIsPolled ==
  page.device =>
    \/ ref[page.inst] \in timers
    \/ \E k \in Call : call[k].inst = page.inst /\ call[k].pc = "opening"

\* A connection exists only for a purpose that was authorised at GitHub: with
\* several flows of one organisation under way, storeGitHubConn never files
\* one of them under the purpose of another.
StoredAsAsked ==
  \A p \in stored : \E k \in Call : call[k].purpose = p /\ saves[k] > 0

\* A web state or a device code yields one connection at most, whatever is
\* reloaded or retried (delete(a.ghStates, state); the goroutine returns).
StoredOnce == \A k \in Call : saves[k] <= 1

\* A device code shown to the user always comes to an end on the page: it is
\* authorised, refused or expired, and the page learns which - unless the
\* server restarted and forgot the flow.
CodeResolves == page.device ~> (~page.device \/ restarts > 0)
=============================================================================
