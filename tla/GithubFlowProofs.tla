-------------------------- MODULE GithubFlowProofs --------------------------
(***************************************************************************)
(* Proofs about GithubFlow, for any number of calls of startGithubDevice,  *)
(* of mounts of the page, of restarts and of status requests in flight.    *)
(***************************************************************************)
EXTENDS GithubFlow, TLAPS

-----------------------------------------------------------------------------
(* Type correctness.                                                       *)

CallRow == [pc : CallPc, inst : 0..MaxMounts, purpose : Purpose \cup {"none"}]
PageRow == [inst : 0..MaxMounts, modal : Purpose \cup {"none"},
            status : Status, device : BOOLEAN, starting : BOOLEAN]
FlowRow == [status : Status, purpose : Purpose \cup {"none"}]
ReqRow == [by : 0..MaxStarts, ans : Status \cup {"free", "waiting"}]

LEMMA Bounds ==
  /\ MaxStarts \in Nat /\ MaxMounts \in Nat /\ MaxRestarts \in Nat
  /\ Instance \subseteq 0..MaxMounts /\ Call \subseteq 0..MaxStarts
  /\ 0 \in 0..MaxMounts /\ 0 \in 0..MaxStarts /\ 1 \in Instance
  /\ 0 \notin Call /\ 0 \notin Instance
BY ConstAssumption DEF Instance, Call

LEMMA PageRows ==
  ASSUME NEW i \in 0..MaxMounts
  PROVE  FreshPage(i) \in PageRow /\ NoPage \in PageRow
BY Bounds DEF FreshPage, NoPage, PageRow, Status

LEMMA InitType == Init => TypeOK
<1> SUFFICES ASSUME Init PROVE TypeOK
  OBVIOUS
<1>1. page \in PageRow
  BY PageRows, Bounds DEF Init
<1>2. call \in [Call -> CallRow]
  BY Bounds DEF Init, CallRow, CallPc
<1>3. req \in [Slots -> ReqRow]
  BY Bounds DEF Init, NoReq, ReqRow
<1>4. flow \in [status : Status, purpose : Purpose \cup {"none"}]
  BY DEF Init, NoFlow, Status
<1> QED
  BY <1>1, <1>2, <1>3, <1>4, Bounds
  DEF Init, TypeOK, CallRow, PageRow, ReqRow

LEMMA StopType ==
  ASSUME TypeOK, NEW i, StopGhPoll(i)
  PROVE  timers' \in SUBSET Call /\ ref' \in [Instance -> 0..MaxStarts]
BY Bounds DEF StopGhPoll, TypeOK

LEMMA UserType ==
  ASSUME TypeOK, User
  PROVE  TypeOK'
<1>0. page \in PageRow /\ page.inst \in 0..MaxMounts
  BY DEF TypeOK, PageRow
<1>1. ASSUME NEW p \in Purpose, OpenModal(p) PROVE TypeOK'
  <2>1. page' \in PageRow
    BY <1>0, <1>1, PageRows DEF OpenModal, PageRow
  <2> QED
    BY StopType, <1>1, <2>1 DEF OpenModal, TypeOK, PageRow, server
<1>2. ASSUME NEW i \in Instance, Mount(i) PROVE TypeOK'
  <2>1. page' \in PageRow
    BY <1>2, PageRows, Bounds DEF Mount
  <2> QED
    BY <1>2, <2>1 DEF Mount, TypeOK, PageRow, server
<1>3. CASE CloseModal
  <2>1. page' \in PageRow
    BY <1>0, <1>3, PageRows DEF CloseModal
  <2> QED
    BY StopType, <1>3, <2>1 DEF CloseModal, TypeOK, PageRow, server
<1>4. CASE Unmount
  <2>1. page' \in PageRow
    BY <1>4, Bounds DEF Unmount, NoPage, PageRow, Status
  <2> QED
    BY StopType, <1>4, <2>1 DEF Unmount, TypeOK, PageRow, server
<1>5. ASSUME NEW k \in Call, StartGithubDevice(k) PROVE TypeOK'
  <2>1. page' \in PageRow
    BY <1>0, <1>5 DEF StartGithubDevice, PageRow, Status
  <2>2. PICK c \in CallRow : call' = [call EXCEPT ![k] = c]
    <3>1. [pc |-> "oauth", inst |-> page.inst, purpose |-> page.modal]
            \in CallRow
      BY <1>0 DEF CallRow, PageRow, CallPc
    <3> QED
      BY <1>5, <3>1 DEF StartGithubDevice
  <2>3. call' \in [Call -> CallRow]
    BY <2>2 DEF TypeOK, CallRow
  <2> QED
    BY <1>5, <2>1, <2>3 DEF StartGithubDevice, TypeOK, PageRow, CallRow, server
<1> QED
  BY <1>1, <1>2, <1>3, <1>4, <1>5 DEF User

\* A call moves on to another program counter.
LEMMA CallMoves ==
  ASSUME TypeOK, NEW k \in Call, NEW pc \in CallPc,
         call' = [call EXCEPT ![k].pc = pc]
  PROVE  call' \in [Call -> CallRow]
BY DEF TypeOK, CallRow

LEMMA PageType ==
  ASSUME TypeOK, Page
  PROVE  TypeOK'
<1>0. page \in PageRow /\ call \in [Call -> CallRow] /\ req \in [Slots -> ReqRow]
  BY DEF TypeOK, PageRow, CallRow, ReqRow
<1>1. ASSUME NEW k \in Call, ReceiveUrl(k) PROVE TypeOK'
  <2>1. page' \in PageRow
    BY <1>0, <1>1 DEF ReceiveUrl, PageOf, PageRow, Status
  <2>2. call' \in [Call -> CallRow]
    BY <1>1, CallMoves DEF ReceiveUrl, CallPc
  <2> QED
    BY <1>1, <2>1, <2>2 DEF ReceiveUrl, TypeOK, PageRow, CallRow, server
<1>2. ASSUME NEW k \in Call, FallBackToDevice(k) PROVE TypeOK'
  <2>1. call' \in [Call -> CallRow]
    BY <1>2, CallMoves DEF FallBackToDevice, CallPc
  <2> QED
    BY <1>2, <2>1 DEF FallBackToDevice, TypeOK, CallRow, server
<1>3. ASSUME NEW k \in Call, ReceiveCode(k) PROVE TypeOK'
  <2>1. page' \in PageRow
    BY <1>0, <1>3 DEF ReceiveCode, PageOf, PageRow, Status
  <2>2. call' \in [Call -> CallRow]
    BY <1>3, CallMoves DEF ReceiveCode, CallPc
  <2> QED
    BY <1>3, <2>1, <2>2 DEF ReceiveCode, TypeOK, PageRow, CallRow, server
<1>4. ASSUME NEW k \in Call, StartFails(k) PROVE TypeOK'
  <2>1. page' \in PageRow
    BY <1>0, <1>4 DEF StartFails, PageOf, PageRow
  <2>2. call' \in [Call -> CallRow]
    BY <1>4, CallMoves DEF StartFails, CallPc
  <2> QED
    BY <1>4, <2>1, <2>2 DEF StartFails, TypeOK, PageRow, CallRow, server
<1>5. ASSUME NEW k \in Call, PollGhStatus(k) PROVE TypeOK'
  <2>1. page' \in PageRow
    BY <1>0, <1>5 DEF PollGhStatus, PageOf, PageRow
  <2>2. call' \in [Call -> CallRow]
    BY <1>5, CallMoves DEF PollGhStatus, CallPc
  <2>3. timers' \in SUBSET Call /\ ref' \in [Instance -> 0..MaxStarts]
    BY <1>5, Bounds DEF PollGhStatus, TypeOK
  <2> QED
    BY <1>5, <2>1, <2>2, <2>3 DEF PollGhStatus, TypeOK, PageRow, CallRow, server
<1>6. ASSUME NEW k \in Call, NEW s \in Slots, Tick(k, s) PROVE TypeOK'
  <2>1. req' \in [Slots -> ReqRow]
    BY <1>0, <1>6, Bounds DEF Tick, ReqRow
  <2> QED
    BY <1>6, <2>1 DEF Tick, TypeOK, ReqRow, server
<1>7. ASSUME NEW s \in Slots, ReceiveStatus(s) PROVE TypeOK'
  <2>1. req' \in [Slots -> ReqRow]
    BY <1>0, <1>7, Bounds DEF ReceiveStatus, ReqRow, NoReq
  <2>2. timers' \in SUBSET Call /\ ref' \in [Instance -> 0..MaxStarts]
    <3>1. CASE UNCHANGED <<ref, timers>>
      BY <3>1 DEF TypeOK
    <3>2. CASE StopGhPoll(call[req[s].by].inst)
      BY <3>2, StopType
    <3> QED
      BY <1>7, <3>1, <3>2 DEF ReceiveStatus
  <2>3. page' \in PageRow
    <3>1. req[s].ans \in Status \cup {"free", "waiting"}
      BY <1>0 DEF ReqRow
    <3>2. PICK i : i = call[req[s].by].inst
      OBVIOUS
    <3>3. PICK new : /\ page' = IF Mounted(i) THEN new ELSE page
                     /\ \/ new = FreshPage(i)
                        \/ new = [page EXCEPT !.status = "failed", !.device = FALSE]
                        \/ /\ req[s].ans \in {"", "pending"}
                           /\ new = [page EXCEPT !.status = req[s].ans]
      BY <1>7, <3>2 DEF ReceiveStatus, PageOf
    <3>4. Mounted(i) => FreshPage(i) \in PageRow
      <4>1. page.inst \in 0..MaxMounts
        BY <1>0 DEF PageRow
      <4> QED
        BY <4>1, PageRows DEF Mounted
    <3>5. Mounted(i) => new \in PageRow
      BY <1>0, <3>3, <3>4 DEF PageRow, Status
    <3> QED
      BY <1>0, <3>3, <3>5
  <2> QED
    BY <1>7, <2>1, <2>2, <2>3 DEF ReceiveStatus, TypeOK, PageRow, ReqRow, server
<1> QED
  BY <1>1, <1>2, <1>3, <1>4, <1>5, <1>6, <1>7 DEF Page

\* A call that was made has the purpose of its dialog and the instance of its
\* page, and nothing works for a call that was not made.
CallsAreMade ==
  \A k \in Call :
    /\ call[k].pc # "unused" => call[k].inst \in Instance
                                /\ call[k].purpose \in Purpose
    /\ handler[k] # "none" \/ k \in ghStates => call[k].pc # "unused"

FlowInv == TypeOK /\ CallsAreMade

\* An action that neither moves a call nor starts or ends work for one.
ServerIdle == UNCHANGED <<call, ghStates, handler>>

LEMMA StoreType ==
  ASSUME FlowInv, NEW k \in Call, handler[k] # "none", Store(k)
  PROVE  stored' \in SUBSET Purpose /\ saves' \in [Call -> Nat]
<1>1. call[k].purpose \in Purpose
  BY DEF FlowInv, CallsAreMade
<1> QED
  BY <1>1 DEF FlowInv, TypeOK, Store

LEMMA ServerType ==
  ASSUME FlowInv, Server
  PROVE  TypeOK'
<1>0. TypeOK /\ req \in [Slots -> ReqRow] /\ call \in [Call -> CallRow]
  BY DEF FlowInv, TypeOK, ReqRow, CallRow
<1>1. ASSUME NEW k \in Call, NEW st \in Status
      PROVE  [status |-> st, purpose |-> call[k].purpose] \in FlowRow
  <2>1. PICK p : p = call[k].purpose
    OBVIOUS
  <2>2. p \in Purpose \cup {"none"}
    BY <1>0, <2>1 DEF CallRow
  <2> QED
    BY <2>1, <2>2 DEF FlowRow
<1>2. ASSUME NEW s \in Slots, GithubDeviceStatus(s) \/ StatusRefused(s)
      PROVE  TypeOK'
  <2>1. flow.status \in Status /\ "" \in Status
    BY <1>0 DEF TypeOK, Status
  <2>2. PICK a \in Status : req' = [req EXCEPT ![s].ans = a]
    BY <1>2, <2>1 DEF GithubDeviceStatus, StatusRefused
  <2>3. [req[s] EXCEPT !.ans = a] \in ReqRow
    BY <1>0, <2>2 DEF ReqRow
  <2>4. req' \in [Slots -> ReqRow]
    BY <1>0, <2>2, <2>3
  <2> QED
    BY <1>0, <1>2, <2>4
       DEF GithubDeviceStatus, StatusRefused, TypeOK, ReqRow, server
<1>3. ASSUME NEW s \in Slots, StatusLost(s) PROVE TypeOK'
  <2>1. req' \in [Slots -> ReqRow]
    BY <1>0, <1>3, Bounds DEF StatusLost, NoReq, ReqRow
  <2> QED
    BY <1>0, <1>3, <2>1 DEF StatusLost, TypeOK, ReqRow, server
<1>4. ASSUME NEW k \in Call, PostFails(k) PROVE TypeOK'
  <2>1. call' \in [Call -> CallRow]
    BY <1>0, <1>4, CallMoves DEF PostFails, CallPc
  <2> QED
    BY <1>0, <1>4, <2>1 DEF PostFails, TypeOK, CallRow, server
<1>5. ASSUME NEW k \in Call, GithubOAuthStart(k) PROVE TypeOK'
  <2>1. call' \in [Call -> CallRow]
    BY <1>0, <1>5, CallMoves DEF GithubOAuthStart, CallPc
  <2>2. flow' \in FlowRow
    BY <1>0, <1>1, <1>5 DEF GithubOAuthStart, TypeOK, FlowRow, Status
  <2>3. ghStates' \in SUBSET Call
    BY <1>0, <1>5 DEF GithubOAuthStart, TypeOK
  <2> QED
    BY <1>0, <1>5, <2>1, <2>2, <2>3 DEF GithubOAuthStart, TypeOK, FlowRow, CallRow
<1>6. ASSUME NEW k \in Call, GithubDeviceStart(k) PROVE TypeOK'
  <2>1. call' \in [Call -> CallRow]
    BY <1>0, <1>6, CallMoves DEF GithubDeviceStart, CallPc
  <2>2. flow' \in FlowRow
    BY <1>1, <1>6 DEF GithubDeviceStart, Status
  <2>3. handler' \in [Call -> {"none", "polling", "exchanging", "stored"}]
    BY <1>0, <1>6 DEF GithubDeviceStart, TypeOK
  <2> QED
    BY <1>0, <1>6, <2>1, <2>2, <2>3 DEF GithubDeviceStart, TypeOK, FlowRow, CallRow
<1>7. ASSUME NEW k \in Call, StateExpires(k) PROVE TypeOK'
  BY <1>0, <1>7 DEF StateExpires, TypeOK, browser
<1>8. ASSUME NEW k \in Call, TakeState(k) PROVE TypeOK'
  BY <1>0, <1>8 DEF TakeState, TypeOK, browser
<1>9. ASSUME NEW k \in Call, CallbackFails(k) \/ CallbackDone(k) PROVE TypeOK'
  <2>1. flow' \in FlowRow
    BY <1>1, <1>9 DEF CallbackFails, CallbackDone, Status
  <2> QED
    BY <1>0, <1>9, <2>1 DEF CallbackFails, CallbackDone, TypeOK, FlowRow, browser
<1>10. ASSUME NEW k \in Call, CallbackStores(k) \/ DeviceStores(k) PROVE TypeOK'
  <2>1. stored' \in SUBSET Purpose /\ saves' \in [Call -> Nat]
    BY <1>10, StoreType DEF CallbackStores, DeviceStores
  <2> QED
    BY <1>0, <1>10, <2>1 DEF CallbackStores, DeviceStores, TypeOK, browser
<1>11. ASSUME NEW k \in Call, DeviceDone(k) \/ DeviceFails(k) PROVE TypeOK'
  <2>1. flow' \in FlowRow
    BY <1>0, <1>11 DEF DeviceDone, DeviceFails, SetFlow, TypeOK, Status, FlowRow
  <2> QED
    BY <1>0, <1>11, <2>1 DEF DeviceDone, DeviceFails, TypeOK, FlowRow, browser
<1>12. CASE Restart
  <2>1. flow' \in FlowRow
    BY <1>12 DEF Restart, NoFlow, Status, FlowRow
  <2>2. restarts' \in 0..MaxRestarts
    BY <1>0, <1>12, Bounds DEF Restart, TypeOK
  <2> QED
    BY <1>0, <1>12, <2>1, <2>2 DEF Restart, TypeOK, FlowRow, browser
<1> QED
  BY <1>2, <1>3, <1>4, <1>5, <1>6, <1>7, <1>8, <1>9, <1>10, <1>11, <1>12 DEF Server

LEMMA CallsAreMadeNext ==
  ASSUME FlowInv, [Next]_vars
  PROVE  CallsAreMade'
<1>0. call \in [Call -> CallRow] /\ handler \in [Call -> {"none", "polling",
                                                  "exchanging", "stored"}]
  BY DEF FlowInv, TypeOK, CallRow
<1> SUFFICES ASSUME NEW j \in Call
             PROVE  /\ call'[j].pc # "unused" => call'[j].inst \in Instance
                                              /\ call'[j].purpose \in Purpose
                    /\ handler'[j] # "none" \/ j \in ghStates'
                         => call'[j].pc # "unused"
  BY DEF CallsAreMade
<1>1. /\ call[j].pc # "unused" => call[j].inst \in Instance
                                  /\ call[j].purpose \in Purpose
      /\ handler[j] # "none" \/ j \in ghStates => call[j].pc # "unused"
  BY DEF FlowInv, CallsAreMade
<1>2. CASE ServerIdle
  BY <1>1, <1>2 DEF ServerIdle
<1>3. ASSUME NEW k \in Call, StartGithubDevice(k) PROVE CallsAreMade'
  <2>1. page.inst \in Instance /\ page.modal \in Purpose
    BY <1>3, Bounds DEF FlowInv, TypeOK, StartGithubDevice, Instance
  <2> QED
    BY <1>0, <1>3, <2>1
    DEF FlowInv, CallsAreMade, StartGithubDevice, CallRow, server
<1>4. ASSUME NEW k \in Call,
             \/ ReceiveUrl(k) \/ FallBackToDevice(k) \/ ReceiveCode(k)
             \/ StartFails(k) \/ PollGhStatus(k) \/ PostFails(k)
      PROVE  CallsAreMade'
  <2>1. /\ UNCHANGED <<ghStates, handler>>
        /\ \E pc \in CallPc \ {"unused"} : call' = [call EXCEPT ![k].pc = pc]
        /\ call[k].pc # "unused"
    BY <1>4 DEF ReceiveUrl, FallBackToDevice, ReceiveCode, StartFails,
                PollGhStatus, PostFails, CallPc, server
  <2> QED
    BY <1>0, <2>1 DEF FlowInv, CallsAreMade, CallRow
<1>5. ASSUME NEW k \in Call, GithubOAuthStart(k) \/ GithubDeviceStart(k)
      PROVE  CallsAreMade'
  <2>1. \E pc \in CallPc \ {"unused"} : call' = [call EXCEPT ![k].pc = pc]
    BY <1>5 DEF GithubOAuthStart, GithubDeviceStart, CallPc
  <2>2. call[k].pc # "unused"
    BY <1>5 DEF GithubOAuthStart, GithubDeviceStart
  <2>3. \A i \in Call \ {k} : /\ handler'[i] = handler[i]
                              /\ i \in ghStates' <=> i \in ghStates
    BY <1>0, <1>5 DEF GithubOAuthStart, GithubDeviceStart
  <2> QED
    BY <1>0, <2>1, <2>2, <2>3 DEF FlowInv, CallsAreMade, CallRow
<1>6. ASSUME NEW k \in Call,
             \/ StateExpires(k) \/ TakeState(k) \/ CallbackFails(k)
             \/ CallbackStores(k) \/ CallbackDone(k) \/ DeviceStores(k)
             \/ DeviceDone(k) \/ DeviceFails(k)
      PROVE  CallsAreMade'
  <2>1. call' = call /\ ghStates' \subseteq ghStates
    BY <1>6 DEF StateExpires, TakeState, CallbackFails, CallbackStores,
         CallbackDone, DeviceStores, DeviceDone, DeviceFails, browser
  <2>2. \A i \in Call : handler'[i] # "none" =>
                          handler[i] # "none" \/ i \in ghStates
    BY <1>0, <1>6 DEF StateExpires, TakeState, CallbackFails, CallbackStores,
         CallbackDone, DeviceStores, DeviceDone, DeviceFails
  <2> QED
    BY <2>1, <2>2 DEF FlowInv, CallsAreMade
<1>7. CASE Restart
  BY <1>7 DEF FlowInv, CallsAreMade, Restart, browser
<1>8. ASSUME User PROVE ServerIdle \/ \E k \in Call : StartGithubDevice(k)
  BY <1>8 DEF User, OpenModal, CloseModal, Mount, Unmount, ServerIdle, server
<1>9. ASSUME NEW s \in Slots,
             \/ \E k \in Call : Tick(k, s)
             \/ ReceiveStatus(s) \/ GithubDeviceStatus(s)
             \/ StatusRefused(s) \/ StatusLost(s)
      PROVE  ServerIdle
  BY <1>9 DEF Tick, ReceiveStatus, GithubDeviceStatus, StatusRefused, StatusLost, ServerIdle, server
<1>10. CASE UNCHANGED vars
  BY <1>2, <1>10 DEF vars, ServerIdle
<1> QED
  BY <1>2, <1>3, <1>4, <1>5, <1>6, <1>7, <1>8, <1>9, <1>10
  DEF Next, Page, Server, CallsAreMade

LEMMA FlowInvHolds == Spec => []FlowInv
<1>1. Init => FlowInv
  BY InitType DEF FlowInv, CallsAreMade, Init
<1>2. FlowInv /\ [Next]_vars => FlowInv'
  <2> SUFFICES ASSUME FlowInv, [Next]_vars PROVE FlowInv'
    OBVIOUS
  <2>1. ASSUME UNCHANGED vars PROVE TypeOK'
    BY <2>1 DEF FlowInv, TypeOK, vars
  <2>2. TypeOK'
    BY <2>1, UserType, PageType, ServerType DEF Next, FlowInv
  <2> QED
    BY <2>2, CallsAreMadeNext DEF FlowInv
<1> QED
  BY <1>1, <1>2, PTL DEF Spec

\* Type correctness of the flow and of the page.
THEOREM GithubFlowTypeCorrect == Spec => []TypeOK
<1>1. FlowInv => TypeOK
  BY DEF FlowInv
<1> QED
  BY <1>1, FlowInvHolds, PTL

-----------------------------------------------------------------------------
(* The interval of the page.                                               *)

\* Intervals and status requests are those of calls that are done, and a ref
\* holds none but its own: stopGhPoll of one instance never clears the
\* interval of another.
PollInv ==
  /\ \A k \in timers : call[k].pc = "done"
  /\ \A i \in Instance : ref[i] # 0 => ref[i] \in Call /\ call[ref[i]].inst = i
                                       /\ call[ref[i]].pc = "done"
  /\ \A s \in Slots : req[s].ans # "free" => req[s].by \in Call
                                            /\ call[req[s].by].pc = "done"
  /\ OnePoll
  /\ page.device => page.inst \in Instance
  /\ CodeIsPolled

\* stopGhPoll, for whatever instance it is called.
LEMMA StopKeepsPolls ==
  ASSUME FlowInv, PollInv, NEW i \in Instance, StopGhPoll(i), call' = call,
         \A s \in Slots : req'[s] = req[s] \/ req'[s] = NoReq,
         \/ ~page'.device
         \/ page'.device = page.device /\ page'.inst = page.inst /\ i # page.inst
  PROVE  PollInv'
<1>0. /\ timers \subseteq Call /\ ref \in [Instance -> 0..MaxStarts]
      /\ \A k \in Call : call[k].pc = "done" => call[k].inst \in Instance
  BY DEF FlowInv, TypeOK, CallsAreMade
<1>1. timers' = timers \ {ref[i]} /\ ref' = [ref EXCEPT ![i] = 0]
  BY DEF StopGhPoll
<1>2. \A k \in timers' : k \in timers /\ call[k].inst # i
  BY <1>0, <1>1 DEF PollInv, OnePoll
<1>3. \A j \in Instance : j # i => ref'[j] = ref[j]
  BY <1>0, <1>1
<1>4. \A j \in Instance : ref'[j] # 0 => ref'[j] = ref[j]
  BY <1>0, <1>1
<1>5. OnePoll'
  BY <1>0, <1>2, <1>3 DEF PollInv, OnePoll
<1>6. CodeIsPolled'
  <2> SUFFICES ASSUME page'.device PROVE CodeIsPolled'
    BY DEF CodeIsPolled
  <2>1. page.device /\ page'.inst = page.inst /\ i # page.inst
    OBVIOUS
  <2>2. ref'[page.inst] = ref[page.inst]
    BY <1>3, <2>1 DEF PollInv
  <2>3. ASSUME ref[page.inst] \in timers PROVE ref[page.inst] \in timers'
    <3>1. page.inst \in Instance /\ ref[page.inst] # 0
      BY <1>0, <2>1, <2>3, Bounds DEF PollInv
    <3>2. ref[i] # ref[page.inst]
      BY <2>1, <3>1 DEF PollInv
    <3> QED
      BY <1>1, <2>3, <3>2
  <2> QED
    BY <2>1, <2>2, <2>3 DEF PollInv, CodeIsPolled
<1>7. \A s \in Slots : req'[s].ans # "free" => req'[s] = req[s]
  BY DEF NoReq
<1> QED
  BY <1>0, <1>2, <1>4, <1>5, <1>6, <1>7 DEF PollInv

\* An action that leaves the intervals, the ref and every call made by its page.
LEMMA QuietKeepsPolls ==
  ASSUME FlowInv, PollInv, UNCHANGED <<ref, timers>>,
         \A k \in Call : call[k].pc \in {"opening", "done"} => call'[k] = call[k],
         \A s \in Slots : \/ req'[s].ans # "free" => req'[s].by \in timers
                          \/ req'[s] = req[s]
                          \/ req'[s].by = req[s].by /\ req[s].ans # "free",
         \/ ~page'.device
         \/ page'.device = page.device /\ page'.inst = page.inst
         \/ /\ page'.inst = page.inst /\ page.inst \in Instance
            /\ \E k \in Call : call'[k].inst = page.inst /\ call'[k].pc = "opening"
  PROVE  PollInv'
<1>0. timers \subseteq Call
  BY DEF FlowInv, TypeOK
<1>1. \A k \in timers : call'[k] = call[k]
  BY <1>0 DEF PollInv
<1>2. OnePoll'
  BY <1>1 DEF PollInv, OnePoll
<1>3. CodeIsPolled'
  BY DEF PollInv, CodeIsPolled
<1>4. \A s \in Slots : req'[s].ans # "free" => req'[s].by \in Call
                                            /\ call'[req'[s].by].pc = "done"
  BY <1>0 DEF PollInv
<1>5. page'.device => page'.inst \in Instance
  BY DEF PollInv
<1>6. \A i \in Instance : ref[i] # 0 => call'[ref[i]] = call[ref[i]]
  BY DEF PollInv
<1> QED
  BY <1>1, <1>2, <1>3, <1>4, <1>5, <1>6 DEF PollInv

LEMMA OpensPoll ==
  ASSUME FlowInv, PollInv, NEW k \in Call, PollGhStatus(k)
  PROVE  PollInv'
<1> DEFINE i == call[k].inst
<1>0. /\ timers \subseteq Call /\ ref \in [Instance -> 0..MaxStarts]
      /\ call \in [Call -> CallRow] /\ i \in Instance
      /\ \A j \in Call : call[j].pc = "done" => call[j].inst \in Instance
  BY DEF FlowInv, TypeOK, CallsAreMade, PollGhStatus, CallRow
<1>1. /\ call[k].pc = "opening" /\ timers' = (timers \ {ref[i]}) \cup {k}
      /\ ref' = [ref EXCEPT ![i] = k] /\ req' = req
      /\ call' = [call EXCEPT ![k].pc = "done"]
  BY DEF PollGhStatus
<1>2. /\ \A j \in Call : call'[j].inst = call[j].inst
      /\ \A j \in Call : j # k => call'[j] = call[j]
      /\ call'[k].pc = "done"
  BY <1>0, <1>1 DEF CallRow
<1>3. page'.device = page.device /\ page'.inst = page.inst
  BY DEF PollGhStatus, PageOf, FlowInv, TypeOK
<1> HIDE DEF i
<1>4. \A j \in timers : j # k /\ (call[j].inst = i => j = ref[i])
  BY <1>0, <1>1 DEF PollInv, OnePoll
<1>5. ref'[i] = k /\ \A j \in Instance : j # i => ref'[j] = ref[j]
  BY <1>0, <1>1
<1>6. OnePoll'
  <2> SUFFICES ASSUME NEW j \in timers' PROVE ref'[call'[j].inst] = j
    BY DEF OnePoll
  <2>1. CASE j = k
    BY <1>2, <1>5, <2>1 DEF i
  <2>2. CASE j # k
    <3>1. j \in timers /\ j # ref[i]
      BY <1>1, <2>2
    <3>2. call[j].inst # i /\ call[j].inst \in Instance /\ call'[j] = call[j]
      BY <1>0, <1>2, <1>4, <2>2, <3>1 DEF PollInv
    <3> QED
      BY <1>5, <3>1, <3>2 DEF PollInv, OnePoll
  <2> QED
    BY <2>1, <2>2
<1>7. CodeIsPolled'
  <2> SUFFICES ASSUME page.device PROVE CodeIsPolled'
    BY <1>3 DEF CodeIsPolled
  <2>1. CASE page.inst = i
    BY <1>1, <1>3, <1>5, <2>1 DEF CodeIsPolled
  <2>2. CASE page.inst # i
    <3>1. page.inst \in Instance
      BY DEF PollInv
    <3>2. ASSUME ref[page.inst] \in timers PROVE ref'[page.inst] \in timers'
      <4>1. ref[page.inst] # 0
        BY <1>0, <3>2, Bounds
      <4>2. ref[page.inst] # ref[i]
        BY <1>0, <2>2, <3>1, <4>1 DEF PollInv
      <4> QED
        BY <1>1, <1>5, <2>2, <3>1, <3>2, <4>2
    <3>3. ASSUME NEW j \in Call, call[j].inst = page.inst, call[j].pc = "opening"
          PROVE  call'[j].inst = page'.inst /\ call'[j].pc = "opening"
      BY <1>2, <1>3, <2>2, <3>3 DEF i
    <3> QED
      BY <1>3, <3>2, <3>3 DEF PollInv, CodeIsPolled
  <2> QED
    BY <2>1, <2>2
<1>8. \A j \in Instance : ref'[j] # 0 => ref'[j] \in Call /\ call'[ref'[j]].inst = j
                                         /\ call'[ref'[j]].pc = "done"
  <2> SUFFICES ASSUME NEW j \in Instance, ref'[j] # 0
               PROVE  ref'[j] \in Call /\ call'[ref'[j]].inst = j
                      /\ call'[ref'[j]].pc = "done"
    OBVIOUS
  <2>1. CASE j = i
    BY <1>2, <1>5, <2>1 DEF i
  <2>2. CASE j # i
    BY <1>1, <1>2, <1>5, <2>2 DEF PollInv
  <2> QED
    BY <2>1, <2>2
<1>9. \A j \in timers' : call'[j].pc = "done"
  BY <1>0, <1>1, <1>2 DEF PollInv
<1>10. \A s \in Slots : req'[s].ans # "free" => req'[s].by \in Call
                                             /\ call'[req'[s].by].pc = "done"
  BY <1>1, <1>2 DEF PollInv
<1> QED
  BY <1>3, <1>6, <1>7, <1>8, <1>9, <1>10 DEF PollInv

LEMMA PollNextInv ==
  ASSUME FlowInv, PollInv, [Next]_vars
  PROVE  PollInv'
<1>0. /\ page.inst # 0 => page.inst \in Instance
      /\ call \in [Call -> CallRow] /\ req \in [Slots -> ReqRow]
      /\ page \in PageRow /\ timers \subseteq Call
  BY DEF FlowInv, TypeOK, Instance, CallRow, ReqRow, PageRow
<1>1. ASSUME NEW p \in Purpose, OpenModal(p) PROVE PollInv'
  <2>1. ~page'.device
    BY <1>1 DEF OpenModal, FreshPage, NoPage
  <2> QED
    BY <1>0, <1>1, <2>1, StopKeepsPolls DEF OpenModal
<1>2. CASE CloseModal
  <2>1. ~page'.device
    BY <1>2 DEF CloseModal, FreshPage, NoPage
  <2> QED
    BY <1>0, <1>2, <2>1, StopKeepsPolls DEF CloseModal
<1>3. CASE Unmount
  <2>1. ~page'.device
    BY <1>3 DEF Unmount, NoPage
  <2> QED
    BY <1>0, <1>3, <2>1, StopKeepsPolls DEF Unmount
<1>4. ASSUME NEW i \in Instance, Mount(i) PROVE PollInv'
  <2>1. ~page'.device
    BY <1>4 DEF Mount, FreshPage, NoPage
  <2> QED
    BY <1>4, <2>1, QuietKeepsPolls DEF Mount
<1>5. ASSUME NEW k \in Call, StartGithubDevice(k) PROVE PollInv'
  <2>1. ~page'.device
    BY <1>0, <1>5 DEF StartGithubDevice, PageRow
  <2>2. \A j \in Call : call[j].pc \in {"opening", "done"} => call'[j] = call[j]
    BY <1>0, <1>5 DEF StartGithubDevice
  <2> QED
    BY <1>5, <2>1, <2>2, QuietKeepsPolls DEF StartGithubDevice
<1>6. ASSUME NEW k \in Call,
             FallBackToDevice(k) \/ StartFails(k) \/ PostFails(k)
             \/ GithubOAuthStart(k) \/ GithubDeviceStart(k)
      PROVE  PollInv'
  <2>1. /\ UNCHANGED <<ref, timers, req>> /\ call[k].pc \notin {"opening", "done"}
        /\ \E pc \in CallPc : call' = [call EXCEPT ![k].pc = pc]
    BY <1>6 DEF FallBackToDevice, StartFails, PostFails, GithubOAuthStart,
                GithubDeviceStart, CallPc
  <2>2. page'.device = page.device /\ page'.inst = page.inst
    BY <1>0, <1>6 DEF FallBackToDevice, StartFails, PostFails, GithubOAuthStart,
                      GithubDeviceStart, PageOf, PageRow
  <2>3. \A j \in Call : call[j].pc \in {"opening", "done"} => call'[j] = call[j]
    BY <1>0, <2>1
  <2> QED
    BY <2>1, <2>2, <2>3, QuietKeepsPolls
<1>7. ASSUME NEW k \in Call, ReceiveUrl(k) \/ ReceiveCode(k) PROVE PollInv'
  <2>1. /\ UNCHANGED <<ref, timers, req>> /\ call[k].pc \notin {"opening", "done"}
        /\ call' = [call EXCEPT ![k].pc = "opening"]
    BY <1>7 DEF ReceiveUrl, ReceiveCode
  <2>2. \A j \in Call : call[j].pc \in {"opening", "done"} => call'[j] = call[j]
    BY <1>0, <2>1
  <2>3. call'[k].inst = call[k].inst /\ call'[k].pc = "opening"
    BY <1>0, <2>1 DEF CallRow
  <2>4. CASE Mounted(call[k].inst)
    BY <1>0, <1>7, <2>1, <2>2, <2>3, <2>4, QuietKeepsPolls
    DEF ReceiveUrl, ReceiveCode, PageOf, PageRow, Mounted
  <2>5. CASE ~Mounted(call[k].inst)
    BY <1>7, <2>1, <2>2, <2>5, QuietKeepsPolls DEF ReceiveUrl, ReceiveCode, PageOf
  <2> QED
    BY <2>4, <2>5
<1>8. ASSUME NEW k \in Call, NEW s \in Slots, Tick(k, s) PROVE PollInv'
  <2>1. UNCHANGED <<ref, timers, call, page>> /\ k \in timers
        /\ req' = [req EXCEPT ![s] = [by |-> k, ans |-> "waiting"]]
    BY <1>8 DEF Tick
  <2>2. \A z \in Slots : req'[z].by \in timers \/ req'[z] = req[z]
    BY <1>0, <2>1
  <2> QED
    BY <2>1, <2>2, QuietKeepsPolls
<1>9. ASSUME NEW s \in Slots,
             GithubDeviceStatus(s) \/ StatusRefused(s) \/ StatusLost(s)
      PROVE  PollInv'
  <2>1. UNCHANGED <<ref, timers, call, page>>
    BY <1>9 DEF GithubDeviceStatus, StatusRefused, StatusLost
  <2>2. \A z \in Slots : \/ req'[z].ans = "free" \/ req'[z] = req[z]
                         \/ req'[z].by = req[z].by /\ req[z].ans # "free"
    <3>1. req[s] \in ReqRow /\ req[s].ans # "free"
      BY <1>0, <1>9 DEF GithubDeviceStatus, StatusRefused, StatusLost
    <3>2. \A z \in Slots \ {s} : req'[z] = req[z]
      BY <1>0, <1>9 DEF GithubDeviceStatus, StatusRefused, StatusLost
    <3>3. req'[s] = NoReq \/ req'[s].by = req[s].by
      BY <1>0, <1>9, <3>1 DEF GithubDeviceStatus, StatusRefused, StatusLost, ReqRow
    <3> QED
      BY <3>1, <3>2, <3>3 DEF NoReq
  <2> QED
    BY <2>1, <2>2, QuietKeepsPolls
<1>10. ASSUME NEW s \in Slots, ReceiveStatus(s) PROVE PollInv'
  <2>1. \A z \in Slots : req'[z] = req[z] \/ req'[z] = NoReq
    BY <1>0, <1>10 DEF ReceiveStatus
  <2>2. PICK k : k = req[s].by
    OBVIOUS
  <2>3. PICK i \in Instance : i = call[k].inst
    BY <1>10, <2>2 DEF ReceiveStatus, PollInv, FlowInv, CallsAreMade
  <2>4. call' = call
    BY <1>10 DEF ReceiveStatus
  <2>5. CASE req[s].ans \in {"authorized", "failed"}
    <3>1. StopGhPoll(i)
      BY <1>10, <2>2, <2>3, <2>5 DEF ReceiveStatus
    <3>2. PICK new : /\ page' = IF Mounted(i) THEN new ELSE page
                     /\ \/ new = FreshPage(i)
                        \/ new = [page EXCEPT !.status = req[s].ans,
                                              !.device = FALSE]
      BY <1>10, <2>2, <2>3, <2>5 DEF ReceiveStatus, PageOf
    <3>3. ~new.device
      BY <1>0, <3>2 DEF FreshPage, NoPage, PageRow
    <3>4. i # 0 /\ (~page'.device \/ (page' = page /\ i # page.inst))
      BY <2>3, <3>2, <3>3, Bounds DEF Mounted
    <3> QED
      BY <2>1, <2>3, <2>4, <3>1, <3>4, StopKeepsPolls
  <2>6. CASE req[s].ans \in {"", "pending"}
    <3>1. page'.device = page.device /\ page'.inst = page.inst
      BY <1>0, <1>10, <2>6 DEF ReceiveStatus, PageOf, PageRow
    <3>2. \A z \in Slots : req'[z].ans = "free" \/ req'[z] = req[z]
      BY <2>1 DEF NoReq
    <3>3. UNCHANGED <<ref, timers>>
      BY <1>10, <2>6 DEF ReceiveStatus
    <3> QED
      BY <2>4, <3>1, <3>2, <3>3, QuietKeepsPolls
  <2>7. req[s].ans \in {"authorized", "failed", "", "pending"}
    BY <1>10 DEF ReceiveStatus
  <2> QED
    BY <2>5, <2>6, <2>7
<1>11. ASSUME UNCHANGED browser PROVE PollInv'
  BY <1>11, QuietKeepsPolls DEF browser
<1>12. ASSUME NEW k \in Call,
              \/ StateExpires(k) \/ TakeState(k) \/ CallbackFails(k)
              \/ CallbackStores(k) \/ CallbackDone(k) \/ DeviceStores(k)
              \/ DeviceDone(k) \/ DeviceFails(k)
       PROVE  UNCHANGED browser
  BY <1>12 DEF StateExpires, TakeState, CallbackFails, CallbackStores,
               CallbackDone, DeviceStores, DeviceDone, DeviceFails
<1>13. CASE Restart
  BY <1>11, <1>13 DEF Restart
<1>14. CASE UNCHANGED vars
  BY <1>11, <1>14 DEF vars, browser
<1>15. CASE User
  BY <1>1, <1>2, <1>3, <1>4, <1>5, <1>15 DEF User
<1>16. CASE Page
  BY <1>6, <1>7, <1>8, <1>10, <1>16, OpensPoll DEF Page
<1>17. CASE Server
  BY <1>6, <1>9, <1>11, <1>12, <1>13, <1>17 DEF Server
<1> QED
  BY <1>14, <1>15, <1>16, <1>17 DEF Next

LEMMA PollInvHolds == Spec => []PollInv
<1>1. ASSUME Init PROVE PollInv
  <2>1. ~page.device
    BY <1>1 DEF Init, FreshPage, NoPage
  <2>2. timers = {} /\ \A i \in Instance : ref[i] = 0
    BY <1>1 DEF Init
  <2>3. \A s \in Slots : req[s].ans = "free"
    BY <1>1 DEF Init, NoReq
  <2> QED
    BY <2>1, <2>2, <2>3 DEF PollInv, OnePoll, CodeIsPolled
<1>2. FlowInv /\ PollInv /\ [Next]_vars => PollInv'
  BY PollNextInv
<1> QED
  BY <1>1, <1>2, FlowInvHolds, PTL DEF Spec

\* No instance of the page ever has two intervals asking for the status.
THEOREM GithubFlowOnePoll == Spec => []OnePoll
<1>1. PollInv => OnePoll
  BY DEF PollInv
<1> QED
  BY <1>1, PollInvHolds, PTL

\* A device code on the screen is watched, or about to be.
THEOREM GithubFlowCodeIsPolled == Spec => []CodeIsPolled
<1>1. PollInv => CodeIsPolled
  BY DEF PollInv
<1> QED
  BY <1>1, PollInvHolds, PTL

-----------------------------------------------------------------------------
(* The connections that are stored.                                        *)

\* Whatever may still have a connection stored for call k has not yet: a web
\* state that is accepted, a callback under way, a goroutine that polls, and
\* before all of them a call the server has not started a flow for.
SaveInv ==
  /\ \A k \in Call :
       /\ k \in ghStates => handler[k] = "none"
       /\ call[k].pc \in {"unused", "oauth", "not_configured", "device"} =>
            handler[k] = "none" /\ k \notin ghStates /\ saves[k] = 0
       /\ k \in ghStates \/ handler[k] \in {"polling", "exchanging"} =>
            saves[k] = 0
  /\ StoredOnce
  /\ StoredAsAsked

LEMMA StoreOnce ==
  ASSUME FlowInv, SaveInv, NEW k \in Call,
         handler[k] \in {"polling", "exchanging"}, Store(k), call' = call,
         ghStates' = ghStates, handler' = [handler EXCEPT ![k] = "stored"]
  PROVE  SaveInv'
<1>0. /\ saves \in [Call -> Nat] /\ saves[k] = 0 /\ k \notin ghStates
      /\ handler \in [Call -> {"none", "polling", "exchanging", "stored"}]
      /\ call[k].pc \notin {"unused", "oauth", "not_configured", "device"}
  BY DEF FlowInv, TypeOK, SaveInv
<1>1. saves'[k] = 1 /\ \A j \in Call : j # k => saves'[j] = saves[j]
  BY <1>0 DEF Store
<1>2. StoredOnce'
  BY <1>1 DEF SaveInv, StoredOnce
<1>3. StoredAsAsked'
  <2> SUFFICES ASSUME NEW p \in stored'
               PROVE  \E j \in Call : call[j].purpose = p /\ saves'[j] > 0
    BY DEF StoredAsAsked
  <2>1. CASE p \in stored
    <3>1. PICK j \in Call : call[j].purpose = p /\ saves[j] > 0
      BY <2>1 DEF SaveInv, StoredAsAsked
    <3> QED
      BY <1>1, <3>1
  <2>2. CASE p = call[k].purpose
    BY <1>1, <2>2
  <2> QED
    BY <2>1, <2>2 DEF Store
<1>4. ASSUME NEW j \in Call
      PROVE  /\ j \in ghStates => handler'[j] = "none"
             /\ call[j].pc \in {"unused", "oauth", "not_configured", "device"} =>
                  handler'[j] = "none" /\ j \notin ghStates /\ saves'[j] = 0
             /\ j \in ghStates \/ handler'[j] \in {"polling", "exchanging"} =>
                  saves'[j] = 0
  <2>1. CASE j = k
    BY <1>0, <2>1
  <2>2. CASE j # k
    BY <1>0, <1>1, <2>2 DEF SaveInv
  <2> QED
    BY <2>1, <2>2
<1> QED
  BY <1>2, <1>3, <1>4 DEF SaveInv

\* A call keeps its purpose once the server may store something for it.
LEMMA KeepsSaves ==
  ASSUME FlowInv, SaveInv, UNCHANGED <<stored, saves>>,
         \A k \in Call : saves[k] > 0 => call'[k].purpose = call[k].purpose,
         \A k \in Call :
           /\ k \in ghStates' => handler'[k] = "none"
           /\ call'[k].pc \in {"unused", "oauth", "not_configured", "device"} =>
                handler'[k] = "none" /\ k \notin ghStates' /\ saves[k] = 0
           /\ k \in ghStates' \/ handler'[k] \in {"polling", "exchanging"} =>
                saves[k] = 0
  PROVE  SaveInv'
<1>1. StoredOnce'
  BY DEF SaveInv, StoredOnce
<1>2. StoredAsAsked'
  <2> SUFFICES ASSUME NEW p \in stored
               PROVE  \E j \in Call : call'[j].purpose = p /\ saves[j] > 0
    BY DEF StoredAsAsked
  <2> QED
    BY DEF SaveInv, StoredAsAsked
<1> QED
  BY <1>1, <1>2 DEF SaveInv

LEMMA SaveNextInv ==
  ASSUME FlowInv, SaveInv, [Next]_vars
  PROVE  SaveInv'
<1>0. /\ call \in [Call -> CallRow] /\ ghStates \subseteq Call
      /\ handler \in [Call -> {"none", "polling", "exchanging", "stored"}]
      /\ saves \in [Call -> Nat]
  BY DEF FlowInv, TypeOK, CallRow
<1> DEFINE Early == {"unused", "oauth", "not_configured", "device"}
<1>1. CASE UNCHANGED <<call, ghStates, handler, stored, saves>>
  BY <1>1, KeepsSaves DEF SaveInv
<1>2. ASSUME NEW k \in Call, StartGithubDevice(k) PROVE SaveInv'
  <2>1. /\ UNCHANGED <<ghStates, handler, stored, saves>> /\ call[k].pc = "unused"
        /\ \A j \in Call : j # k => call'[j] = call[j]
    BY <1>0, <1>2 DEF StartGithubDevice, server
  <2>2. saves[k] = 0 /\ handler[k] = "none" /\ k \notin ghStates
    BY <2>1 DEF SaveInv
  <2> QED
    BY <1>0, <2>1, <2>2, KeepsSaves DEF SaveInv
<1>3. ASSUME NEW k \in Call,
             \/ ReceiveUrl(k) \/ FallBackToDevice(k) \/ ReceiveCode(k)
             \/ StartFails(k) \/ PollGhStatus(k) \/ PostFails(k)
      PROVE  SaveInv'
  <2>1. UNCHANGED <<ghStates, handler, stored, saves>>
    BY <1>3 DEF ReceiveUrl, FallBackToDevice, ReceiveCode, StartFails,
                PollGhStatus, PostFails, server
  <2>2. PICK pc \in CallPc : /\ call' = [call EXCEPT ![k].pc = pc]
                             /\ pc \in Early => call[k].pc \in Early
    BY <1>3 DEF ReceiveUrl, FallBackToDevice, ReceiveCode, StartFails,
                PollGhStatus, PostFails, CallPc
  <2>3. \A j \in Call : /\ call'[j].purpose = call[j].purpose
                        /\ call'[j].pc \in Early => call[j].pc \in Early
    BY <1>0, <2>2 DEF CallRow
  <2> QED
    BY <2>1, <2>3, KeepsSaves DEF SaveInv
<1>4. ASSUME NEW k \in Call, GithubOAuthStart(k) \/ GithubDeviceStart(k)
      PROVE  SaveInv'
  <2>1. UNCHANGED <<stored, saves>> /\ saves[k] = 0 /\ handler[k] = "none"
        /\ k \notin ghStates
    BY <1>4 DEF GithubOAuthStart, GithubDeviceStart, SaveInv
  <2>2. /\ \A j \in Call : call'[j].purpose = call[j].purpose
        /\ \A j \in Call \ {k} : call'[j] = call[j]
    BY <1>0, <1>4 DEF GithubOAuthStart, GithubDeviceStart, CallRow
  <2>3. \A j \in Call \ {k} : /\ handler'[j] = handler[j]
                              /\ j \in ghStates' <=> j \in ghStates
    BY <1>0, <1>4 DEF GithubOAuthStart, GithubDeviceStart
  <2>4. /\ k \in ghStates' => handler'[k] = "none"
        /\ call'[k].pc \in Early => handler'[k] = "none" /\ k \notin ghStates'
    BY <1>0, <1>4, <2>1 DEF GithubOAuthStart, GithubDeviceStart, CallRow
  <2>5. ASSUME NEW j \in Call
        PROVE  /\ j \in ghStates' => handler'[j] = "none"
               /\ call'[j].pc \in Early =>
                    handler'[j] = "none" /\ j \notin ghStates' /\ saves[j] = 0
               /\ j \in ghStates' \/ handler'[j] \in {"polling", "exchanging"} =>
                    saves[j] = 0
    BY <2>1, <2>2, <2>3, <2>4 DEF SaveInv
  <2> QED
    BY <2>1, <2>2, <2>5, KeepsSaves
<1>5. ASSUME NEW k \in Call, StateExpires(k) PROVE SaveInv'
  BY <1>5, KeepsSaves DEF StateExpires, SaveInv, browser
<1>6. ASSUME NEW k \in Call, TakeState(k) PROVE SaveInv'
  <2>1. /\ call' = call /\ ghStates' = ghStates \ {k} /\ k \in ghStates
        /\ handler' = [handler EXCEPT ![k] = "exchanging"]
        /\ UNCHANGED <<stored, saves>>
    BY <1>6 DEF TakeState, browser
  <2>2. saves[k] = 0 /\ call[k].pc \notin Early
    BY <2>1 DEF SaveInv
  <2> QED
    BY <1>0, <2>1, <2>2, KeepsSaves DEF SaveInv
<1>7. ASSUME NEW k \in Call, CallbackFails(k) \/ CallbackDone(k)
                             \/ DeviceDone(k) \/ DeviceFails(k)
      PROVE  SaveInv'
  <2>1. /\ handler' = [handler EXCEPT ![k] = "none"]
        /\ UNCHANGED <<call, ghStates, stored, saves>>
    BY <1>7 DEF CallbackFails, CallbackDone, DeviceDone, DeviceFails, browser
  <2> QED
    BY <1>0, <2>1, KeepsSaves DEF SaveInv
<1>8. ASSUME NEW k \in Call, CallbackStores(k) \/ DeviceStores(k) PROVE SaveInv'
  BY <1>8, StoreOnce DEF CallbackStores, DeviceStores, browser
<1>9. CASE Restart
  BY <1>9, KeepsSaves DEF Restart, SaveInv, browser
<1>10. CASE User
  <2>1. UNCHANGED <<call, ghStates, handler, stored, saves>>
          \/ \E k \in Call : StartGithubDevice(k)
    BY <1>10 DEF User, OpenModal, CloseModal, Mount, Unmount, server
  <2> QED
    BY <1>1, <1>2, <2>1
<1>11. ASSUME NEW s \in Slots,
              \/ \E k \in Call : Tick(k, s)
              \/ ReceiveStatus(s) \/ GithubDeviceStatus(s)
             \/ StatusRefused(s) \/ StatusLost(s)
       PROVE  UNCHANGED <<call, ghStates, handler, stored, saves>>
  BY <1>11 DEF Tick, ReceiveStatus, GithubDeviceStatus, StatusRefused, StatusLost, server
<1>12. CASE Page
  BY <1>1, <1>3, <1>11, <1>12 DEF Page
<1>13. CASE Server
  BY <1>1, <1>3, <1>4, <1>5, <1>6, <1>7, <1>8, <1>9, <1>11, <1>13 DEF Server
<1>14. CASE UNCHANGED vars
  BY <1>1, <1>14 DEF vars
<1> QED
  BY <1>10, <1>12, <1>13, <1>14 DEF Next

LEMMA SaveInvHolds == Spec => []SaveInv
<1>1. Init => SaveInv
  BY DEF Init, SaveInv, StoredOnce, StoredAsAsked
<1>2. FlowInv /\ SaveInv /\ [Next]_vars => SaveInv'
  BY SaveNextInv
<1> QED
  BY <1>1, <1>2, FlowInvHolds, PTL DEF Spec

\* A web state or a device code yields one connection at most.
THEOREM GithubFlowStoredOnce == Spec => []StoredOnce
<1>1. SaveInv => StoredOnce
  BY DEF SaveInv
<1> QED
  BY <1>1, SaveInvHolds, PTL

\* What is stored was authorised for that purpose.
THEOREM GithubFlowStoredAsAsked == Spec => []StoredAsAsked
<1>1. SaveInv => StoredAsAsked
  BY DEF SaveInv
<1> QED
  BY <1>1, SaveInvHolds, PTL
=============================================================================
