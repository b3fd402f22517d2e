--------------------------- MODULE ServicesProofs ---------------------------
(***************************************************************************)
(* Proofs about Services: for any number of streams, callers of Send,      *)
(* routines, requests, plans, secrets and clients, and channels of any     *)
(* capacity.                                                               *)
(***************************************************************************)
EXTENDS Services, TLAPS

----------------------------------------------------------------------------
(* The push hub.                                                           *)

\* A stream nobody has registered has an open channel that is not registered,
\* and once the process stays down there is no stream at all.
HubInv ==
  /\ HubTypeOK
  /\ ClosedOnce
  /\ \A s \in Stream : handler[s] = "none" => Open(s) /\ byOrg # s
  /\ falls = MaxFalls => /\ \A s \in Stream : handler[s] = "none"
                         /\ \A p \in Pusher : push[p] = NoStream
                         /\ byOrg = NoStream

LEMMA HubInitInv == HubInit => HubInv
<1> SUFFICES ASSUME HubInit PROVE HubInv
  OBVIOUS
<1>1. Fresh \in [len : 0..Cap, closed : 0..2] /\ Fresh.closed = 0
  BY HubAssumption DEF Fresh
<1> QED
  BY <1>1, HubAssumption DEF HubInit, HubInv, HubTypeOK, ClosedOnce, Open

\* The process starts anew, once more.
LEMMA PanicInv ==
  ASSUME HubInv, Panic, falls < MaxFalls
  PROVE  HubInv'
<1>1. Fresh \in [len : 0..Cap, closed : 0..2] /\ Fresh.closed = 0
  BY HubAssumption DEF Fresh
<1>2. falls' \in 0..MaxFalls
  BY HubAssumption DEF HubInv, HubTypeOK, Panic
<1> QED
  BY <1>1, <1>2, HubAssumption DEF Panic, HubInv, HubTypeOK, ClosedOnce, Open

\* A channel is read or written, and stays as it is otherwise.
LEMMA LenInv ==
  ASSUME HubInv, NEW s \in Stream, NEW n \in 0..Cap,
         chan' = [chan EXCEPT ![s].len = n]
  PROVE  /\ chan' \in [Stream -> [len : 0..Cap, closed : 0..2]]
         /\ \A x \in Stream : chan'[x].closed = chan[x].closed
<1>1. chan \in [Stream -> [len : 0..Cap, closed : 0..2]]
  BY DEF HubInv, HubTypeOK
<1> QED
  BY <1>1

LEMMA CloseInv ==
  ASSUME HubInv, NEW s \in Stream, Open(s), chan' = Close(s)
  PROVE  /\ chan' \in [Stream -> [len : 0..Cap, closed : 0..2]]
         /\ chan'[s].closed = 1
         /\ \A x \in Stream \ {s} : chan'[x] = chan[x]
<1>1. chan \in [Stream -> [len : 0..Cap, closed : 0..2]]
  BY DEF HubInv, HubTypeOK
<1>2. chan' = [chan EXCEPT ![s].closed = 1]
  BY <1>1 DEF Close, Open
<1> QED
  BY <1>1, <1>2

LEMMA RegisterInv ==
  ASSUME HubInv, NEW s \in Stream, Register(s)
  PROVE  HubInv'
<1>1. /\ chan \in [Stream -> [len : 0..Cap, closed : 0..2]]
      /\ handler \in [Stream -> {"none", "recv", "sending", "ended"}]
      /\ byOrg \in Stream \cup {NoStream} /\ falls \in 0..MaxFalls
  BY DEF HubInv, HubTypeOK
<1>2. Open(s) /\ byOrg # s /\ handler[s] = "none"
  BY DEF HubInv, Register
<1>3. /\ chan' \in [Stream -> [len : 0..Cap, closed : 0..2]]
      /\ \A x \in Stream : chan'[x].closed <= 1
      /\ \A x \in Stream \ {byOrg} : chan'[x] = chan[x]
  <2>1. CASE byOrg = NoStream
    BY <1>1, <2>1 DEF Register, HubInv, ClosedOnce
  <2>2. CASE byOrg # NoStream
    <3>1. byOrg \in Stream /\ Open(byOrg) /\ chan' = Close(byOrg)
      BY <1>1, <2>2 DEF Register, HubInv, ClosedOnce
    <3> QED
      BY <3>1, CloseInv DEF HubInv, ClosedOnce
  <2> QED
    BY <2>1, <2>2
<1>4. HubTypeOK'
  BY <1>1, <1>3 DEF HubInv, HubTypeOK, Register
<1>5. byOrg' = s /\ chan'[s].closed = 0
  BY <1>2, <1>3 DEF Register, Open
<1>6. ClosedOnce'
  BY <1>3, <1>5 DEF ClosedOnce, Open
<1>7. \A x \in Stream : handler'[x] = "none" =>
        x # s /\ x # byOrg /\ chan'[x].closed = 0
  <2> TAKE x \in Stream
  <2> HAVE handler'[x] = "none"
  <2>1. x # s /\ handler[x] = "none"
    BY <1>1 DEF Register
  <2>2. Open(x) /\ byOrg # x
    BY <2>1 DEF HubInv
  <2> QED
    BY <2>1, <2>2, <1>3 DEF Open
<1>8. falls' # MaxFalls
  BY <1>1, HubAssumption DEF Register
<1> QED
  BY <1>4, <1>5, <1>6, <1>7, <1>8 DEF HubInv, Open

\* Steps that close no channel and register none.
LEMMA QuietInv ==
  ASSUME HubInv, HubTypeOK',
         \A x \in Stream : chan'[x].closed = chan[x].closed,
         \A x \in Stream : handler'[x] = "none" <=> handler[x] = "none",
         UNCHANGED <<byOrg, falls>>,
         falls = MaxFalls => \A p \in Pusher : push'[p] = NoStream
  PROVE  HubInv'
BY DEF HubInv, ClosedOnce, Open, HubTypeOK

LEMMA LeaveInv ==
  ASSUME HubInv, NEW s \in Stream, Leave(s)
  PROVE  HubInv'
<1>1. /\ chan \in [Stream -> [len : 0..Cap, closed : 0..2]]
      /\ handler \in [Stream -> {"none", "recv", "sending", "ended"}]
      /\ byOrg \in Stream \cup {NoStream} /\ falls \in 0..MaxFalls
  BY DEF HubInv, HubTypeOK
<1>2. /\ handler' \in [Stream -> {"none", "recv", "sending", "ended"}]
      /\ \A x \in Stream : handler'[x] = "none" => handler[x] = "none" /\ x # s
  BY <1>1 DEF Leave
<1>3. falls' # MaxFalls /\ falls' = falls
  BY <1>1 DEF Leave, HubInv
<1>4. CASE byOrg = s
  <2>1. Open(s) /\ chan' = Close(s) /\ byOrg' = NoStream
    BY <1>1, <1>4, HubAssumption DEF HubInv, ClosedOnce, Leave, Unregister
  <2>2. /\ chan' \in [Stream -> [len : 0..Cap, closed : 0..2]]
        /\ chan'[s].closed = 1
        /\ \A x \in Stream \ {s} : chan'[x] = chan[x]
    BY <2>1, CloseInv
  <2>3. HubTypeOK'
    BY <1>2, <1>3, <2>1, <2>2 DEF HubInv, HubTypeOK, Leave
  <2>4. ClosedOnce'
    BY <2>1, <2>2 DEF HubInv, ClosedOnce
  <2>5. \A x \in Stream : handler'[x] = "none" =>
          chan'[x].closed = 0 /\ byOrg' # x
    BY <1>2, <2>1, <2>2, HubAssumption DEF HubInv, Open
  <2> QED
    BY <1>3, <2>3, <2>4, <2>5 DEF HubInv, Open
<1>5. CASE byOrg # s
  <2>1. byOrg' = byOrg /\ chan' = chan
    BY <1>5 DEF Leave, Unregister
  <2>2. HubTypeOK'
    BY <1>2, <1>3, <2>1 DEF HubInv, HubTypeOK, Leave
  <2> QED
    BY <1>2, <1>3, <2>1, <2>2 DEF HubInv, ClosedOnce, Open
<1> QED
  BY <1>4, <1>5

LEMMA HubNextInv ==
  ASSUME HubInv, HubNext
  PROVE  HubInv'
<1>1. /\ chan \in [Stream -> [len : 0..Cap, closed : 0..2]]
      /\ handler \in [Stream -> {"none", "recv", "sending", "ended"}]
      /\ writer \in [Stream -> {"none", "running", "stopped"}]
      /\ push \in [Pusher -> Stream \cup {NoStream}]
      /\ byOrg \in Stream \cup {NoStream} /\ falls \in 0..MaxFalls
      /\ alive \in SUBSET Stream
      /\ Cap \in Nat \ {0} /\ NoStream \notin Stream
  BY HubAssumption DEF HubInv, HubTypeOK
<1>2. ASSUME NEW s \in Stream, Register(s) PROVE HubInv'
  BY <1>2, RegisterInv
<1>3. ASSUME NEW s \in Stream, Receive(s) PROVE HubInv'
  <2>1. HubTypeOK'
    BY <1>1, <1>3 DEF Receive, HubInv, HubTypeOK
  <2> QED
    BY <1>1, <1>3, <2>1, QuietInv DEF Receive, HubInv
<1>4. ASSUME NEW s \in Stream, Answer(s) PROVE HubInv'
  <2>1. chan[s].len + 1 \in 0..Cap /\ chan' = [chan EXCEPT ![s].len = chan[s].len + 1]
    BY <1>1, <1>4 DEF Answer, HasRoom, Put
  <2>2. /\ chan' \in [Stream -> [len : 0..Cap, closed : 0..2]]
        /\ \A x \in Stream : chan'[x].closed = chan[x].closed
    BY <2>1, LenInv
  <2>3. HubTypeOK'
    BY <1>1, <1>4, <2>2 DEF Answer, HubInv, HubTypeOK
  <2> QED
    BY <1>1, <1>4, <2>2, <2>3, QuietInv DEF Answer, HubInv
<1>5. ASSUME NEW s \in Stream, AnswerPanics(s) PROVE HubInv'
  <2>1. falls < MaxFalls
    BY <1>1, <1>5, HubAssumption DEF AnswerPanics, HubInv
  <2> QED
    BY <1>5, <2>1, PanicInv DEF AnswerPanics
<1>6. ASSUME NEW s \in Stream, Leave(s) PROVE HubInv'
  BY <1>6, LeaveInv
<1>7. ASSUME NEW s \in Stream, Write(s) PROVE HubInv'
  <2>1. chan[s].len - 1 \in 0..Cap /\ chan' = [chan EXCEPT ![s].len = chan[s].len - 1]
    BY <1>1, <1>7 DEF Write
  <2>2. /\ chan' \in [Stream -> [len : 0..Cap, closed : 0..2]]
        /\ \A x \in Stream : chan'[x].closed = chan[x].closed
    BY <2>1, LenInv
  <2>3. HubTypeOK'
    BY <1>1, <1>7, <2>2 DEF Write, HubInv, HubTypeOK
  <2> QED
    BY <1>1, <1>7, <2>2, <2>3, QuietInv DEF Write, HubInv
<1>8. ASSUME NEW s \in Stream, WriterEnds(s) PROVE HubInv'
  <2>1. HubTypeOK'
    BY <1>1, <1>8 DEF WriterEnds, HubInv, HubTypeOK
  <2> QED
    BY <1>1, <1>8, <2>1, QuietInv DEF WriterEnds, HubInv
<1>9. ASSUME NEW s \in Stream, Disconnect(s) PROVE HubInv'
  <2>1. HubTypeOK'
    BY <1>1, <1>9 DEF Disconnect, HubInv, HubTypeOK
  <2> QED
    BY <1>1, <1>9, <2>1, QuietInv DEF Disconnect, HubInv
<1>10. ASSUME NEW p \in Pusher, Look(p) PROVE HubInv'
  <2>1. HubTypeOK'
    BY <1>1, <1>10 DEF Look, HubInv, HubTypeOK
  <2>2. falls # MaxFalls
    BY <1>10 DEF Look, HubInv
  <2> QED
    BY <1>1, <1>10, <2>1, <2>2, QuietInv DEF Look
<1>11. ASSUME NEW p \in Pusher, Deliver(p) PROVE HubInv'
  <2>1. push[p] \in Stream
    BY <1>1, <1>11 DEF Deliver
  <2>2. /\ chan' \in [Stream -> [len : 0..Cap, closed : 0..2]]
        /\ \A x \in Stream : chan'[x].closed = chan[x].closed
    <3>1. CASE HasRoom(push[p])
      <4>1. /\ chan[push[p]].len + 1 \in 0..Cap
            /\ chan' = [chan EXCEPT ![push[p]].len = chan[push[p]].len + 1]
        BY <1>1, <1>11, <2>1, <3>1 DEF Deliver, HasRoom, Put
      <4> QED
        BY <2>1, <4>1, LenInv
    <3>2. CASE ~HasRoom(push[p])
      BY <1>1, <1>11, <3>2 DEF Deliver
    <3> QED
      BY <3>1, <3>2
  <2>3. HubTypeOK'
    BY <1>1, <1>11, <2>2 DEF Deliver, HubInv, HubTypeOK
  <2>4. falls # MaxFalls
    BY <1>1, <1>11 DEF Deliver, HubInv
  <2> QED
    BY <1>1, <1>11, <2>2, <2>3, <2>4, QuietInv DEF Deliver
<1>12. ASSUME NEW p \in Pusher, DeliverPanics(p) PROVE HubInv'
  <2>1. falls < MaxFalls
    BY <1>1, <1>12, HubAssumption DEF DeliverPanics, HubInv
  <2>2. CASE Panic
    BY <2>1, <2>2, PanicInv
  <2>3. CASE /\ push' = [push EXCEPT ![p] = NoStream]
             /\ UNCHANGED <<byOrg, chan, handler, writer, alive, falls>>
    <3>1. HubTypeOK'
      BY <1>1, <2>3 DEF HubInv, HubTypeOK
    <3> QED
      BY <1>1, <2>1, <2>3, <3>1, QuietInv
  <2> QED
    BY <1>12, <2>2, <2>3 DEF DeliverPanics
<1> QED
  BY <1>2, <1>3, <1>4, <1>5, <1>6, <1>7, <1>8, <1>9, <1>10, <1>11, <1>12
  DEF HubNext

----------------------------------------------------------------------------
(* The scheduler of routines.                                              *)

\* A firing that is still to come: the routine is in the list, or its next run
\* has come up and the next list will hold it.
Pending(r) == r \in due \/ (routine[r].next = "past" /\ at # r)

\* Every firing, past or to come, has a turn or a lost mark of its own.
RoutinesInv ==
  /\ RoutinesTypeOK
  /\ \A r \in Routine : routine[r].next \in {"ahead", "past"} => routine[r].there
  /\ OncePerTurn
  /\ \A r \in Routine : Pending(r) => fired[r] + 1 <= turns[r] + misses

LEMMA RoutinesInitInv == RoutinesInit => RoutinesInv
<1> SUFFICES ASSUME RoutinesInit PROVE RoutinesInv
  OBVIOUS
<1>1. NoRow \in [there : BOOLEAN, schedule : BOOLEAN, on : BOOLEAN,
                 next : {"null", "ahead", "past", "gone"}]
  BY DEF NoRow
<1>2. \A r \in Routine : routine[r].next = "null"
  BY DEF RoutinesInit, NoRow
<1> QED
  BY <1>1, <1>2, RoutinesAssumption
  DEF RoutinesInit, RoutinesInv, RoutinesTypeOK, OncePerTurn, Pending

RoutineRow == [there : BOOLEAN, schedule : BOOLEAN, on : BOOLEAN,
               next : {"null", "ahead", "past", "gone"}]

\* A row is written and its next run is not in the past.
LEMMA RowInv ==
  ASSUME RoutinesInv, NEW r \in Routine, NEW v \in RoutineRow, v.next # "past",
         v.next = "ahead" => v.there,
         routine' = [routine EXCEPT ![r] = v],
         UNCHANGED <<due, at, turns, fired, misses>>
  PROVE  RoutinesInv'
<1>1. routine \in [Routine -> RoutineRow]
  BY DEF RoutinesInv, RoutinesTypeOK, RoutineRow
<1>2. routine' \in [Routine -> RoutineRow] /\ routine'[r].next # "past"
      /\ \A x \in Routine \ {r} : routine'[x] = routine[x]
  BY <1>1
<1>3. RoutinesTypeOK'
  BY <1>2 DEF RoutinesInv, RoutinesTypeOK, RoutineRow
<1>4. OncePerTurn'
  BY DEF RoutinesInv, OncePerTurn
<1>5. \A x \in Routine : Pending(x)' => Pending(x)
  BY <1>2 DEF Pending
<1>6. \A x \in Routine : routine'[x].next \in {"ahead", "past"} => routine'[x].there
  BY <1>1, <1>2 DEF RoutinesInv
<1> QED
  BY <1>3, <1>4, <1>5, <1>6 DEF RoutinesInv

LEMMA RoutinesNextInv ==
  ASSUME RoutinesInv, RoutinesNext
  PROVE  RoutinesInv'
<1>1. /\ routine \in [Routine -> RoutineRow]
      /\ due \in SUBSET Routine /\ at \in Routine \cup {NoRoutine}
      /\ turns \in [Routine -> 0..MaxTurns] /\ fired \in [Routine -> Nat]
      /\ misses \in 0..MaxMisses /\ misses \in Nat
      /\ NoRoutine \notin Routine /\ MaxTurns \in Nat /\ MaxMisses \in Nat
  BY RoutinesAssumption DEF RoutinesInv, RoutinesTypeOK, RoutineRow
<1>1a. \A x \in Routine : turns[x] \in Nat /\ fired[x] \in Nat
  BY <1>1
<1>2. ASSUME NEW r \in Routine, NEW s \in BOOLEAN, CreateRoutine(r, s)
      PROVE  RoutinesInv'
  <2>1. NewRow(s) \in RoutineRow /\ NewRow(s).next # "past" /\ NewRow(s).there
    BY DEF NewRow, RoutineRow
  <2> QED
    BY <1>2, <2>1, RowInv DEF CreateRoutine
<1>3. ASSUME NEW r \in Routine, NEW on \in BOOLEAN, SetRoutineEnabled(r, on)
      PROVE  RoutinesInv'
  <2>1. PICK n \in NextRun(r, on) :
          routine' = [routine EXCEPT ![r].on = on, ![r].next = n]
    BY <1>3 DEF SetRoutineEnabled
  <2>2. n \in {"null", "ahead"}
    BY <2>1 DEF NextRun
  <2> DEFINE v == [routine[r] EXCEPT !.on = on, !.next = n]
  <2>3. v \in RoutineRow /\ v.next # "past" /\ v.there
    <3>1. routine[r] \in RoutineRow /\ routine[r].there
      BY <1>1, <1>3 DEF SetRoutineEnabled
    <3>2. v \in RoutineRow
      BY <2>2, <3>1 DEF RoutineRow
    <3>3. v.next = n /\ v.there = routine[r].there
      BY <3>1 DEF RoutineRow
    <3> QED
      BY <2>2, <3>1, <3>2, <3>3
  <2>4. routine' = [routine EXCEPT ![r] = v]
    BY <1>1, <2>1
  <2> HIDE DEF v
  <2> QED
    BY <1>3, <2>3, <2>4, RowInv DEF SetRoutineEnabled
<1>4. ASSUME NEW r \in Routine, DeleteRoutine(r) PROVE RoutinesInv'
  <2> DEFINE v == [NoRow EXCEPT !.next = "gone"]
  <2>1. v \in RoutineRow /\ v.next = "gone"
    BY DEF NoRow, RoutineRow
  <2>2. routine' = [routine EXCEPT ![r] = v]
    BY <1>4 DEF DeleteRoutine
  <2> HIDE DEF v
  <2> QED
    BY <1>4, <2>1, <2>2, RowInv DEF DeleteRoutine
<1>5. ASSUME NEW r \in Routine, ComesUp(r) PROVE RoutinesInv'
  <2>1. /\ routine' = [routine EXCEPT ![r].next = "past"]
        /\ turns' = [turns EXCEPT ![r] = turns[r] + 1]
        /\ turns[r] + 1 \in 0..MaxTurns
        /\ UNCHANGED <<due, at, fired, misses>>
    BY <1>1, <1>5 DEF ComesUp
  <2>2. /\ routine' \in [Routine -> RoutineRow]
        /\ turns' \in [Routine -> 0..MaxTurns]
        /\ turns'[r] = turns[r] + 1
        /\ \A x \in Routine \ {r} : routine'[x] = routine[x] /\ turns'[x] = turns[x]
    BY <1>1, <2>1 DEF RoutineRow
  <2>3. RoutinesTypeOK'
    BY <2>1, <2>2 DEF RoutinesInv, RoutinesTypeOK, RoutineRow
  <2>4. fired[r] + 1 <= turns'[r] + misses
    BY <1>1, <1>1a, <2>2 DEF RoutinesInv, OncePerTurn
  <2>5. OncePerTurn'
    BY <1>1, <1>1a, <2>1, <2>2, <2>4 DEF RoutinesInv, OncePerTurn
  <2>6. \A x \in Routine : Pending(x)' => fired[x] + 1 <= turns'[x] + misses
    BY <2>1, <2>2, <2>4 DEF RoutinesInv, Pending
  <2>7. routine'[r].there
    BY <1>1, <2>1, <1>5 DEF ComesUp, RoutinesInv, RoutineRow
  <2> QED
    BY <2>1, <2>2, <2>3, <2>5, <2>6, <2>7 DEF RoutinesInv
<1>6. CASE DueRoutines
  <2>1. RoutinesTypeOK'
    BY <1>1, <1>6 DEF DueRoutines, RoutinesInv, RoutinesTypeOK
  <2>2. \A r \in Routine : Pending(r)' => Pending(r)
    BY <1>1, <1>6 DEF DueRoutines, IsDue, Pending
  <2> QED
    BY <1>6, <2>1, <2>2 DEF DueRoutines, RoutinesInv, OncePerTurn
<1>7. ASSUME NEW r \in Routine, NEW ok \in BOOLEAN, FireRoutine(r, ok)
      PROVE  RoutinesInv'
  <2>1. /\ r \in due /\ at = NoRoutine /\ due' = due \ {r} /\ at' = r
        /\ UNCHANGED <<routine, turns, misses>>
    BY <1>7 DEF FireRoutine
  <2>2. /\ fired' \in [Routine -> Nat] /\ fired'[r] <= fired[r] + 1
        /\ \A x \in Routine \ {r} : fired'[x] = fired[x]
    BY <1>1, <1>1a, <1>7 DEF FireRoutine
  <2>3. RoutinesTypeOK'
    BY <1>1, <2>1, <2>2 DEF RoutinesInv, RoutinesTypeOK
  <2>4. fired'[r] <= turns[r] + misses
    BY <1>1, <1>1a, <2>1, <2>2 DEF RoutinesInv, Pending
  <2>5. OncePerTurn'
    BY <2>1, <2>2, <2>4 DEF RoutinesInv, OncePerTurn
  <2>6. \A x \in Routine : Pending(x)' => x # r /\ Pending(x)
    BY <1>1, <2>1 DEF Pending
  <2> QED
    BY <2>1, <2>2, <2>3, <2>5, <2>6 DEF RoutinesInv
<1>8. CASE MarkRoutineRan
  <2>1. at \in Routine /\ at' = NoRoutine /\ UNCHANGED <<due, turns, fired, misses>>
    BY <1>1, <1>8 DEF MarkRoutineRan
  <2>2. /\ routine' \in [Routine -> RoutineRow]
        /\ routine'[at].next # "past"
        /\ routine'[at].there = routine[at].there
        /\ routine'[at].next = "ahead" => routine[at].there
        /\ \A x \in Routine \ {at} : routine'[x] = routine[x]
    BY <1>1, <1>8, <2>1 DEF MarkRoutineRan, Mark, RoutineRow, RoutinesInv
  <2>3. RoutinesTypeOK'
    BY <2>1, <2>2 DEF RoutinesInv, RoutinesTypeOK, RoutineRow
  <2>4. \A x \in Routine : Pending(x)' => Pending(x)
    BY <2>1, <2>2 DEF Pending
  <2>5. \A x \in Routine : routine'[x].next \in {"ahead", "past"} => routine'[x].there
    BY <2>1, <2>2 DEF RoutinesInv
  <2> QED
    BY <2>1, <2>3, <2>4, <2>5 DEF RoutinesInv, OncePerTurn
<1>9. CASE MarkFails \/ Restart
  <2>1. /\ misses' = misses + 1 /\ misses + 1 \in 0..MaxMisses
        /\ at' = NoRoutine /\ due' \in SUBSET due
        /\ UNCHANGED <<routine, turns, fired>>
    BY <1>1, <1>9 DEF MarkFails, Restart
  <2>2. RoutinesTypeOK'
    BY <1>1, <2>1 DEF RoutinesInv, RoutinesTypeOK
  <2>3. \A x \in Routine : fired[x] + 1 <= turns[x] + misses'
    BY <1>1, <1>1a, <2>1 DEF RoutinesInv, OncePerTurn
  <2>4. OncePerTurn'
    BY <1>1, <1>1a, <2>1, <2>3 DEF OncePerTurn
  <2> QED
    BY <2>1, <2>2, <2>3, <2>4 DEF RoutinesInv
<1> QED
  BY <1>2, <1>3, <1>4, <1>5, <1>6, <1>7, <1>8, <1>9 DEF RoutinesNext

----------------------------------------------------------------------------
(* The vault.                                                              *)

ClientRow == [pc : {"idle", "load", "truncate", "write", "register"},
              name : Name, value : Secret \cup {NoSecret}, store : Stores]

\* The copy a request is about to save: its own change, and for the names that
\* are neither at risk nor missed what should be there.
Carried(c) ==
  /\ client[c].store[client[c].name] = client[c].value
  /\ \A n \in Name \ (risked \cup missed[c] \cup {client[c].name}) :
       client[c].store[n] = kept[n]

\* What is saved next is right as far as the file promises, whoever saves it.
VaultInv ==
  /\ VaultTypeOK
  /\ SecretsKept
  /\ \A c \in Saving : Carried(c)

LEMMA NoClientRow == NoClient \in ClientRow /\ NoClient.pc = "idle"
BY VaultAssumption DEF NoClient, ClientRow, Stores, Empty

LEMMA VaultInitInv == VaultInit => VaultInv
<1> SUFFICES ASSUME VaultInit PROVE VaultInv
  OBVIOUS
<1>1. Blank \in [st : {"blank", "torn", "whole"}, secrets : Stores]
      /\ Blank.secrets = Empty /\ Empty \in Stores
  BY DEF Blank, Empty, Stores
<1>2. Saving = {}
  BY NoClientRow DEF Saving, VaultInit
<1>3. client \in [Client -> ClientRow]
  BY NoClientRow DEF VaultInit
<1>4. served \in 0..MaxPuts /\ stops \in 0..MaxStops
  BY VaultAssumption DEF VaultInit
<1>5. VaultTypeOK
  <2>1. file \in [st : {"blank", "torn", "whole"}, secrets : Stores]
    BY <1>1 DEF VaultInit
  <2>2. kept \in Stores /\ refs \in SUBSET Name
    BY <1>1 DEF VaultInit
  <2>3. missed \in [Client -> SUBSET Name] /\ risked \in SUBSET Name
    BY DEF VaultInit
  <2> QED
    BY <1>3, <1>4, <2>1, <2>2, <2>3 DEF VaultTypeOK, ClientRow
<1>6. file.secrets = kept
  BY <1>1 DEF VaultInit
<1> QED
  BY <1>2, <1>5, <1>6 DEF VaultInv, SecretsKept

\* A step of one request, at the file or not.
LEMMA ClientStep ==
  ASSUME VaultInv, NEW c \in Client, NEW v \in ClientRow,
         client' = [client EXCEPT ![c] = v]
  PROVE  /\ client' \in [Client -> ClientRow]
         /\ client'[c] = v
         /\ \A x \in Client \ {c} : client'[x] = client[x]
         /\ Saving' = IF v.pc \in {"truncate", "write"} THEN Saving \cup {c}
                      ELSE Saving \ {c}
<1>1. client \in [Client -> ClientRow]
  BY DEF VaultInv, VaultTypeOK, ClientRow
<1>2. /\ client' \in [Client -> ClientRow] /\ client'[c] = v
      /\ \A x \in Client \ {c} : client'[x] = client[x]
  BY <1>1
<1> QED
  BY <1>2 DEF Saving

\* A step of a request that is not about to write, before or after it, and that
\* leaves the file and the promises alone.
LEMMA ClientApartInv ==
  ASSUME VaultInv, NEW c \in Client, NEW v \in ClientRow, client[c].pc # "write",
         v.pc \notin {"truncate", "write"},
         client' = [client EXCEPT ![c] = v],
         served' \in 0..MaxPuts, refs' \in SUBSET Name,
         missed' = missed \/ missed' = [missed EXCEPT ![c] = {}],
         UNCHANGED <<file, stops, kept, risked>>
  PROVE  VaultInv'
<1>1. /\ client' \in [Client -> ClientRow] /\ Saving' = Saving \ {c}
      /\ \A x \in Client \ {c} : client'[x] = client[x]
      /\ client'[c] = v
  BY ClientStep
<1>2. missed' \in [Client -> SUBSET Name]
      /\ \A x \in Client \ {c} : missed'[x] = missed[x]
  BY DEF VaultInv, VaultTypeOK
<1>3. VaultTypeOK'
  BY <1>1, <1>2 DEF VaultInv, VaultTypeOK, ClientRow
<1>4. Truncated' <=> Truncated
  BY <1>1 DEF Truncated
<1>5. SecretsKept'
  BY <1>4 DEF VaultInv, SecretsKept
<1>6. ASSUME NEW x \in Saving' PROVE Carried(x)'
  <2>1. x \in Saving /\ client'[x] = client[x] /\ missed'[x] = missed[x]
    BY <1>1, <1>2, <1>6 DEF Saving
  <2> QED
    BY <2>1 DEF VaultInv, Carried
<1> QED
  BY <1>3, <1>5, <1>6 DEF VaultInv

\* A row of a client with some of its fields replaced is a row.
LEMMA ClientField ==
  ASSUME NEW w \in ClientRow,
         NEW p \in {"idle", "load", "truncate", "write", "register"}
  PROVE  /\ [w EXCEPT !.pc = p] \in ClientRow
         /\ \A s \in Stores : [w EXCEPT !.pc = p, !.store = s] \in ClientRow
         /\ \A n \in Name, v \in Secret \cup {NoSecret} :
              [w EXCEPT !.pc = p, !.name = n, !.value = v] \in ClientRow
BY DEF ClientRow

LEMMA ChangeInv ==
  ASSUME VaultInv, NEW c \in Client, Change(c)
  PROVE  VaultInv'
<1>1. /\ client \in [Client -> ClientRow] /\ file.secrets \in Stores
      /\ client[c].name \in Name /\ client[c].value \in Secret \cup {NoSecret}
      /\ missed \in [Client -> SUBSET Name]
  BY DEF VaultInv, VaultTypeOK, ClientRow
<1>2. PICK readable \in BOOLEAN :
        /\ client' = [client EXCEPT ![c].pc = "truncate",
                                    ![c].store = [Load(readable) EXCEPT
                                      ![client[c].name] = client[c].value]]
        /\ missed' = [missed EXCEPT ![c] = IF readable /\ ~Truncated THEN {}
                                           ELSE Name]
  BY DEF Change
<1> DEFINE s == [Load(readable) EXCEPT ![client[c].name] = client[c].value]
           v == [client[c] EXCEPT !.pc = "truncate", !.store = s]
<1>3. Load(readable) \in Stores
  BY <1>1 DEF Load, Stores, Empty
<1>4. s \in Stores /\ s[client[c].name] = client[c].value
      /\ \A n \in Name \ {client[c].name} : s[n] = Load(readable)[n]
  BY <1>1, <1>3 DEF Stores
<1> HIDE DEF s
<1>5. v \in ClientRow
  BY <1>1, <1>4, ClientField
<1>6. v.pc = "truncate" /\ v.store = s /\ v.name = client[c].name
      /\ v.value = client[c].value
  BY <1>1 DEF ClientRow
<1>7. client' = [client EXCEPT ![c] = v]
  BY <1>1, <1>2 DEF s
<1> HIDE DEF v
<1>8. /\ client' \in [Client -> ClientRow] /\ client'[c] = v
      /\ Saving' = Saving \cup {c}
      /\ \A x \in Client \ {c} : client'[x] = client[x]
  BY <1>5, <1>6, <1>7, ClientStep
<1>9. /\ UNCHANGED <<file, refs, served, stops, kept, risked>>
      /\ client[c].pc = "load"
  BY DEF Change
<1>10. /\ missed' \in [Client -> SUBSET Name]
       /\ missed'[c] = IF readable /\ ~Truncated THEN {} ELSE Name
       /\ \A x \in Client \ {c} : missed'[x] = missed[x]
  BY <1>1, <1>2
<1>11. VaultTypeOK'
  BY <1>8, <1>9, <1>10 DEF VaultInv, VaultTypeOK, ClientRow
<1>12. Truncated' <=> Truncated
  BY <1>6, <1>8, <1>9 DEF Truncated
<1>13. SecretsKept'
  BY <1>9, <1>12 DEF VaultInv, SecretsKept
<1>14. Carried(c)'
  <2>1. ASSUME NEW n \in Name \ (risked \cup missed'[c] \cup {client[c].name})
        PROVE  s[n] = kept[n]
    <3>1. readable /\ ~Truncated
      BY <1>10, <2>1
    <3>2. file.secrets[n] = kept[n]
      BY <3>1, <2>1 DEF VaultInv, SecretsKept
    <3> QED
      BY <1>4, <2>1, <3>1, <3>2 DEF Load
  <2> QED
    BY <1>4, <1>6, <1>8, <1>9, <2>1 DEF Carried
<1>15. ASSUME NEW x \in Saving, x # c PROVE Carried(x)'
  <2>1. client'[x] = client[x] /\ missed'[x] = missed[x]
    BY <1>8, <1>10, <1>15 DEF Saving
  <2> QED
    BY <1>9, <1>15, <2>1 DEF VaultInv, Carried
<1> QED
  BY <1>8, <1>11, <1>13, <1>14, <1>15 DEF VaultInv

LEMMA TruncateInv ==
  ASSUME VaultInv, NEW c \in Client, Truncate(c)
  PROVE  VaultInv'
<1>1. client \in [Client -> ClientRow] /\ c \in Saving
  BY DEF VaultInv, VaultTypeOK, ClientRow, Truncate, Saving
<1> DEFINE v == [client[c] EXCEPT !.pc = "write"]
<1>2. v \in ClientRow
  BY <1>1, ClientField
<1>3. v.pc = "write" /\ v.store = client[c].store /\ v.name = client[c].name
      /\ v.value = client[c].value
  BY <1>1 DEF ClientRow
<1>4. client' = [client EXCEPT ![c] = v]
  BY <1>1 DEF Truncate
<1> HIDE DEF v
<1>5. /\ client' \in [Client -> ClientRow] /\ client'[c] = v
      /\ \A x \in Client \ {c} : client'[x] = client[x]
      /\ Saving' = Saving
  <2>1. /\ client' \in [Client -> ClientRow] /\ client'[c] = v
        /\ \A x \in Client \ {c} : client'[x] = client[x]
        /\ Saving' = Saving \cup {c}
    BY <1>2, <1>3, <1>4, ClientStep
  <2>2. Saving \cup {c} = Saving
    BY <1>1
  <2> QED
    BY <2>1, <2>2
<1>6. /\ UNCHANGED <<refs, served, stops, kept, missed, risked>>
      /\ file' = Blank
      /\ Blank \in [st : {"blank", "torn", "whole"}, secrets : Stores]
  BY DEF Truncate, Blank, Empty, Stores
<1>7. VaultTypeOK'
  BY <1>5, <1>6 DEF VaultInv, VaultTypeOK, ClientRow
<1>8. SecretsKept'
  BY <1>3, <1>5 DEF SecretsKept, Truncated
<1>9. ASSUME NEW x \in Saving PROVE Carried(x)'
  <2>1. /\ client'[x].store = client[x].store /\ client'[x].name = client[x].name
        /\ client'[x].value = client[x].value
    BY <1>3, <1>5, <1>9 DEF Saving
  <2> QED
    BY <1>6, <1>9, <2>1 DEF VaultInv, Carried
<1> QED
  BY <1>5, <1>7, <1>8, <1>9 DEF VaultInv

\* A save that ends, whether it was written or not: the request saves no longer.
LEMMA SaveEnds ==
  ASSUME VaultInv, NEW c \in Client, WriteStore(c) \/ WriteFails(c)
  PROVE  /\ client' \in [Client -> ClientRow] /\ Saving' = Saving \ {c}
         /\ \A x \in Client \ {c} : client'[x] = client[x]
<1>1. client \in [Client -> ClientRow]
  BY DEF VaultInv, VaultTypeOK, ClientRow
<1>2. PICK v \in ClientRow : /\ v.pc \notin {"truncate", "write"}
                            /\ client' = [client EXCEPT ![c] = v]
  <2> DEFINE w == [client[c] EXCEPT !.pc = "register"]
  <2>0. w.pc = "register"
    BY <1>1 DEF ClientRow
  <2>1. w \in ClientRow /\ w.pc = "register"
    BY <1>1, <2>0, ClientField
  <2>2. \/ client' = [client EXCEPT ![c] = w]
        \/ client' = [client EXCEPT ![c] = NoClient]
    BY <1>1 DEF WriteStore, WriteFails
  <2> HIDE DEF w
  <2> QED
    BY <2>1, <2>2, NoClientRow
<1> QED
  BY <1>2, ClientStep

LEMMA WriteStoreInv ==
  ASSUME VaultInv, NEW c \in Client, WriteStore(c)
  PROVE  VaultInv'
<1>1. /\ client \in [Client -> ClientRow] /\ c \in Saving
      /\ kept \in Stores /\ file.st \in {"blank", "torn", "whole"}
      /\ client[c].store \in Stores
      /\ missed \in [Client -> SUBSET Name] /\ risked \in SUBSET Name
  BY DEF VaultInv, VaultTypeOK, ClientRow, WriteStore, Saving
<1>2. PICK m \in Name : m = client[c].name
  BY <1>1 DEF ClientRow
<1>3. PICK w \in Secret \cup {NoSecret} : w = client[c].value
  BY <1>1 DEF ClientRow
<1>4. /\ client' \in [Client -> ClientRow] /\ Saving' = Saving \ {c}
      /\ \A x \in Client \ {c} : client'[x] = client[x]
  BY SaveEnds
<1>5. /\ kept' = [kept EXCEPT ![m] = w]
      /\ file' \in {Whole(client[c].store)}
                   \cup (IF file.st = "blank" THEN {} ELSE {Torn})
      /\ missed' = [d \in Client |-> IF d \in Saving \ {c}
                                    THEN missed[d] \cup {m} ELSE {}]
      /\ risked' = IF file'.st = "torn" THEN Name ELSE (risked \cup missed[c]) \ {m}
      /\ UNCHANGED <<refs, served, stops>>
  BY <1>2, <1>3 DEF WriteStore
<1>6. /\ kept' \in Stores /\ kept'[m] = w
      /\ \A n \in Name \ {m} : kept'[n] = kept[n]
  BY <1>1, <1>5 DEF Stores
<1>7. file' \in [st : {"blank", "torn", "whole"}, secrets : Stores]
  BY <1>1, <1>5 DEF Whole, Torn, Empty, Stores
<1>8. missed' \in [Client -> SUBSET Name] /\ risked' \in SUBSET Name
      /\ \A x \in Saving \ {c} : missed'[x] = missed[x] \cup {m}
  <2>1. \A d \in Client : (IF d \in Saving \ {c} THEN missed[d] \cup {m} ELSE {})
                          \in SUBSET Name
    BY <1>1
  <2>2. missed' \in [Client -> SUBSET Name]
    BY <1>5, <2>1
  <2>3. risked' \in SUBSET Name
    BY <1>1, <1>5
  <2> QED
    BY <1>5, <2>2, <2>3 DEF Saving
<1>9. VaultTypeOK'
  BY <1>4, <1>5, <1>6, <1>7, <1>8 DEF VaultInv, VaultTypeOK, ClientRow
<1>10. ASSUME NEW n \in Name \ risked' PROVE file'.secrets[n] = kept'[n]
  <2>1. file' = Whole(client[c].store) /\ file'.secrets = client[c].store
    BY <1>5, <1>10 DEF Whole, Torn
  <2>2. n \notin (risked \cup missed[c]) \/ n = m
    BY <1>5, <1>10
  <2>3. client[c].store[n] = IF n = m THEN w ELSE kept[n]
    BY <1>1, <1>2, <1>3, <2>2 DEF VaultInv, Carried
  <2> QED
    BY <1>6, <2>1, <2>3
<1>11. ASSUME NEW x \in Saving \ {c} PROVE Carried(x)'
  <2>1. client'[x] = client[x] /\ x \in Client
    BY <1>4, <1>11 DEF Saving
  <2>2. ASSUME NEW n \in Name \ (risked' \cup missed'[x] \cup {client[x].name})
        PROVE  client[x].store[n] = kept'[n]
    <3>1. n # m /\ n \notin missed[x] /\ n \notin risked
      BY <1>5, <1>8, <1>11, <2>2
    <3>2. client[x].store[n] = kept[n]
      BY <1>11, <2>2, <3>1 DEF VaultInv, Carried
    <3> QED
      BY <1>6, <3>1, <3>2
  <2>3. client[x].store[client[x].name] = client[x].value
    BY <1>11 DEF VaultInv, Carried
  <2> QED
    BY <2>1, <2>2, <2>3 DEF Carried
<1> QED
  BY <1>4, <1>9, <1>10, <1>11 DEF VaultInv, SecretsKept

LEMMA WriteFailsInv ==
  ASSUME VaultInv, NEW c \in Client, WriteFails(c)
  PROVE  VaultInv'
<1>1. /\ client' \in [Client -> ClientRow] /\ Saving' = Saving \ {c}
      /\ \A x \in Client \ {c} : client'[x] = client[x]
  BY SaveEnds
<1>2. file' \in [st : {"blank", "torn", "whole"}, secrets : Stores]
  BY DEF VaultInv, VaultTypeOK, WriteFails, Torn, Empty, Stores
<1>3. /\ missed' \in [Client -> SUBSET Name] /\ risked' = Name
      /\ UNCHANGED <<refs, served, stops, kept>>
  BY DEF VaultInv, VaultTypeOK, WriteFails
<1>4. VaultTypeOK'
  BY <1>1, <1>2, <1>3 DEF VaultInv, VaultTypeOK, ClientRow
<1>5. ASSUME NEW x \in Saving \ {c} PROVE Carried(x)'
  <2>1. client'[x] = client[x]
    BY <1>1, <1>5 DEF Saving
  <2> QED
    BY <1>3, <1>5, <2>1 DEF VaultInv, Carried
<1> QED
  BY <1>1, <1>3, <1>4, <1>5 DEF VaultInv, SecretsKept

LEMMA VaultNextInv ==
  ASSUME VaultInv, VaultNext
  PROVE  VaultInv'
<1>1. /\ client \in [Client -> ClientRow] /\ served \in 0..MaxPuts
      /\ refs \in SUBSET Name /\ stops \in 0..MaxStops
      /\ MaxPuts \in Nat /\ MaxStops \in Nat /\ risked \in SUBSET Name
      /\ file \in [st : {"blank", "torn", "whole"}, secrets : Stores]
  BY VaultAssumption DEF VaultInv, VaultTypeOK, ClientRow
<1>2. ASSUME NEW c \in Client, NEW n \in Name, NEW v \in Secret \cup {NoSecret},
             Request(c, n, v)
      PROVE  VaultInv'
  <2> DEFINE w == [NoClient EXCEPT !.pc = "load", !.name = n, !.value = v]
  <2>1. w \in ClientRow
    BY NoClientRow, ClientField
  <2>2. w.pc = "load"
    BY NoClientRow DEF ClientRow
  <2>3. client' = [client EXCEPT ![c] = w]
        /\ UNCHANGED <<file, stops, kept, missed, risked>>
    BY <1>2 DEF Request
  <2>4. served' \in 0..MaxPuts /\ refs' \in SUBSET Name
    BY <1>1, <1>2 DEF Request
  <2>5. client[c].pc # "write"
    BY <1>2 DEF Request
  <2> HIDE DEF w
  <2> QED
    BY <2>1, <2>2, <2>3, <2>4, <2>5, ClientApartInv
<1>3. ASSUME NEW c \in Client, Change(c) PROVE VaultInv'
  BY <1>3, ChangeInv
<1>4. ASSUME NEW c \in Client, Truncate(c) PROVE VaultInv'
  BY <1>4, TruncateInv
<1>5. ASSUME NEW c \in Client, OpenFails(c) PROVE VaultInv'
  <2>1. /\ client' = [client EXCEPT ![c] = NoClient] /\ client[c].pc # "write"
        /\ missed' = [missed EXCEPT ![c] = {}]
        /\ UNCHANGED <<file, refs, served, stops, kept, risked>>
    BY <1>5 DEF OpenFails
  <2> QED
    BY <1>1, <2>1, NoClientRow, ClientApartInv
<1>6. ASSUME NEW c \in Client, WriteStore(c) PROVE VaultInv'
  BY <1>6, WriteStoreInv
<1>7. ASSUME NEW c \in Client, WriteFails(c) PROVE VaultInv'
  BY <1>7, WriteFailsInv
<1>8. ASSUME NEW c \in Client, NEW ok \in BOOLEAN, RegisterRef(c, ok)
      PROVE  VaultInv'
  <2>1. client' = [client EXCEPT ![c] = NoClient]
        /\ UNCHANGED <<file, served, stops, kept, missed, risked>>
    BY <1>8 DEF RegisterRef
  <2>2. client[c].pc # "write" /\ client[c].name \in Name
    BY <1>1, <1>8 DEF RegisterRef, ClientRow
  <2>3. refs' \in SUBSET Name
    BY <1>1, <1>8, <2>2 DEF RegisterRef
  <2> QED
    BY <1>1, <2>1, <2>2, <2>3, NoClientRow, ClientApartInv
<1>9. CASE Stop
  <2>1. /\ client' = [c \in Client |-> NoClient] /\ stops' \in 0..MaxStops
        /\ missed' = [c \in Client |-> {}]
        /\ risked' = IF Truncated THEN Name ELSE risked
        /\ UNCHANGED <<file, refs, served, kept>>
    BY <1>1, <1>9 DEF Stop
  <2>2. client' \in [Client -> ClientRow] /\ Saving' = {}
    BY <2>1, NoClientRow DEF Saving
  <2>3. missed' \in [Client -> SUBSET Name] /\ risked' \in SUBSET Name
    BY <1>1, <2>1
  <2>4. VaultTypeOK'
    BY <1>1, <2>1, <2>2, <2>3 DEF VaultInv, VaultTypeOK, ClientRow
  <2>5. \A n \in Name \ risked' : file'.secrets[n] = kept'[n]
    BY <2>1 DEF VaultInv, SecretsKept
  <2> QED
    BY <2>2, <2>4, <2>5 DEF VaultInv, SecretsKept
<1> QED
  BY <1>2, <1>3, <1>4, <1>5, <1>6, <1>7, <1>8, <1>9 DEF VaultNext

----------------------------------------------------------------------------
(* The rate limiter.                                                       *)

RqRow == [pc : {"idle", "look", "query", "store", "clock", "count"},
            t : Time, limit : 0..TopRpm, minute : Time]

\* A limit the organisation had at time u, and one it had when a request of
\* time t came or later.
Had(u, limit) == \E p \in planAt[u] \cup {Free} : limit = Rpm[p]
Recent(t, limit) == \E u \in Time : u + CacheTime > t /\ Had(u, limit)
Since(t, limit)  == \E u \in Time : u >= t /\ Had(u, limit)

PlansKnown ==
  /\ \A u \in Time : u > now => planAt[u] = {}
  /\ orgPlan \in planAt[now]

\* What is cached was in force CacheTime before it expires, or later.
CacheRecent ==
  cache.exp # 0 =>
    \E u \in Time : u + CacheTime >= cache.exp /\ Had(u, cache.rpm)

RequestRecent(q) ==
  /\ rq[q].t <= now
  /\ rq[q].pc = "store" => Since(rq[q].t, rq[q].limit)
  /\ rq[q].pc \in {"clock", "count"} => Recent(rq[q].t, rq[q].limit)

RecentInv ==
  /\ RateTypeOK
  /\ PlansKnown /\ CacheRecent
  /\ \A q \in Req : RequestRecent(q)

LEMMA MinuteType ==
  /\ \A t \in Time : MinuteOf(t) \in Time
  /\ \A t \in Nat : MinuteOf(t) \in Nat /\ MinuteOf(t) <= MinuteOf(t + 1)
<1>1. Minute \in Nat \ {0} /\ MaxTime \in Nat
  BY RateAssumption
<1>2. \A t \in Nat : (t \div Minute) \in 0..t
  BY <1>1
<1>3. \A t \in Nat : (t \div Minute) <= ((t + 1) \div Minute)
  BY <1>1
<1>4. \A t \in Time : t \in Nat /\ 0..t \subseteq Time
  BY <1>1 DEF Time
<1> QED
  BY <1>2, <1>3, <1>4 DEF MinuteOf

LEMMA NoRqType == NoRq \in RqRow /\ NoRq.pc = "idle" /\ NoRq.t = 0 /\ NoRq.minute = 0
BY RateAssumption DEF NoRq, RqRow, Time

LEMMA RpmType == \A p \in Plan : Rpm[p] \in 0..TopRpm
BY RateAssumption

LEMMA RequestFields ==
  ASSUME NEW r \in RqRow,
         NEW p \in {"idle", "look", "query", "store", "clock", "count"}
  PROVE  /\ [r EXCEPT !.pc = p] \in RqRow
         /\ \A t \in Time : [r EXCEPT !.pc = p, !.t = t] \in RqRow
         /\ \A l \in 0..TopRpm : [r EXCEPT !.pc = p, !.limit = l] \in RqRow
         /\ \A m \in Time : [r EXCEPT !.pc = p, !.minute = m] \in RqRow
BY DEF RqRow

LEMMA RateInitType == RateInit => RateTypeOK
<1> SUFFICES ASSUME RateInit PROVE RateTypeOK
  OBVIOUS
<1>1. MaxTime \in Nat /\ TopRpm \in Nat
  BY RateAssumption
<1>2. now \in Time /\ orgPlan \in Plan /\ strays \in Nat
  BY <1>1 DEF RateInit, Time
<1>3. cache \in [rpm : 0..TopRpm, exp : Nat]
  BY <1>1 DEF RateInit, NoCache
<1>4. win \in [minute : 0..(MaxTime + 1), count : Nat]
  BY <1>1 DEF RateInit, NoWin
<1>5. rq \in [Req -> RqRow]
  BY NoRqType DEF RateInit
<1>6. planAt \in [Time -> SUBSET Plan] /\ passed \in [Time -> Nat]
  BY <1>2 DEF RateInit
<1> QED
  BY <1>2, <1>3, <1>4, <1>5, <1>6 DEF RateTypeOK, RqRow

LEMMA RecentInitInv == RateInit => RecentInv
<1> SUFFICES ASSUME RateInit PROVE RecentInv
  OBVIOUS
<1>1. RateTypeOK
  BY RateInitType
<1>2. PlansKnown
  BY RateAssumption DEF RateInit, PlansKnown, Time
<1>3. CacheRecent
  BY DEF RateInit, CacheRecent, NoCache
<1>4. \A q \in Req : RequestRecent(q)
  BY NoRqType DEF RateInit, RequestRecent
<1> QED
  BY <1>1, <1>2, <1>3, <1>4 DEF RecentInv

LEMMA RateTypes ==
  ASSUME RateTypeOK
  PROVE  /\ now \in Time /\ now \in Nat /\ orgPlan \in Plan
         /\ cache \in [rpm : 0..TopRpm, exp : Nat]
         /\ rq \in [Req -> RqRow]
         /\ planAt \in [Time -> SUBSET Plan]
         /\ MaxTime \in Nat /\ TopRpm \in Nat /\ CacheTime \in Nat \ {0}
         /\ Free \in Plan
BY RateAssumption DEF RateTypeOK, RqRow, Time

\* A step of one request.
LEMMA RequestStep ==
  ASSUME RateTypeOK, NEW q \in Req, NEW r \in RqRow,
         rq' = [rq EXCEPT ![q] = r]
  PROVE  /\ rq' \in [Req -> RqRow] /\ rq'[q] = r
         /\ \A x \in Req \ {q} : rq'[x] = rq[x]
BY RateTypes

LEMMA RateNextType ==
  ASSUME RateTypeOK, RateNext
  PROVE  RateTypeOK'
<1> USE RateTypes
<1>1. ASSUME NEW q \in Req, Ask(q) PROVE RateTypeOK'
  <2>1. [NoRq EXCEPT !.pc = "look", !.t = now] \in RqRow
    BY NoRqType, RequestFields
  <2>2. rq' \in [Req -> RqRow]
    BY <1>1, <2>1 DEF Ask
  <2> QED
    BY <1>1, <2>2 DEF Ask, RateTypeOK, RqRow
<1>2. ASSUME NEW q \in Req, LookUp(q) PROVE RateTypeOK'
  <2>1. /\ [rq[q] EXCEPT !.pc = "clock", !.limit = cache.rpm] \in RqRow
        /\ [rq[q] EXCEPT !.pc = "query"] \in RqRow
    BY RequestFields
  <2>2. rq' \in [Req -> RqRow]
    BY <1>2, <2>1 DEF LookUp
  <2> QED
    BY <1>2, <2>2 DEF LookUp, RateTypeOK, RqRow
<1>3. ASSUME NEW q \in Req, Query(q) PROVE RateTypeOK'
  <2>1. PICK p \in {orgPlan, Free} :
          rq' = [rq EXCEPT ![q].pc = "store", ![q].limit = Rpm[p]]
    BY <1>3 DEF Query
  <2>2. [rq[q] EXCEPT !.pc = "store", !.limit = Rpm[p]] \in RqRow
    BY RpmType, RequestFields
  <2>3. rq' \in [Req -> RqRow]
    BY <2>1, <2>2
  <2> QED
    BY <1>3, <2>3 DEF Query, RateTypeOK, RqRow
<1>4. ASSUME NEW q \in Req, Store(q) PROVE RateTypeOK'
  <2>1. rq[q] \in RqRow /\ [rq[q] EXCEPT !.pc = "clock"] \in RqRow
    BY RequestFields
  <2>2. rq' \in [Req -> RqRow]
    BY <1>4, <2>1 DEF Store
  <2>3. rq[q].limit \in 0..TopRpm /\ Expiry(q) \in Nat
    BY <2>1 DEF Expiry, RqRow, Time
  <2>4. cache' \in [rpm : 0..TopRpm, exp : Nat]
    BY <1>4, <2>3 DEF Store
  <2> QED
    BY <1>4, <2>2, <2>4 DEF Store, RateTypeOK, RqRow
<1>5. ASSUME NEW q \in Req, Clock(q) PROVE RateTypeOK'
  <2>1. /\ MinuteOf(now) \in Time /\ NoRq \in RqRow
        /\ [rq[q] EXCEPT !.pc = "count", !.minute = MinuteOf(now)] \in RqRow
    BY NoRqType, MinuteType, RequestFields
  <2>2. rq' \in [Req -> RqRow]
    BY <1>5, <2>1 DEF Clock
  <2> QED
    BY <1>5, <2>2 DEF Clock, RateTypeOK, RqRow
<1>6. ASSUME NEW q \in Req, Count(q) PROVE RateTypeOK'
  <2>1. rq' \in [Req -> RqRow]
    BY <1>6, NoRqType DEF Count
  <2>2. rq[q].minute \in Time /\ rq[q].minute \in 0..(MaxTime + 1)
    BY DEF RqRow, Time
  <2>3. Window(rq[q].minute) \in [minute : 0..(MaxTime + 1), count : Nat]
    BY <2>2 DEF Window, RateTypeOK
  <2>4. win' \in [minute : 0..(MaxTime + 1), count : Nat]
    BY <1>6, <2>3 DEF Count
  <2>5. passed' \in [Time -> Nat] /\ strays' \in Nat
    BY <1>6, <2>2 DEF Count, RateTypeOK
  <2> QED
    BY <1>6, <2>1, <2>4, <2>5 DEF Count, RateTypeOK, RqRow
<1>7. CASE Tick
  <2>1. now' \in Time /\ planAt' \in [Time -> SUBSET Plan]
    BY <1>7 DEF Tick, Time
  <2> QED
    BY <1>7, <2>1 DEF Tick, RateTypeOK
<1>8. ASSUME NEW p \in Plan, PlanChanges(p) PROVE RateTypeOK'
  <2>1. planAt' \in [Time -> SUBSET Plan]
    BY <1>8 DEF PlanChanges
  <2> QED
    BY <1>8, <2>1 DEF PlanChanges, RateTypeOK
<1> QED
  BY <1>1, <1>2, <1>3, <1>4, <1>5, <1>6, <1>7, <1>8 DEF RateNext

\* The history only grows, so what was recent for a time stays so.
LEMMA HistoryGrows ==
  ASSUME RateTypeOK, \A u \in Time : planAt[u] \subseteq planAt'[u]
  PROVE  /\ \A u \in Time : \A l : Had(u, l) => Had(u, l)'
         /\ \A t, l : Recent(t, l) => Recent(t, l)'
         /\ \A t, l : Since(t, l) => Since(t, l)'
BY DEF Had, Recent, Since

LEMMA HistoryStep ==
  ASSUME RecentInv, RateNext
  PROVE  \A u \in Time : planAt[u] \subseteq planAt'[u]
<1> USE RateTypes DEF RecentInv
<1>1. CASE UNCHANGED planAt
  BY <1>1
<1>2. CASE Tick
  <2>1. now + 1 \in Time /\ planAt[now + 1] = {}
    BY <1>2 DEF Tick, PlansKnown, Time
  <2> QED
    BY <1>2, <2>1 DEF Tick
<1>3. ASSUME NEW p \in Plan, PlanChanges(p)
      PROVE  \A u \in Time : planAt[u] \subseteq planAt'[u]
  BY <1>3 DEF PlanChanges
<1> QED
  BY <1>1, <1>2, <1>3 DEF RateNext, Ask, LookUp, Query, Store, Clock, Count

LEMMA PlansKnownStep ==
  ASSUME RecentInv, RateNext
  PROVE  PlansKnown'
<1> USE RateTypes DEF RecentInv
<1>1. CASE UNCHANGED <<now, orgPlan, planAt>>
  BY <1>1 DEF PlansKnown
<1>2. CASE Tick
  <2>1. now' = now + 1 /\ now + 1 \in Time /\ orgPlan' = orgPlan
        /\ planAt' = [planAt EXCEPT ![now + 1] = {orgPlan}]
    BY <1>2 DEF Tick, Time
  <2> QED
    BY <2>1 DEF PlansKnown, Time
<1>3. ASSUME NEW p \in Plan, PlanChanges(p) PROVE PlansKnown'
  BY <1>3 DEF PlanChanges, PlansKnown, Time
<1> QED
  BY <1>1, <1>2, <1>3 DEF RateNext, Ask, LookUp, Query, Store, Clock, Count

\* A step that leaves the clock and the cache alone and moves one request.
LEMMA OneRequestRecent ==
  ASSUME RecentInv, RateNext, NEW q \in Req, NEW r \in RqRow,
         rq' = [rq EXCEPT ![q] = r], now' = now,
         r.t <= now,
         r.pc = "store" => Since(r.t, r.limit),
         r.pc \in {"clock", "count"} => Recent(r.t, r.limit)
  PROVE  \A x \in Req : RequestRecent(x)'
<1>1. /\ \A t, l : Recent(t, l) => Recent(t, l)'
      /\ \A t, l : Since(t, l) => Since(t, l)'
  BY HistoryStep, HistoryGrows DEF RecentInv
<1>2. rq'[q] = r /\ \A x \in Req \ {q} : rq'[x] = rq[x]
  BY RequestStep DEF RecentInv
<1>3. RequestRecent(q)'
  BY <1>1, <1>2 DEF RequestRecent
<1>4. ASSUME NEW x \in Req \ {q} PROVE RequestRecent(x)'
  <2>1. RequestRecent(x) /\ rq'[x] = rq[x]
    BY <1>2 DEF RecentInv
  <2> QED
    BY <1>1, <2>1 DEF RequestRecent
<1> QED
  BY <1>3, <1>4

LEMMA CacheKept ==
  ASSUME RecentInv, RateNext, UNCHANGED cache
  PROVE  CacheRecent'
<1>1. \A u \in Time : \A l : Had(u, l) => Had(u, l)'
  BY HistoryStep, HistoryGrows DEF RecentInv
<1> QED
  BY <1>1 DEF RecentInv, CacheRecent

\* What was in force when a request came or later is recent for it.
LEMMA SinceIsRecent ==
  ASSUME RateTypeOK, NEW t \in Time, NEW l, Since(t, l)
  PROVE  Recent(t, l)
<1>1. PICK u \in Time : u >= t /\ Had(u, l)
  BY DEF Since
<1>2. u + CacheTime > t
  BY <1>1, RateAssumption DEF Time
<1> QED
  BY <1>1, <1>2 DEF Recent

LEMMA RecentNextInv ==
  ASSUME RecentInv, RateNext
  PROVE  RecentInv'
<1>1. RateTypeOK /\ RateTypeOK' /\ PlansKnown' /\ PlansKnown
  BY RateNextType, PlansKnownStep DEF RecentInv
<1>2. \A x \in Req : rq[x] \in RqRow /\ rq[x].t \in Time /\ rq[x].t <= now
                     /\ RequestRecent(x)
  BY <1>1, RateTypes DEF RecentInv, RequestRecent, RqRow
<1> USE <1>1, <1>2, RateTypes
<1>3. ASSUME NEW q \in Req, Ask(q) PROVE RecentInv'
  <2> DEFINE r == [NoRq EXCEPT !.pc = "look", !.t = now]
  <2>1. r \in RqRow
    BY NoRqType, RequestFields
  <2>2. r.pc = "look" /\ r.t = now /\ now <= now
    BY NoRqType DEF RqRow
  <2>3. rq' = [rq EXCEPT ![q] = r] /\ now' = now /\ UNCHANGED cache
    BY <1>3 DEF Ask
  <2> HIDE DEF r
  <2>4. \A x \in Req : RequestRecent(x)'
    BY <2>1, <2>2, <2>3, OneRequestRecent
  <2> QED
    BY <2>3, <2>4, CacheKept DEF RecentInv
<1>4. ASSUME NEW q \in Req, LookUp(q) PROVE RecentInv'
  <2>1. now' = now /\ UNCHANGED cache
    BY <1>4 DEF LookUp
  <2>2. CASE cache.exp > rq[q].t
    <3> DEFINE r == [rq[q] EXCEPT !.pc = "clock", !.limit = cache.rpm]
    <3>1. r \in RqRow
      BY RequestFields
    <3>2. r.pc = "clock" /\ r.t = rq[q].t /\ r.limit = cache.rpm
      BY DEF RqRow
    <3>3. rq' = [rq EXCEPT ![q] = r]
      BY <1>4, <2>2 DEF LookUp
    <3>4. Recent(rq[q].t, cache.rpm)
      <4>1. cache.exp # 0 /\ cache.exp \in Nat /\ rq[q].t \in Nat
        BY <2>2 DEF Time
      <4>2. PICK u \in Time : u + CacheTime >= cache.exp /\ Had(u, cache.rpm)
        BY <4>1 DEF RecentInv, CacheRecent
      <4>3. u + CacheTime > rq[q].t
        BY <2>2, <4>1, <4>2 DEF Time
      <4> QED
        BY <4>2, <4>3 DEF Recent
    <3> HIDE DEF r
    <3>5. \A x \in Req : RequestRecent(x)'
      BY <2>1, <3>1, <3>2, <3>3, <3>4, OneRequestRecent
    <3> QED
      BY <2>1, <3>5, CacheKept DEF RecentInv
  <2>3. CASE ~(cache.exp > rq[q].t)
    <3> DEFINE r == [rq[q] EXCEPT !.pc = "query"]
    <3>1. r \in RqRow
      BY RequestFields
    <3>2. r.pc = "query" /\ r.t = rq[q].t
      BY DEF RqRow
    <3>3. rq' = [rq EXCEPT ![q] = r]
      BY <1>4, <2>3 DEF LookUp
    <3> HIDE DEF r
    <3>4. \A x \in Req : RequestRecent(x)'
      BY <2>1, <3>1, <3>2, <3>3, OneRequestRecent
    <3> QED
      BY <2>1, <3>4, CacheKept DEF RecentInv
  <2> QED
    BY <2>2, <2>3
<1>5. ASSUME NEW q \in Req, Query(q) PROVE RecentInv'
  <2>1. PICK p \in {orgPlan, Free} :
          rq' = [rq EXCEPT ![q].pc = "store", ![q].limit = Rpm[p]]
    BY <1>5 DEF Query
  <2> DEFINE r == [rq[q] EXCEPT !.pc = "store", !.limit = Rpm[p]]
  <2>2. r \in RqRow
    BY RpmType, RequestFields
  <2>3. r.pc = "store" /\ r.t = rq[q].t /\ r.limit = Rpm[p]
    BY DEF RqRow
  <2>4. rq' = [rq EXCEPT ![q] = r] /\ now' = now /\ UNCHANGED cache
    BY <1>5, <2>1 DEF Query
  <2>5. Since(rq[q].t, Rpm[p])
    <3>1. Had(now, Rpm[p])
      BY DEF Had, PlansKnown
    <3>2. now >= rq[q].t
      BY DEF Time
    <3> QED
      BY <3>1, <3>2 DEF Since
  <2> HIDE DEF r
  <2>6. \A x \in Req : RequestRecent(x)'
    BY <2>2, <2>3, <2>4, <2>5, OneRequestRecent
  <2> QED
    BY <2>4, <2>6, CacheKept DEF RecentInv
<1>6. ASSUME NEW q \in Req, Store(q) PROVE RecentInv'
  <2> DEFINE r == [rq[q] EXCEPT !.pc = "clock"]
  <2>1. r \in RqRow
    BY RequestFields
  <2>2. r.pc = "clock" /\ r.t = rq[q].t /\ r.limit = rq[q].limit
    BY DEF RqRow
  <2>3. rq' = [rq EXCEPT ![q] = r] /\ now' = now
    BY <1>6 DEF Store
  <2>4. Since(rq[q].t, rq[q].limit)
    BY <1>6 DEF Store, RequestRecent
  <2>5. Recent(rq[q].t, rq[q].limit)
    BY <2>4, SinceIsRecent
  <2> HIDE DEF r
  <2>6. \A x \in Req : RequestRecent(x)'
    BY <2>1, <2>2, <2>3, <2>5, OneRequestRecent
  <2>7. CacheRecent'
    <3>1. cache'.rpm = rq[q].limit /\ cache'.exp = rq[q].t + CacheTime
      BY <1>6 DEF Store, Expiry
    <3>2. PICK u \in Time : u >= rq[q].t /\ Had(u, rq[q].limit)
      BY <2>4 DEF Since
    <3>3. Had(u, cache.rpm)'
      BY <1>6, <3>1, <3>2 DEF Store, Had
    <3>4. u + CacheTime >= cache'.exp
      BY <3>1, <3>2 DEF Time
    <3> QED
      BY <3>3, <3>4 DEF CacheRecent
  <2> QED
    BY <2>6, <2>7 DEF RecentInv
<1>7. ASSUME NEW q \in Req, Clock(q) PROVE RecentInv'
  <2>1. now' = now /\ UNCHANGED cache
    BY <1>7 DEF Clock
  <2>2. CASE rq[q].limit = 0
    <3>1. rq' = [rq EXCEPT ![q] = NoRq] /\ NoRq \in RqRow
          /\ NoRq.pc = "idle" /\ NoRq.t <= now
      BY <1>7, <2>2, NoRqType DEF Clock, Time
    <3>2. \A x \in Req : RequestRecent(x)'
      BY <2>1, <3>1, OneRequestRecent
    <3> QED
      BY <2>1, <3>2, CacheKept DEF RecentInv
  <2>3. CASE rq[q].limit # 0
    <3> DEFINE r == [rq[q] EXCEPT !.pc = "count", !.minute = MinuteOf(now)]
    <3>1. r \in RqRow
      BY MinuteType, RequestFields
    <3>2. r.pc = "count" /\ r.t = rq[q].t /\ r.limit = rq[q].limit
      BY DEF RqRow
    <3>3. rq' = [rq EXCEPT ![q] = r]
      BY <1>7, <2>3 DEF Clock
    <3>4. Recent(rq[q].t, rq[q].limit)
      BY <1>7 DEF Clock, RequestRecent
    <3> HIDE DEF r
    <3>5. \A x \in Req : RequestRecent(x)'
      BY <2>1, <3>1, <3>2, <3>3, <3>4, OneRequestRecent
    <3> QED
      BY <2>1, <3>5, CacheKept DEF RecentInv
  <2> QED
    BY <2>2, <2>3
<1>8. ASSUME NEW q \in Req, Count(q) PROVE RecentInv'
  <2>1. now' = now /\ UNCHANGED cache /\ rq' = [rq EXCEPT ![q] = NoRq]
    BY <1>8 DEF Count
  <2>2. NoRq \in RqRow /\ NoRq.pc = "idle" /\ NoRq.t <= now
    BY NoRqType DEF Time
  <2>3. \A x \in Req : RequestRecent(x)'
    BY <2>1, <2>2, OneRequestRecent
  <2> QED
    BY <2>1, <2>3, CacheKept DEF RecentInv
<1>9. CASE Tick \/ \E p \in Plan : PlanChanges(p)
  <2>1. UNCHANGED <<rq, cache>> /\ now' \in {now, now + 1}
    BY <1>9 DEF Tick, PlanChanges
  <2>2. /\ \A t, l : Recent(t, l) => Recent(t, l)'
        /\ \A t, l : Since(t, l) => Since(t, l)'
    BY HistoryStep, HistoryGrows
  <2>3. \A x \in Req : rq[x].t <= now'
    BY <2>1 DEF Time
  <2>4. \A x \in Req : RequestRecent(x)'
    BY <2>1, <2>2, <2>3 DEF RequestRecent
  <2> QED
    BY <2>1, <2>4, CacheKept DEF RecentInv
<1> QED
  BY <1>3, <1>4, <1>5, <1>6, <1>7, <1>8, <1>9 DEF RateNext

\* What the open window has let pass, at most.
Spent == IF win.count <= TopRpm THEN win.count ELSE TopRpm

\* A minute is over with one full window, and one more for each stray.  The
\* current minute has its first window still to come, unless it is open or a
\* stray, already counted, has replaced it.
Allowance(m) == TopRpm * strays + (IF win.minute = m THEN Spent
                                   ELSE IF m = MinuteOf(now) THEN 0
                                   ELSE TopRpm)

WindowInv ==
  /\ RateTypeOK
  /\ \A q \in Req : rq[q].minute <= MinuteOf(now)
  /\ \A m \in Time : m > MinuteOf(now) => passed[m] = 0
  /\ \A m \in Time : passed[m] <= Allowance(m)

LEMMA WindowTypes ==
  ASSUME RateTypeOK
  PROVE  /\ TopRpm \in Nat /\ strays \in Nat
         /\ TopRpm * strays \in Nat
         /\ TopRpm * (1 + strays) = TopRpm * strays + TopRpm
         /\ TopRpm * (strays + 1) = TopRpm * strays + TopRpm
         /\ win \in [minute : 0..(MaxTime + 1), count : Nat]
         /\ Spent \in 0..TopRpm
         /\ passed \in [Time -> Nat] /\ Time \subseteq Nat
         /\ MinuteOf(now) \in Time
<1>1. TopRpm \in Nat /\ strays \in Nat /\ passed \in [Time -> Nat]
      /\ win \in [minute : 0..(MaxTime + 1), count : Nat] /\ now \in Time
  BY RateAssumption DEF RateTypeOK
<1>2. /\ TopRpm * strays \in Nat
      /\ TopRpm * (1 + strays) = TopRpm * strays + TopRpm
      /\ TopRpm * (strays + 1) = TopRpm * strays + TopRpm
  BY <1>1
<1>3. Spent \in 0..TopRpm
  BY <1>1 DEF Spent
<1>4. Time \subseteq Nat
  BY RateAssumption DEF Time
<1>5. MinuteOf(now) \in Time
  BY <1>1, MinuteType
<1> QED
  BY <1>1, <1>2, <1>3, <1>4, <1>5

LEMMA TickTime ==
  ASSUME RateTypeOK, Tick
  PROVE  now + 1 \in Time
<1>1. now \in Nat /\ now < MaxTime /\ MaxTime \in Nat
  BY RateTypes DEF Tick
<1> QED
  BY <1>1 DEF Time

LEMMA WindowInitInv == RateInit => WindowInv
<1> SUFFICES ASSUME RateInit PROVE WindowInv
  OBVIOUS
<1>1. RateTypeOK
  BY RateInitType
<1>2. \A q \in Req : rq[q].minute = 0
  BY NoRqType DEF RateInit
<1>3. MinuteOf(now) >= 0
  BY <1>1, WindowTypes
<1>4. \A m \in Time : passed[m] = 0 /\ Allowance(m) >= 0
  BY <1>1, WindowTypes DEF RateInit, Allowance
<1> QED
  BY <1>1, <1>2, <1>3, <1>4 DEF WindowInv

\* Counting a request.
LEMMA CountInv ==
  ASSUME WindowInv, RateTypeOK', NEW q \in Req, Count(q)
  PROVE  \A x \in Time : passed'[x] <= Allowance(x)' /\ (x > MinuteOf(now) => passed'[x] = 0)
<1>1. /\ RateTypeOK /\ rq[q].minute \in Time /\ rq[q].minute <= MinuteOf(now)
      /\ rq[q].limit \in Nat /\ rq[q].limit <= TopRpm
  BY RateTypes, WindowTypes DEF WindowInv, RqRow
<1>2. PICK m \in Time : m = rq[q].minute
  BY <1>1
<1>3. PICK n \in Nat : n = IF win.minute = m THEN win.count ELSE 0
  BY <1>1, WindowTypes
<1>4. win'.minute = m /\ win'.count = n + 1
  BY <1>1, <1>2, <1>3, WindowTypes DEF Count, Window
<1>5. /\ passed' = [passed EXCEPT ![m] = IF Within(n + 1, rq[q].limit) THEN @ + 1 ELSE @]
      /\ strays' = IF m = MinuteOf(now) THEN strays ELSE strays + 1
      /\ now' = now
  BY <1>1, <1>2, <1>3, WindowTypes DEF Count, Window
<1>6. /\ passed[m] \in Nat /\ passed'[m] \in Nat /\ TopRpm \in Nat
      /\ \A x \in Time \ {m} : passed'[x] = passed[x]
      /\ passed'[m] <= passed[m] + 1
      /\ n + 1 > TopRpm => passed'[m] = passed[m]
  BY <1>1, <1>5, WindowTypes DEF Within
<1>7. PICK b \in Nat : b = TopRpm * strays
  BY <1>1, WindowTypes
<1>7a. PICK bb \in Nat : bb = TopRpm * strays'
  BY <1>1, <1>5, <1>7, WindowTypes
<1>8. bb = IF m = MinuteOf(now) THEN b ELSE b + TopRpm
  BY <1>1, <1>5, <1>7, <1>7a, WindowTypes
<1>9. Spent' = IF n + 1 <= TopRpm THEN n + 1 ELSE TopRpm
  BY <1>4 DEF Spent
<1>10. passed'[m] <= Allowance(m)'
  <2>1. Allowance(m)' = bb + Spent'
    BY <1>4, <1>7a DEF Allowance
  <2>2. CASE win.minute = m
    <3>1. passed[m] <= b + Spent
      BY <1>7, <2>2 DEF WindowInv, Allowance
    <3>2. passed[m] <= b + (IF n <= TopRpm THEN n ELSE TopRpm)
      BY <1>3, <2>2, <3>1 DEF Spent
    <3> QED
      BY <1>6, <1>8, <1>9, <2>1, <3>2
  <2>3. CASE win.minute # m /\ m = MinuteOf(now)
    <3>1. passed[m] <= b /\ n = 0
      BY <1>1, <1>3, <1>7, <2>3, WindowTypes DEF WindowInv, Allowance
    <3> QED
      BY <1>6, <1>8, <1>9, <2>1, <2>3, <3>1
  <2>4. CASE win.minute # m /\ m # MinuteOf(now)
    <3>1. passed[m] <= b + TopRpm /\ n = 0
      BY <1>3, <1>7, <2>4 DEF WindowInv, Allowance
    <3> QED
      BY <1>6, <1>8, <1>9, <2>1, <2>4, <3>1
  <2> QED
    BY <2>2, <2>3, <2>4
<1>11. ASSUME NEW x \in Time, x # m PROVE passed'[x] <= Allowance(x)'
  <2>1. Allowance(x)' = bb + (IF x = MinuteOf(now) THEN 0 ELSE TopRpm)
    BY <1>4, <1>5, <1>7a, <1>11 DEF Allowance, MinuteOf
  <2>2. passed'[x] = passed[x] /\ passed[x] \in Nat
    BY <1>1, <1>6, <1>11, WindowTypes
  <2>3. CASE x = MinuteOf(now)
    <3>1. bb = b + TopRpm
      BY <1>8, <1>11, <2>3
    <3>2. passed[x] <= b + TopRpm
      BY <1>1, <1>7, <2>2, WindowTypes DEF WindowInv, Allowance
    <3> QED
      BY <1>1, <2>1, <2>2, <2>3, <3>1, <3>2, WindowTypes
  <2>4. CASE x # MinuteOf(now)
    <3>1. passed[x] <= b + TopRpm
      BY <1>1, <1>7, <2>2, WindowTypes DEF WindowInv, Allowance
    <3> QED
      BY <1>1, <1>8, <2>1, <2>2, <2>4, <3>1, WindowTypes
  <2> QED
    BY <2>3, <2>4
<1>12. ASSUME NEW x \in Time, x > MinuteOf(now) PROVE passed'[x] = 0
  <2>1. x # m
    BY <1>1, <1>2, <1>12, WindowTypes
  <2> QED
    BY <1>6, <1>12, <2>1 DEF WindowInv
<1> QED
  BY <1>10, <1>11, <1>12

LEMMA WindowNextInv ==
  ASSUME WindowInv, RateNext
  PROVE  WindowInv'
<1>1. RateTypeOK /\ RateTypeOK'
  BY RateNextType DEF WindowInv
<1> USE <1>1, WindowTypes, RateTypes
<1>2. ASSUME \A x \in Req : rq'[x].minute <= MinuteOf(now),
             UNCHANGED <<now, win, passed, strays>>
      PROVE  WindowInv'
  <2>1. \A m \in Time : Allowance(m)' = Allowance(m)
    BY <1>2 DEF Allowance, Spent, MinuteOf
  <2>2. MinuteOf(now)' = MinuteOf(now)
    BY <1>2 DEF MinuteOf
  <2> QED
    BY <1>2, <2>1, <2>2 DEF WindowInv
<1>3. \A q \in Req : rq[q] \in RqRow /\ rq[q].minute <= MinuteOf(now)
  BY DEF WindowInv
<1>4. ASSUME NEW q \in Req, NEW r \in RqRow, rq' = [rq EXCEPT ![q] = r],
             r.minute \in {0, rq[q].minute, MinuteOf(now)},
             UNCHANGED <<now, win, passed, strays>>
      PROVE  WindowInv'
  <2>1. r.minute <= MinuteOf(now)
    BY <1>3, <1>4
  <2>2. \A x \in Req : rq'[x].minute <= MinuteOf(now)
    BY <1>3, <1>4, <2>1, RequestStep
  <2> QED
    BY <1>2, <1>4, <2>2
<1>5. ASSUME NEW q \in Req, Ask(q) PROVE WindowInv'
  <2> DEFINE r == [NoRq EXCEPT !.pc = "look", !.t = now]
  <2>1. r \in RqRow
    BY NoRqType, RequestFields
  <2>2. r.minute = 0
    BY NoRqType DEF RqRow
  <2>3. rq' = [rq EXCEPT ![q] = r] /\ UNCHANGED <<now, win, passed, strays>>
    BY <1>5 DEF Ask
  <2> HIDE DEF r
  <2> QED
    BY <1>4, <2>1, <2>2, <2>3
<1>6. ASSUME NEW q \in Req, LookUp(q) \/ Query(q) \/ Store(q) \/ Clock(q)
      PROVE  WindowInv'
  <2>1. \A x \in Req \ {q} : rq'[x] = rq[x]
    BY <1>6 DEF LookUp, Query, Store, Clock
  <2>2. rq'[q].minute \in {0, rq[q].minute, MinuteOf(now)}
    <3>1. CASE LookUp(q)
      BY <1>3, <3>1 DEF LookUp, RqRow
    <3>2. CASE Query(q)
      BY <1>3, <3>2 DEF Query, RqRow
    <3>3. CASE Store(q)
      BY <1>3, <3>3 DEF Store, RqRow
    <3>4. CASE Clock(q)
      BY <1>3, <3>4, NoRqType DEF Clock, RqRow
    <3> QED
      BY <1>6, <3>1, <3>2, <3>3, <3>4
  <2>3. rq'[q].minute <= MinuteOf(now)
    BY <1>3, <2>2
  <2>4. UNCHANGED <<now, win, passed, strays>>
    BY <1>6 DEF LookUp, Query, Store, Clock
  <2> QED
    BY <1>2, <1>3, <2>1, <2>3, <2>4
<1>7. ASSUME NEW q \in Req, Count(q) PROVE WindowInv'
  <2>1. /\ rq' = [rq EXCEPT ![q] = NoRq] /\ NoRq \in RqRow /\ NoRq.minute = 0
        /\ now' = now
    BY <1>7, NoRqType DEF Count
  <2>2. \A x \in Req : rq'[x].minute <= MinuteOf(now)
    BY <2>1, RequestStep DEF WindowInv
  <2>3. MinuteOf(now)' = MinuteOf(now)
    BY <2>1 DEF MinuteOf
  <2> QED
    BY <1>7, <2>2, <2>3, CountInv DEF WindowInv
<1>8. CASE Tick
  <2>1. now' = now + 1 /\ UNCHANGED <<win, rq, passed, strays>>
    BY <1>8 DEF Tick
  <2>2. MinuteOf(now)' \in Time /\ MinuteOf(now) <= MinuteOf(now)'
    <3>1. MinuteOf(now)' = MinuteOf(now + 1)
      BY <2>1 DEF MinuteOf
    <3>2. now + 1 \in Time
      BY <1>8, TickTime
    <3>3. MinuteOf(now + 1) \in Time /\ MinuteOf(now) <= MinuteOf(now + 1)
      BY <3>2, MinuteType
    <3> QED
      BY <3>1, <3>3
  <2>2a. PICK b \in Nat : b = TopRpm * strays
    OBVIOUS
  <2>2b. Spent' = Spent
    BY <2>1 DEF Spent
  <2>3. ASSUME NEW m \in Time PROVE passed[m] <= Allowance(m)'
    <3>1. CASE m = MinuteOf(now)' /\ m # MinuteOf(now)
      <4>1. passed[m] = 0
        BY <2>2, <3>1 DEF WindowInv
      <4>2. Allowance(m)' >= 0
        BY <2>1, <2>2a, <2>2b DEF Allowance
      <4> QED
        BY <4>1, <4>2
    <3>2. CASE m # MinuteOf(now)' \/ m = MinuteOf(now)
      <4>1. Allowance(m) <= Allowance(m)'
        BY <2>1, <2>2, <2>2a, <2>2b, <3>2 DEF Allowance
      <4>2. Allowance(m) \in Nat /\ Allowance(m)' \in Nat
        BY <2>1, <2>2a, <2>2b DEF Allowance
      <4> QED
        BY <4>1, <4>2 DEF WindowInv
    <3> QED
      BY <3>1, <3>2
  <2>4. \A q \in Req : rq[q].minute \in Nat /\ rq[q].minute <= MinuteOf(now)'
    BY <1>3, <2>2 DEF RqRow
  <2>5. \A m \in Time : m > MinuteOf(now)' => passed[m] = 0
    BY <2>2 DEF WindowInv
  <2> QED
    BY <2>1, <2>3, <2>4, <2>5 DEF WindowInv
<1>9. ASSUME NEW p \in Plan, PlanChanges(p) PROVE WindowInv'
  BY <1>9 DEF PlanChanges, WindowInv, Allowance, Spent, MinuteOf
<1> QED
  BY <1>5, <1>6, <1>7, <1>8, <1>9 DEF RateNext

----------------------------------------------------------------------------
(* The theorems.                                                           *)

ServicesInv ==
  /\ service \in Served
  /\ HubInv /\ RoutinesInv /\ RecentInv /\ WindowInv /\ VaultInv

LEMMA InitInv == Init => ServicesInv
BY HubInitInv, RoutinesInitInv, RecentInitInv, WindowInitInv, VaultInitInv
DEF Init, ServicesInv

\* A step of the composition is a step of each service, or leaves it alone.
LEMMA StepOfService ==
  ASSUME [Next]_vars
  PROVE  /\ [HubNext]_hubVars /\ [RoutinesNext]_routineVars
         /\ [RateNext]_rateVars /\ [VaultNext]_vaultVars
         /\ service' = service
BY DEF Next, HubPart, RoutinesPart, RatePart, VaultPart, vars

LEMMA NextInv ==
  ASSUME ServicesInv, [Next]_vars
  PROVE  ServicesInv'
<1>1. HubInv'
  <2>1. CASE HubNext
    BY <2>1, HubNextInv DEF ServicesInv
  <2>2. CASE UNCHANGED hubVars
    BY <2>2 DEF ServicesInv, hubVars, HubInv, HubTypeOK, ClosedOnce, Open
  <2> QED
    BY <2>1, <2>2, StepOfService
<1>2. RoutinesInv'
  <2>1. CASE RoutinesNext
    BY <2>1, RoutinesNextInv DEF ServicesInv
  <2>2. CASE UNCHANGED routineVars
    BY <2>2
    DEF ServicesInv, routineVars, RoutinesInv, RoutinesTypeOK, OncePerTurn, Pending
  <2> QED
    BY <2>1, <2>2, StepOfService
<1>3. RecentInv' /\ WindowInv'
  <2>1. CASE RateNext
    BY <2>1, RecentNextInv, WindowNextInv DEF ServicesInv
  <2>2. CASE UNCHANGED rateVars
    <3>1. RateTypeOK'
      BY <2>2 DEF ServicesInv, RecentInv, rateVars, RateTypeOK
    <3>2. PlansKnown' /\ CacheRecent' /\ \A q \in Req : RequestRecent(q)'
      BY <2>2 DEF ServicesInv, RecentInv, rateVars, PlansKnown, CacheRecent,
                  RequestRecent, Recent, Since, Had
    <3>3. /\ \A m \in Time : Allowance(m)' = Allowance(m)
          /\ MinuteOf(now)' = MinuteOf(now)
      BY <2>2 DEF rateVars, Allowance, Spent, MinuteOf
    <3>4. WindowInv'
      BY <2>2, <3>1, <3>3 DEF ServicesInv, WindowInv, rateVars
    <3> QED
      BY <3>1, <3>2, <3>4 DEF RecentInv
  <2> QED
    BY <2>1, <2>2, StepOfService
<1>4. VaultInv'
  <2>1. CASE VaultNext
    BY <2>1, VaultNextInv DEF ServicesInv
  <2>2. CASE UNCHANGED vaultVars
    BY <2>2 DEF ServicesInv, vaultVars, VaultInv, VaultTypeOK, SecretsKept, Carried,
                Saving, Truncated
  <2> QED
    BY <2>1, <2>2, StepOfService
<1> QED
  BY <1>1, <1>2, <1>3, <1>4, StepOfService DEF ServicesInv

\* Every service is in a state that follows from what it has done.
THEOREM ServicesInvariant == Spec => []ServicesInv
BY InitInv, NextInv, PTL DEF Spec

\* Type correctness of hub, scheduler, limiter and vault.
THEOREM ServicesTypeCorrect == Spec => []TypeOK
<1>1. ServicesInv => TypeOK
  BY DEF ServicesInv, HubInv, RoutinesInv, RecentInv, VaultInv, TypeOK
<1> QED
  BY <1>1, ServicesInvariant, PTL

\* register and unregister (hub.go) close no channel twice, and what Send finds
\* registered is open, for any number of streams that replace one another.
THEOREM ServicesClosedOnce == Spec => []ClosedOnce
<1>1. ServicesInv => ClosedOnce
  BY DEF ServicesInv, HubInv
<1> QED
  BY <1>1, ServicesInvariant, PTL

\* The scheduler (scheduler.go) fires a routine once for each time it comes up
\* and once more for each mark that is lost.
THEOREM ServicesOncePerTurn == Spec => []OncePerTurn
<1>1. ServicesInv => OncePerTurn
  BY DEF ServicesInv, RoutinesInv
<1> QED
  BY <1>1, ServicesInvariant, PTL

\* allow() (middleware.go) lets one limit of requests pass in a minute, and one
\* more for each request that was held up over the end of its minute.
THEOREM ServicesWindowBounded == Spec => []WindowBounded
<1>1. ASSUME WindowInv PROVE WindowBounded
  <2> SUFFICES ASSUME NEW m \in Time PROVE passed[m] <= TopRpm * (1 + strays)
    BY DEF WindowBounded
  <2>1. RateTypeOK /\ passed[m] <= Allowance(m) /\ passed[m] \in Nat
    BY <1>1, WindowTypes DEF WindowInv
  <2>2. PICK b \in Nat : b = TopRpm * strays /\ TopRpm * (1 + strays) = b + TopRpm
    BY <2>1, WindowTypes
  <2>3. Allowance(m) <= b + TopRpm /\ Allowance(m) \in Nat
    BY <2>1, <2>2, WindowTypes DEF Allowance
  <2>4. TopRpm \in Nat
    BY <2>1, WindowTypes
  <2> QED
    BY <2>1, <2>2, <2>3, <2>4
<1>2. ServicesInv => WindowBounded
  BY <1>1 DEF ServicesInv
<1> QED
  BY <1>2, ServicesInvariant, PTL

\* rpm() (middleware.go) never answers with a limit older than the cache time.
THEOREM ServicesLimitIsRecent == Spec => []LimitIsRecent
<1>1. ASSUME RecentInv, NEW q \in Req, rq[q].pc \in {"store", "clock", "count"}
      PROVE  Recent(rq[q].t, rq[q].limit)
  <2>1. RequestRecent(q) /\ rq[q].t \in Time /\ RateTypeOK
    BY <1>1, RateTypes DEF RecentInv, RqRow
  <2> QED
    BY <1>1, <2>1, SinceIsRecent DEF RequestRecent
<1>2. ServicesInv => LimitIsRecent
  BY <1>1 DEF ServicesInv, LimitIsRecent, Recent, Had
<1> QED
  BY <1>2, ServicesInvariant, PTL

\* The vault (vault.rs) holds what its requests left, name by name, but for the
\* names that a save from an outdated, unreadable or truncated copy, or one that
\* was cut off or garbled, has put at risk.
THEOREM ServicesSecretsKept == Spec => []SecretsKept
<1>1. ServicesInv => SecretsKept
  BY DEF ServicesInv, VaultInv
<1> QED
  BY <1>1, ServicesInvariant, PTL
=============================================================================
