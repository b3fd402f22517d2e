-------------------------------- MODULE Hub --------------------------------
(***************************************************************************)
(* The push hub (grpcsrv/hub.go) and the goroutines of a stream around it  *)
(* (grpcsrv/server.go, Stream), for one organisation.                      *)
(*                                                                         *)
(* A stream has a bounded channel, a handler that receives, answers into   *)
(* its own channel and unregisters when it returns, and a writer that      *)
(* empties the channel into the connection.  Everybody else pushes with    *)
(* Send, which reads the registered channel under the mutex and sends      *)
(* after unlocking it, never waiting.  The handler's own send waits.       *)
(*                                                                         *)
(* Pipeline follows the commands through unbounded queues; here they are   *)
(* only counted, and what matters is who closes a channel and who is left  *)
(* waiting for one.                                                        *)
(***************************************************************************)
EXTENDS Naturals

CONSTANTS
  Stream,    \* streams opened over time, each once per life of the process
  NoStream,
  Pusher,    \* goroutines that call Send
  Rest,      \* those of them serving HTTP: net/http recovers their panics
  Cap,       \* capacity of a channel, 16 in the code
  MaxFalls   \* bound: times the process goes down; then it stays down

ASSUME HubAssumption ==
  /\ NoStream \notin Stream /\ Rest \subseteq Pusher
  /\ Cap \in Nat \ {0} /\ MaxFalls \in Nat

VARIABLES
  byOrg,     \* the registered stream
  chan,      \* its channel: commands waiting, times it was closed
  handler,   \* where the handler of a stream stands
  writer,    \* the goroutine that empties the channel
  alive,     \* streams whose connection is up, as far as gRPC has noticed
  push,      \* the channel a Send has read and not yet sent to
  falls      \* panics nothing recovered: the process starts anew

hubVars == <<byOrg, chan, handler, writer, alive, push, falls>>

Fresh == [len |-> 0, closed |-> 0]

HubTypeOK ==
  /\ byOrg \in Stream \cup {NoStream}
  /\ chan \in [Stream -> [len : 0..Cap, closed : 0..2]]
  /\ handler \in [Stream -> {"none", "recv", "sending", "ended"}]
  /\ writer \in [Stream -> {"none", "running", "stopped"}]
  /\ alive \in SUBSET Stream
  /\ push \in [Pusher -> Stream \cup {NoStream}]
  /\ falls \in 0..MaxFalls

HubInit ==
  /\ byOrg = NoStream
  /\ chan = [s \in Stream |-> Fresh]
  /\ handler = [s \in Stream |-> "none"]
  /\ writer = [s \in Stream |-> "none"]
  /\ alive = {}
  /\ push = [p \in Pusher |-> NoStream]
  /\ falls = 0

Open(s)   == chan[s].closed = 0
Put(s)    == chan' = [chan EXCEPT ![s].len = @ + 1]
Close(s)  == [chan EXCEPT ![s].closed = @ + 1]

\* a send on a closed channel outside net/http ends the process
Panic ==
  /\ byOrg' = NoStream
  /\ chan' = [s \in Stream |-> Fresh]
  /\ handler' = [s \in Stream |-> "none"]
  /\ writer' = [s \in Stream |-> "none"]
  /\ alive' = {}
  /\ push' = [p \in Pusher |-> NoStream]
  /\ falls' = falls + 1

----------------------------------------------------------------------------
(* A stream.                                                               *)

\* Mutant: the goroutine that empties the channel is not started
RegisterNoWriter(s) ==
  /\ falls < MaxFalls
  /\ handler[s] = "none"
  /\ byOrg' = s
  /\ chan' = IF byOrg = NoStream THEN chan ELSE Close(byOrg)
  /\ handler' = [handler EXCEPT ![s] = "recv"]
  /\ alive' = alive \cup {s}
  /\ UNCHANGED <<writer, push, falls>>

\* register: the stream before it, if any, loses its channel
Register(s) ==
  /\ falls < MaxFalls
  /\ handler[s] = "none"
  /\ byOrg' = s
  /\ chan' = IF byOrg = NoStream THEN chan ELSE Close(byOrg)
  /\ handler' = [handler EXCEPT ![s] = "recv"]
  /\ writer' = [writer EXCEPT ![s] = "running"]
  /\ alive' = alive \cup {s}
  /\ UNCHANGED <<push, falls>>

\* a message that is answered: LEASE_REQUEST, PLAN_RESULT
Receive(s) ==
  /\ handler[s] = "recv" /\ s \in alive
  /\ handler' = [handler EXCEPT ![s] = "sending"]
  /\ UNCHANGED <<byOrg, chan, writer, alive, push, falls>>

HasRoom(s) == chan[s].len < Cap

\* out <- env: waits for room
Answer(s) ==
  /\ handler[s] = "sending" /\ Open(s) /\ HasRoom(s)
  /\ Put(s)
  /\ handler' = [handler EXCEPT ![s] = "recv"]
  /\ UNCHANGED <<byOrg, writer, alive, push, falls>>

\* a newer stream has closed the channel, also while this send waited
AnswerPanics(s) == handler[s] = "sending" /\ ~Open(s) /\ Panic

\* Mutant: unregister closes without asking whose channel is registered
UnregisterAlways(s) ==
  /\ byOrg' = NoStream
  /\ chan' = Close(s)

\* the deferred unregister; a channel that was replaced is closed already
Unregister(s) ==
  /\ byOrg' = IF byOrg = s THEN NoStream ELSE byOrg
  /\ chan' = IF byOrg = s THEN Close(s) ELSE chan

\* Recv fails once the connection is gone, and Stream returns
Leave(s) ==
  /\ handler[s] = "recv" /\ s \notin alive
  /\ Unregister(s)
  /\ handler' = [handler EXCEPT ![s] = "ended"]
  /\ UNCHANGED <<writer, alive, push, falls>>

\* stream.Send succeeds, or fails and the writer returns with the command
Write(s) ==
  /\ writer[s] = "running" /\ chan[s].len > 0
  /\ chan' = [chan EXCEPT ![s].len = @ - 1]
  /\ writer' = [writer EXCEPT ![s] = IF s \in alive THEN @ ELSE "stopped"]
  /\ UNCHANGED <<byOrg, handler, alive, push, falls>>

\* the range over a closed channel ends when it is empty
WriterEnds(s) ==
  /\ writer[s] = "running" /\ chan[s].len = 0 /\ ~Open(s)
  /\ writer' = [writer EXCEPT ![s] = "stopped"]
  /\ UNCHANGED <<byOrg, chan, handler, alive, push, falls>>

Disconnect(s) ==
  /\ s \in alive
  /\ alive' = alive \ {s}
  /\ UNCHANGED <<byOrg, chan, handler, writer, push, falls>>

----------------------------------------------------------------------------
(* Send, in two steps: the mutex is released between them.                 *)

Look(p) ==
  /\ push[p] = NoStream /\ byOrg # NoStream
  /\ push' = [push EXCEPT ![p] = byOrg]
  /\ UNCHANGED <<byOrg, chan, handler, writer, alive, falls>>

\* true if there is room, false if the command is dropped
Deliver(p) ==
  /\ push[p] # NoStream /\ Open(push[p])
  /\ IF HasRoom(push[p]) THEN Put(push[p]) ELSE UNCHANGED chan
  /\ push' = [push EXCEPT ![p] = NoStream]
  /\ UNCHANGED <<byOrg, handler, writer, alive, falls>>

\* select with a default does not save a send on a closed channel
DeliverPanics(p) ==
  /\ push[p] # NoStream /\ ~Open(push[p])
  /\ \/ p \notin Rest /\ Panic
     \/ /\ p \in Rest
        /\ push' = [push EXCEPT ![p] = NoStream]
        /\ UNCHANGED <<byOrg, chan, handler, writer, alive, falls>>

HubNext ==
  \/ \E s \in Stream : \/ Register(s) \/ Receive(s) \/ Answer(s)
                       \/ AnswerPanics(s) \/ Leave(s) \/ Write(s)
                       \/ WriterEnds(s) \/ Disconnect(s)
  \/ \E p \in Pusher : Look(p) \/ Deliver(p) \/ DeliverPanics(p)

----------------------------------------------------------------------------
(* Properties.                                                             *)

\* No channel is closed twice, which would end the process whoever does it,
\* and the registered one is open: register and unregister agree on whose it
\* is, although a stream may be replaced at any point of its life.
ClosedOnce ==
  /\ \A s \in Stream : chan[s].closed <= 1
  /\ byOrg # NoStream => Open(byOrg)

\* waiting for room that nobody will make: the writer has returned
Stuck(s) == /\ handler[s] = "sending" /\ Open(s)
            /\ chan[s].len = Cap /\ writer[s] = "stopped"

\* A handler whose executor is gone returns and unregisters.  The one way not
\* to is a full channel whose writer failed; the next stream of the
\* organisation then closes that channel under the waiting send.
DeadStreamEnds ==
  \A s \in Stream :
    (handler[s] \in {"recv", "sending"} /\ s \notin alive)
      ~> (handler[s] \in {"none", "ended"} \/ Stuck(s))
=============================================================================
