------------------------------ MODULE UsePoll ------------------------------
(***************************************************************************)
(* usePoll of the dashboard (ui.tsx): a GET now and every few seconds, and *)
(* one more on every reload().  Each page takes an instance of it for each *)
(* list it shows; `server' is what the cerebro would answer now.           *)
(*                                                                         *)
(* The interval does not wait for the last answer, so several requests may *)
(* be under way and their answers arrive in any order.                     *)
(***************************************************************************)
CONSTANT Get   \* requests that may be under way at once

VARIABLES
  server,   \* what the server would answer
  data,     \* what the page shows
  gets      \* the answers under way: none or one for each request

Idle    == {}
Data(v) == {v}

PollInit(null) ==
  /\ data = null
  /\ gets = [g \in Get |-> Idle]

\* a request goes out and the server answers it; the answer is under way
Reload(g) ==
  /\ gets[g] = Idle
  /\ gets' = [gets EXCEPT ![g] = Data(server)]
  /\ UNCHANGED data

\* Mutant: an answer without data blanks the list
MissBlanks(g) ==
  /\ gets[g] = Idle
  /\ data' = {}
  /\ UNCHANGED gets

\* no data, because the fetch throws or safeJson makes {} of a 401, 429 or
\* 5xx: the last good value stays
Miss(g) ==
  /\ gets[g] = Idle
  /\ UNCHANGED <<data, gets>>

Arrive(g) ==
  /\ gets[g] # Idle
  /\ data' \in gets[g]
  /\ gets' = [gets EXCEPT ![g] = Idle]

Poll == \E g \in Get : Reload(g) \/ Miss(g) \/ Arrive(g)
=============================================================================
