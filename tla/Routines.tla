------------------------------ MODULE Routines ------------------------------
(***************************************************************************)
(* Routines: the scheduler (grpcsrv/scheduler.go), the handlers of         *)
(* /v1/routines (httpapi/api.go) and their statements (db/db.go).          *)
(*                                                                         *)
(* On every tick the scheduler reads the routines that are due and then,   *)
(* one by one, fires each and marks it as run.  Users enable, disable,     *)
(* delete and run routines between any two of these statements, and the    *)
(* process may end there.                                                  *)
(***************************************************************************)
EXTENDS Naturals

CONSTANTS
  Routine,   \* ids; an id is never given out again
  NoRoutine,
  MaxTurns,  \* bound: times the next run of a routine comes up
  MaxMisses  \* bound: crashes and failed UPDATEs of the scheduler

ASSUME RoutinesAssumption ==
  NoRoutine \notin Routine /\ MaxTurns \in Nat /\ MaxMisses \in Nat

VARIABLES
  routine,   \* rows of table routine
  due,       \* the list DueRoutines returned, as far as it is still to do
  at,        \* the routine fired and not yet marked
  turns,     \* history: times next_run_at of a routine came up
  fired,     \* history: times the scheduler fired it
  misses     \* history: firings whose mark was lost

routineVars == <<routine, due, at, turns, fired, misses>>

\* next: next_run_at is null, ahead or past; a row of a manual routine has
\* trigger_type 'manual' and is never due
NoRow == [there |-> FALSE, schedule |-> FALSE, on |-> FALSE, next |-> "null"]
NewRow(s) == [there |-> TRUE, schedule |-> s, on |-> TRUE,
              next |-> IF s THEN "ahead" ELSE "null"]

RoutinesTypeOK ==
  /\ routine \in [Routine -> [there : BOOLEAN, schedule : BOOLEAN, on : BOOLEAN,
                              next : {"null", "ahead", "past", "gone"}]]
  /\ due \in SUBSET Routine
  /\ at \in Routine \cup {NoRoutine}
  /\ turns \in [Routine -> 0..MaxTurns]
  /\ fired \in [Routine -> Nat]
  /\ misses \in 0..MaxMisses

RoutinesInit ==
  /\ routine = [r \in Routine |-> NoRow]
  /\ due = {}
  /\ at = NoRoutine
  /\ turns = [r \in Routine |-> 0]
  /\ fired = [r \in Routine |-> 0]
  /\ misses = 0

----------------------------------------------------------------------------
(* Users and time.                                                         *)

\* POST /v1/routines: a schedule has an interval above 0.  ("run" creates a
\* task and touches no row here.)
CreateRoutine(r, s) ==
  /\ routine[r] = NoRow
  /\ routine' = [routine EXCEPT ![r] = NewRow(s)]
  /\ UNCHANGED <<due, at, turns, fired, misses>>

\* enabling plans the next run afresh, disabling cancels it.  A manual routine
\* created with an interval gets a next run too and does not heed it.
NextRun(r, on) == CASE ~on                  -> {"null"}
                    [] routine[r].schedule  -> {"ahead"}
                    [] OTHER                -> {"ahead", "null"}

SetRoutineEnabled(r, on) ==
  /\ routine[r].there
  /\ \E n \in NextRun(r, on) :
       routine' = [routine EXCEPT ![r].on = on, ![r].next = n]
  /\ UNCHANGED <<due, at, turns, fired, misses>>

DeleteRoutine(r) ==
  /\ routine[r].there
  /\ routine' = [routine EXCEPT ![r] = [NoRow EXCEPT !.next = "gone"]]
  /\ UNCHANGED <<due, at, turns, fired, misses>>

\* next_run_at <= now()
ComesUp(r) ==
  /\ routine[r].next = "ahead" /\ turns[r] < MaxTurns
  /\ routine' = [routine EXCEPT ![r].next = "past"]
  /\ turns' = [turns EXCEPT ![r] = @ + 1]
  /\ UNCHANGED <<due, at, fired, misses>>

----------------------------------------------------------------------------
(* The scheduler.                                                          *)

IsDue(r) == /\ routine[r].on /\ routine[r].schedule
            /\ routine[r].next = "past"

\* a tick; if the SELECT fails the list stays empty until the next
DueRoutines ==
  /\ due = {} /\ at = NoRoutine
  /\ due' = {r \in Routine : IsDue(r)}
  /\ UNCHANGED <<routine, at, turns, fired, misses>>

\* fireRoutine: a task, a push if an executor is connected, a notification.
\* What is in the list is fired, whatever became of the row; if the INSERT of
\* the task fails the scheduler goes on as if it had not.
FireRoutine(r, ok) ==
  /\ r \in due /\ at = NoRoutine
  /\ due' = due \ {r}
  /\ at' = r
  /\ fired' = [fired EXCEPT ![r] = IF ok THEN @ + 1 ELSE @]
  /\ UNCHANGED <<routine, turns, misses>>

\* Mutant: the routine keeps the time it was due at
MarkKeepsNext(r) == routine

\* MarkRoutineRan: the next run, of a disabled routine too
Mark(r) == IF routine[r].there
           THEN [routine EXCEPT ![r].next = "ahead"]
           ELSE routine

MarkRoutineRan ==
  /\ at # NoRoutine
  /\ routine' = Mark(at)
  /\ at' = NoRoutine
  /\ UNCHANGED <<due, turns, fired, misses>>

\* the error of the UPDATE is dropped
MarkFails ==
  /\ at # NoRoutine /\ misses < MaxMisses
  /\ at' = NoRoutine
  /\ misses' = misses + 1
  /\ UNCHANGED <<routine, due, turns, fired>>

Restart ==
  /\ (due # {} \/ at # NoRoutine) /\ misses < MaxMisses
  /\ due' = {}
  /\ at' = NoRoutine
  /\ misses' = misses + 1
  /\ UNCHANGED <<routine, turns, fired>>

RoutinesNext ==
  \/ \E r \in Routine :
       \/ \E s \in BOOLEAN : CreateRoutine(r, s) \/ SetRoutineEnabled(r, s)
       \/ DeleteRoutine(r) \/ ComesUp(r)
       \/ \E ok \in BOOLEAN : FireRoutine(r, ok)
  \/ DueRoutines \/ MarkRoutineRan \/ MarkFails \/ Restart

----------------------------------------------------------------------------
(* Properties.                                                             *)

\* A routine runs at most once for every time its next run came up, and once
\* more for each mark that was lost, whatever users do between the list, the
\* firing and the mark.
OncePerTurn == \A r \in Routine : fired[r] <= turns[r] + misses
=============================================================================
