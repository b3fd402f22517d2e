------------------------------ MODULE TaskLife ------------------------------
(***************************************************************************)
(* What the task pipeline promises of a task, without its streams, handlers *)
(* and queues: the task is executed, then gets each verdict in its order,   *)
(* and is merged after the last of them.  Nothing that was decided is taken *)
(* back, and what the database says of a merge or of a task that waits for  *)
(* a human is true when it is written.                                      *)
(*                                                                          *)
(* Two things it does not promise.  A human may overrule the gates: a task  *)
(* approved before it was reviewed is merged whatever its phase.  And the   *)
(* status of a task is not final: a late event or answer may overwrite any  *)
(* status by one that says the task goes on or has failed.                  *)
(***************************************************************************)
EXTENDS Naturals

CONSTANT Job  \* the tasks

VARIABLES
  phase,     \* new, executed, tested, reviewed, cleared
  pulls,     \* pull requests of the task
  overruled, \* the tasks whose gates a human overruled
  done,      \* the tasks whose branch is in the base branch
  shown,     \* what the status tells: open, waiting for a human, merged
  recorded   \* the tasks whose pull request is recorded as merged

decisions == <<phase, pulls, overruled, done>>
jobVars == <<decisions, shown, recorded>>

JobInit ==
  /\ phase = [j \in Job |-> "new"]
  /\ pulls = [j \in Job |-> 0]
  /\ overruled = {} /\ done = {}
  /\ shown = [j \in Job |-> "open"]
  /\ recorded = {}

To(j, from, to) ==
  /\ phase[j] = from
  /\ phase' = [phase EXCEPT ![j] = to]

\* The pull request is opened here or not at all.
Execute(j) ==
  /\ To(j, "new", "executed")
  /\ pulls[j] = 0
  /\ pulls' \in {pulls, [pulls EXCEPT ![j] = 1]}
  /\ UNCHANGED <<overruled, done, shown, recorded>>

\* The tests were green or are switched off; the AI review approved; the human
\* gate is switched off.
Pass(j) ==
  /\ \/ To(j, "executed", "tested")
     \/ To(j, "tested", "reviewed")
     \/ To(j, "reviewed", "cleared")
  /\ UNCHANGED <<pulls, overruled, done, shown, recorded>>

\* The branch is pushed to the base branch.
Merge(j) ==
  /\ phase[j] = "cleared" \/ j \in overruled
  /\ done' = done \cup {j}
  /\ UNCHANGED <<phase, pulls, overruled, shown, recorded>>

Shows(j, what) == shown' = [shown EXCEPT ![j] = what]

Resume(j) == Shows(j, "open") /\ UNCHANGED <<decisions, recorded>>

\* A human approves, which resumes the task as well.
Clear(j) ==
  /\ To(j, "reviewed", "cleared")
  /\ Shows(j, "open")
  /\ UNCHANGED <<pulls, overruled, done, recorded>>

\* A human approves what was not reviewed yet.
Overrule(j) ==
  /\ phase[j] \in {"new", "executed", "tested"}
  /\ overruled' = overruled \cup {j}
  /\ Shows(j, "open")
  /\ UNCHANGED <<phase, pulls, done, recorded>>

Wait(j) ==
  /\ phase[j] \in {"reviewed", "cleared"}
  /\ Shows(j, "waiting")
  /\ UNCHANGED <<decisions, recorded>>

Finish(j) ==
  /\ j \in done
  /\ Shows(j, "merged")
  /\ UNCHANGED <<decisions, recorded>>

Record(j) ==
  /\ j \in done
  /\ recorded' = recorded \cup {j}
  /\ UNCHANGED <<decisions, shown>>

Forward(j) == Execute(j) \/ Pass(j) \/ Clear(j) \/ Overrule(j) \/ Merge(j)
Tell(j) == Resume(j) \/ Wait(j) \/ Finish(j) \/ Record(j)

\* Most steps of an implementation stutter here, so that is asked first
JobNext == UNCHANGED jobVars \/ \E j \in Job : Forward(j) \/ Tell(j)

JobSpec == JobInit /\ [][JobNext]_jobVars
=============================================================================
