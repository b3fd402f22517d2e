------------------------------ MODULE Services ------------------------------
(***************************************************************************)
(* The smaller services around leases, tasks and billing: the push hub,    *)
(* the scheduler of routines, the rate limiter (all in the cerebro) and    *)
(* the vault of an executor.  None of them reads what another one writes,  *)
(* so their steps commute, and a behaviour follows one of them while the   *)
(* others are at rest.                                                     *)
(***************************************************************************)
EXTENDS Hub, Routines, RateLimit, Vault

CONSTANT Served

ASSUME ServedAssumption == Served \subseteq {"hub", "routines", "rate", "vault"}

VARIABLE service   \* the one followed

vars == <<service, hubVars, routineVars, rateVars, vaultVars>>

TypeOK ==
  /\ service \in Served
  /\ HubTypeOK /\ RoutinesTypeOK /\ RateTypeOK /\ VaultTypeOK

Init ==
  /\ service \in Served
  /\ HubInit /\ RoutinesInit /\ RateInit /\ VaultInit
  /\ service # "rate" => orgPlan = Free

HubPart      == /\ service = "hub" /\ HubNext
                /\ UNCHANGED <<routineVars, rateVars, vaultVars>>
RoutinesPart == /\ service = "routines" /\ RoutinesNext
                /\ UNCHANGED <<hubVars, rateVars, vaultVars>>
RatePart     == /\ service = "rate" /\ RateNext
                /\ UNCHANGED <<hubVars, routineVars, vaultVars>>
VaultPart    == /\ service = "vault" /\ VaultNext
                /\ UNCHANGED <<hubVars, routineVars, rateVars>>

Next ==
  /\ HubPart \/ RoutinesPart \/ RatePart \/ VaultPart
  /\ UNCHANGED service

Spec == Init /\ [][Next]_vars

\* Goroutines run; executors, users and the callers of Send owe nothing.
StreamFairness(s) ==
  /\ WF_hubVars(service = "hub" /\ Answer(s))
  /\ WF_hubVars(service = "hub" /\ AnswerPanics(s))
  /\ WF_hubVars(service = "hub" /\ Leave(s))
  /\ WF_hubVars(service = "hub" /\ Write(s))

FairSpec == Spec /\ \A s \in Stream : StreamFairness(s)
=============================================================================
