----------------------------- MODULE Dashboard -----------------------------
(***************************************************************************)
(* The dashboard as a whole: the session every page runs in, and the pages *)
(* with state of their own -- the three tabs of the configuration and the  *)
(* list pages.  One page is mounted at a time, its React state starts      *)
(* afresh when it is, and pages talk to each other through the cerebro     *)
(* only; so a behaviour is a visit to one part, in which what the others   *)
(* write is the environment that part has.  What a part does not use is    *)
(* at rest.                                                                *)
(***************************************************************************)
EXTENDS Session, Connections, Repos, Pool, Console

CONSTANT Parts

ASSUME PartsAssumption ==
  Parts \subseteq {"session", "connections", "repos", "pool", "lists"}

VARIABLE route   \* the part being visited

vars == <<route, sessionVars, connVars, repoVars, poolVars, listVars>>

TypeOK ==
  /\ route \in Parts
  /\ SessionTypeOK /\ ConnTypeOK /\ RepoTypeOK /\ PoolTypeOK /\ ListTypeOK

Init ==
  /\ route \in Parts
  /\ SessionInit
  /\ ConnInit
  /\ route # "connections" =>
       deck = (CHOOSE d \in Decks : TRUE) /\ conns = {}
  /\ RepoInit
  /\ route # "repos" => repos = [i \in RepoId |-> NoRepo]
  /\ PoolInit
  /\ route # "pool" =>
       cfg = [f \in Field |-> 0] /\ pinned = [i \in Pinned |-> Absent]
  /\ ListInit
  /\ route # "lists" => page = "audit"

SessionPart == /\ route = "session" /\ SessionNext
               /\ UNCHANGED <<connVars, repoVars, poolVars, listVars>>
ConnPart    == /\ route = "connections" /\ ConnNext
               /\ UNCHANGED <<sessionVars, repoVars, poolVars, listVars>>
RepoPart    == /\ route = "repos" /\ RepoNext
               /\ UNCHANGED <<sessionVars, connVars, poolVars, listVars>>
PoolPart    == /\ route = "pool" /\ PoolNext
               /\ UNCHANGED <<sessionVars, connVars, repoVars, listVars>>
ListPart    == /\ route = "lists" /\ ListNext
               /\ UNCHANGED <<sessionVars, connVars, repoVars, poolVars>>

Next ==
  /\ SessionPart \/ ConnPart \/ RepoPart \/ PoolPart \/ ListPart
  /\ UNCHANGED route

Spec == Init /\ [][Next]_vars

\* In the tabs: intervals run, calls return, and not every call fails to reach
\* the cerebro
TabFairness(t) ==
  /\ WF_sessionVars(route = "session" /\ tab[t].at = "app" /\ Call(t))
  /\ WF_sessionVars(route = "session" /\ Answer(t))
  /\ SF_sessionVars(route = "session" /\ Answered401(t))

\* On the workers tab: the intervals run, answers are delivered, and of
\* infinitely many polls one brings the list (SF: a miss takes its place now
\* and then)
PollFairness(g) ==
  /\ SF_poolVars(route = "pool" /\ LoadPool(g))
  /\ WF_poolVars(route = "pool" /\ ReceivePool(g))
  /\ SF_poolVars(route = "pool" /\ PinPoll!Reload(g) /\ PoolStays)
  /\ WF_poolVars(route = "pool" /\ PinPoll!Arrive(g) /\ PoolStays)

FairSpec ==
  /\ Spec
  /\ \A t \in Tab : TabFairness(t)
  /\ \A g \in PoolGet : PollFairness(g)
  /\ \A k \in PoolReq : WF_poolVars(route = "pool" /\ PoolServe(k))

----------------------------------------------------------------------------
(* Properties of several parts.                                            *)

\* No button of the configuration stays inert without a request that will
\* release it, on any of its tabs (the busy, testing, saving, loading,
\* editBusy, delBusy and pwBusy flags and their finally blocks).
ButtonsComeBack == BusyIsReal /\ RepoBusyIsReal /\ PwBusyIsReal

\* What the workers tab shows becomes what the server has, once nobody changes
\* it any more.
PoolShown == route = "pool" => PoolConverges
=============================================================================
