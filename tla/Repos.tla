------------------------------- MODULE Repos -------------------------------
(***************************************************************************)
(* The repositories tab of the configuration page (config/page.tsx) and    *)
(* the handlers repos and repoByID (httpapi/api.go).                       *)
(*                                                                         *)
(* "Add repository" walks through three steps: a connected source, one of  *)
(* its remote repositories, a local directory.  Editing and removing have  *)
(* a dialog each.  As on the connections tab, a dialog may be closed or    *)
(* show something else when the answer of its request arrives.             *)
(***************************************************************************)
EXTENDS Naturals

CONSTANTS
  RepoId,    \* bound: rows the table may hold
  Source,    \* providers with a working code connection (codeConns)
  RepoName,
  RepoReq,   \* requests of the dialogs under way at once
  RepoGet    \* GET requests of the list under way at once

VARIABLES
  repos,      \* rows of table repository
  repoShown,  \* the list on the page
  repoGets,
  add,        \* the "Add repository" dialog
  edit,       \* the "Edit" dialog: id 0 when closed
  del,        \* the "Remove" dialog: id 0 when closed
  repoReq

repoVars == <<repos, repoShown, repoGets, add, edit, del, repoReq>>

None == "none"
NoRepo == [prov |-> None, of |-> None, name |-> None]
\* prov: the provider it was registered under; of: whose list its clone
\* address was picked from
RepoRow == [prov : Source, of : Source, name : RepoName] \cup {NoRepo}

AddClosed == [open |-> FALSE, step |-> "source", prov |-> None, list |-> None,
              loading |-> FALSE, sel |-> None, saving |-> FALSE]
NotOpen == [id |-> 0, name |-> None, busy |-> FALSE]
NoRepoReq == [what |-> None, id |-> 0, prov |-> None, of |-> None,
              name |-> None, st |-> "free"]

\* what ListRepos returns of the rows
Present(T) == {<<i, T[i].name>> : i \in {j \in RepoId : T[j] # NoRepo}}

RepoPoll == INSTANCE UsePoll WITH Get <- RepoGet, server <- Present(repos),
                                  data <- repoShown, gets <- repoGets

RepoTypeOK ==
  /\ repos \in [RepoId -> RepoRow]
  /\ repoShown \subseteq RepoId \X RepoName
  /\ add \in [open : BOOLEAN, step : {"source", "repo", "dir"},
              prov : Source \cup {None}, list : Source \cup {None, "error"},
              loading : BOOLEAN, sel : Source \cup {None}, saving : BOOLEAN]
  /\ {edit, del} \subseteq
       [id : RepoId \cup {0}, name : RepoName \cup {None}, busy : BOOLEAN]
  /\ \A k \in RepoReq :
       repoReq[k].what \in {None, "list", "save", "edit", "delete"}

RepoInit ==
  /\ repos \in [RepoId -> {r \in RepoRow : r.prov = r.of}]
  /\ RepoPoll!PollInit({})
  /\ add = AddClosed
  /\ edit = NotOpen
  /\ del = NotOpen
  /\ repoReq = [k \in RepoReq |-> NoRepoReq]

----------------------------------------------------------------------------
(* The page.                                                               *)

NoRepoDialog == ~add.open /\ edit.id = 0 /\ del.id = 0

OpenAdd ==
  /\ NoRepoDialog
  /\ add' = [AddClosed EXCEPT !.open = TRUE]
  /\ UNCHANGED <<repos, repoShown, repoGets, edit, del, repoReq>>

\* closing leaves the state behind, and opening starts afresh: what happens to
\* a closed dialog is not seen
CloseAdd ==
  /\ add.open
  /\ add' = AddClosed
  /\ UNCHANGED <<repos, repoShown, repoGets, edit, del, repoReq>>

\* "Voltar"
StepBack ==
  /\ add.open /\ add.step # "source"
  /\ add' = [add EXCEPT !.step = IF @ = "dir" THEN "repo" ELSE "source"]
  /\ UNCHANGED <<repos, repoShown, repoGets, edit, del, repoReq>>

RepoSend(k, r) ==
  /\ repoReq[k] = NoRepoReq
  /\ \A j \in RepoReq : j < k => repoReq[j] # NoRepoReq
  /\ repoReq' = [repoReq EXCEPT ![k] = r]
  /\ UNCHANGED <<repos, repoShown, repoGets>>

PickRepoSource(p, k) ==
  /\ add.open /\ add.step = "source"
  /\ add' = [add EXCEPT !.prov = p, !.step = "repo", !.list = None,
                        !.loading = TRUE]
  /\ RepoSend(k, [NoRepoReq EXCEPT !.what = "list", !.prov = p, !.st = "sent"])
  /\ UNCHANGED <<edit, del>>

PickRemoteRepo ==
  /\ add.open /\ add.step = "repo" /\ ~add.loading
  /\ add.list \in Source
  /\ add' = [add EXCEPT !.sel = add.list, !.step = "dir"]
  /\ UNCHANGED <<repos, repoShown, repoGets, edit, del, repoReq>>

\* saveRepo: the provider chosen first, the address picked second
SaveRepo(n, k) ==
  /\ add.open /\ add.step = "dir" /\ ~add.saving
  /\ add' = [add EXCEPT !.saving = TRUE]
  /\ RepoSend(k, [what |-> "save", id |-> 0, prov |-> add.prov,
                  of |-> add.sel, name |-> n, st |-> "sent"])
  /\ UNCHANGED <<edit, del>>

\* openRepoEdit takes the name from the list on the page; editBusy stays
OpenRepoEdit(x) ==
  /\ NoRepoDialog /\ x \in repoShown
  /\ edit' = [edit EXCEPT !.id = x[1], !.name = x[2]]
  /\ UNCHANGED <<repos, repoShown, repoGets, add, del, repoReq>>

TypeName(n) ==
  /\ edit.id # 0 /\ edit.name # n
  /\ edit' = [edit EXCEPT !.name = n]
  /\ UNCHANGED <<repos, repoShown, repoGets, add, del, repoReq>>

SaveRepoEdit(k) ==
  /\ edit.id # 0 /\ ~edit.busy
  /\ edit' = [edit EXCEPT !.busy = TRUE]
  /\ RepoSend(k, [NoRepoReq EXCEPT !.what = "edit", !.id = edit.id,
                                   !.name = edit.name, !.st = "sent"])
  /\ UNCHANGED <<add, del>>

OpenDel(x) ==
  /\ NoRepoDialog /\ x \in repoShown
  /\ del' = [del EXCEPT !.id = x[1]]
  /\ UNCHANGED <<repos, repoShown, repoGets, add, edit, repoReq>>

ConfirmDelRepo(k) ==
  /\ del.id # 0 /\ ~del.busy
  /\ del' = [del EXCEPT !.busy = TRUE]
  /\ RepoSend(k, [NoRepoReq EXCEPT !.what = "delete", !.id = del.id,
                                   !.st = "sent"])
  /\ UNCHANGED <<add, edit>>

CloseEditOrDel ==
  /\ \/ /\ edit.id # 0
        /\ edit' = [edit EXCEPT !.id = 0, !.name = None] /\ del' = del
     \/ /\ del.id # 0
        /\ del' = [del EXCEPT !.id = 0] /\ edit' = edit
  /\ UNCHANGED <<repos, repoShown, repoGets, add, repoReq>>

LateAdd(a) == add' = IF add.open THEN a ELSE AddClosed

RepoAnswered(k, what) ==
  /\ repoReq[k].what = what
  /\ repoReq[k].st \in {"ok", "refused", "lost"}
  /\ repoReq' = [repoReq EXCEPT ![k] = NoRepoReq]
  /\ UNCHANGED <<repos, repoShown, repoGets>>

\* the answer is shown whatever source the dialog is about by now
ReceiveList(k) ==
  /\ RepoAnswered(k, "list")
  /\ LateAdd([add EXCEPT !.loading = FALSE,
                         !.list = IF repoReq[k].st = "ok" THEN repoReq[k].prov
                                                          ELSE "error"])
  /\ UNCHANGED <<edit, del>>

\* Any answer closes the dialog, a refusal too; on the desktop the clone
\* comes first
ReceiveSaved(k) ==
  /\ repoReq[k].what = "save" /\ repoReq[k].st \in {"ok", "refused"}
  /\ \/ /\ repoReq' = [repoReq EXCEPT ![k] = NoRepoReq]
        /\ add' = AddClosed
     \/ /\ repoReq' = [repoReq EXCEPT ![k].st = "cloning"]
        /\ add' = add
  /\ UNCHANGED <<repos, repoShown, repoGets, edit, del>>

\* cloneToLocal returned, with or without an error
CloneDone(k) ==
  /\ repoReq[k].st = "cloning"
  /\ repoReq' = [repoReq EXCEPT ![k] = NoRepoReq]
  /\ add' = AddClosed
  /\ UNCHANGED <<repos, repoShown, repoGets, edit, del>>

SaveLost(k) ==
  /\ repoReq[k].what = "save" /\ repoReq[k].st = "lost"
  /\ repoReq' = [repoReq EXCEPT ![k] = NoRepoReq]
  /\ LateAdd([add EXCEPT !.saving = FALSE])
  /\ UNCHANGED <<repos, repoShown, repoGets, edit, del>>

\* Mutant: the early return after an error skips setEditBusy(false)
ReceiveEditedNoFinally(k) ==
  /\ RepoAnswered(k, "edit")
  /\ edit' = IF repoReq[k].st = "ok" THEN NotOpen ELSE edit
  /\ UNCHANGED <<add, del>>

\* success closes the dialog, whichever repository it shows by now
ReceiveEdited(k) ==
  /\ RepoAnswered(k, "edit")
  /\ edit' = IF repoReq[k].st = "ok" THEN NotOpen
                                     ELSE [edit EXCEPT !.busy = FALSE]
  /\ UNCHANGED <<add, del>>

ReceiveDeleted(k) ==
  /\ RepoAnswered(k, "delete")
  /\ del' = IF repoReq[k].st = "ok" THEN NotOpen
                                    ELSE [del EXCEPT !.busy = FALSE]
  /\ UNCHANGED <<add, edit>>

----------------------------------------------------------------------------
(* The cerebro.                                                            *)

\* of what was asked only the source of a list is needed for the answer
RepoReply(k, st) ==
  LET r == repoReq[k] IN
  repoReq' = [repoReq EXCEPT
    ![k] = [NoRepoReq EXCEPT !.what = r.what, !.st = st,
                             !.prov = IF r.what = "list" THEN r.prov ELSE None]]

\* codeRemoteRepos: the list of the account connected under the provider
ListRemote(k) ==
  /\ repoReq[k].what = "list" /\ repoReq[k].st = "sent"
  /\ RepoReply(k, "ok")
  /\ UNCHANGED <<repos, repoShown, repoGets, add, edit, del>>

\* POST /v1/repos believes provider and address
CreateRepoFrom(k) ==
  LET r == repoReq[k] IN
  /\ r.what = "save" /\ r.st = "sent"
  /\ \E i \in RepoId :
       /\ repos[i] = NoRepo
       /\ \A j \in RepoId : j < i => repos[j] # NoRepo
       /\ repos' = [repos EXCEPT
                      ![i] = [prov |-> r.prov, of |-> r.of, name |-> r.name]]
  /\ RepoReply(k, "ok")
  /\ UNCHANGED <<repoShown, repoGets, add, edit, del>>

\* Mutant: an UPDATE that inserts what it does not find
UpdateRepoUpserts(k) ==
  LET r == repoReq[k] IN
  /\ r.what = "edit" /\ r.st = "sent"
  /\ repos' = [repos EXCEPT ![r.id] =
                 IF @ = NoRepo THEN [prov |-> CHOOSE s \in Source : TRUE,
                                     of   |-> CHOOSE s \in Source : TRUE,
                                     name |-> r.name]
                 ELSE [@ EXCEPT !.name = r.name]]
  /\ RepoReply(k, "ok")
  /\ UNCHANGED <<repoShown, repoGets, add, edit, del>>

\* a row that is gone is an error
UpdateRepo(k) ==
  LET r == repoReq[k] IN
  /\ r.what = "edit" /\ r.st = "sent"
  /\ \/ /\ repos[r.id] # NoRepo
        /\ repos' = [repos EXCEPT ![r.id].name = r.name]
        /\ RepoReply(k, "ok")
     \/ /\ repos[r.id] = NoRepo
        /\ RepoReply(k, "refused")
        /\ UNCHANGED repos
  /\ UNCHANGED <<repoShown, repoGets, add, edit, del>>

\* refused while a task refers to it, or when it is gone
DeleteRepo(k) ==
  LET r == repoReq[k] IN
  /\ r.what = "delete" /\ r.st = "sent"
  /\ repos[r.id] # NoRepo
  /\ repos' = [repos EXCEPT ![r.id] = NoRepo]
  /\ RepoReply(k, "ok")
  /\ UNCHANGED <<repoShown, repoGets, add, edit, del>>

RejectRepo(k) ==
  /\ repoReq[k].st = "sent"
  /\ RepoReply(k, "refused")
  /\ UNCHANGED <<repos, repoShown, repoGets, add, edit, del>>

LoseRepo(k) ==
  /\ repoReq[k].st \in {"sent", "ok", "refused"}
  /\ RepoReply(k, "lost")
  /\ UNCHANGED <<repos, repoShown, repoGets, add, edit, del>>

----------------------------------------------------------------------------
RepoUser ==
  \/ OpenAdd \/ CloseAdd \/ StepBack \/ PickRemoteRepo \/ CloseEditOrDel
  \/ \E x \in repoShown : OpenRepoEdit(x) \/ OpenDel(x)
  \/ \E n \in RepoName : TypeName(n)
  \/ \E k \in RepoReq :
       \/ \E p \in Source : PickRepoSource(p, k)
       \/ \E n \in RepoName : SaveRepo(n, k)
       \/ SaveRepoEdit(k) \/ ConfirmDelRepo(k)

RepoFinish(k) ==
  \/ ReceiveList(k) \/ ReceiveSaved(k) \/ CloneDone(k) \/ SaveLost(k)
  \/ ReceiveEdited(k) \/ ReceiveDeleted(k)

RepoServe(k) ==
  \/ ListRemote(k) \/ CreateRepoFrom(k) \/ UpdateRepo(k) \/ DeleteRepo(k)
  \/ RejectRepo(k) \/ LoseRepo(k)

RepoNext ==
  \/ RepoUser
  \/ \E k \in RepoReq : RepoFinish(k) \/ RepoServe(k)
  \/ RepoPoll!Poll /\ UNCHANGED <<repos, add, edit, del, repoReq>>

----------------------------------------------------------------------------
(* Properties.                                                             *)

\* An inert "Save" or "Remove" has its request under way, whatever was closed
\* and opened meanwhile (editBusy and delBusy outlive their dialog).
RepoBusyIsReal ==
  LET Under(what) == \E k \in RepoReq : repoReq[k].what = what IN
  /\ add.saving => Under("save")
  /\ add.loading => Under("list")
  /\ edit.busy => Under("edit")
  /\ del.busy => Under("delete")

\* A repository that was removed comes back only as a new one: no answer of a
\* dialog opened before, and no edit that arrives late, puts its row back
\* (UpdateRepo fails for a row that is gone).
NewRowsPosted ==
  \A i \in RepoId :
    repos[i] = NoRepo /\ repos'[i] # NoRepo =>
      \E k \in RepoReq : /\ repoReq[k].what = "save"
                         /\ repoReq[k].st = "sent" /\ repoReq'[k].st = "ok"

RemovedStays == [][NewRowsPosted]_repos
=============================================================================
