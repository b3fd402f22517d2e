------------------------------- MODULE Views -------------------------------
(***************************************************************************)
(* The list pages of the dashboard, each as one record: what its component *)
(* does with the rows it reads, which of them a filter lets through, how   *)
(* it pages, what it offers on a row and how its dialog behaves.  Console  *)
(* says what these records mean; the text, the colours and the numbers a   *)
(* page derives from its rows are left out.                                *)
(*                                                                         *)
(* A row is the set of filters of its page that let it through, so it says *)
(* what the page can tell of it: {"fila"} is a task shown under "Na fila". *)
(* The search box and the other selectors are filters like these.          *)
(***************************************************************************)
EXTENDS Naturals

CONSTANT PageSize   \* bound: rows on a page (5, 8 or 20 in the code)

ASSUME PageSizeAssumption == PageSize \in Nat \ {0}

All == "todos"

\* form: "none", or its dialog: "waits" if its button is inert while the request
\* is under way, "free" if not
Plain == [rows    |-> {{}},    \* rows the list may hold
          size    |-> 0,       \* rows on a page; 0: all of them
          clamped |-> TRUE,    \* the page index is bounded by the last page
          resets  |-> TRUE,    \* a filter goes back to the first page
          polled  |-> TRUE,    \* read every few seconds, or on demand
          keeps   |-> TRUE,    \* an answer without data leaves the list
          local   |-> FALSE,   \* the list lives on the page, not the server
          demo    |-> {},      \* the rows shown instead of an empty list
          form    |-> "none",
          edits   |-> FALSE,   \* the dialog is that of a row
          new     |-> {},      \* the row a submitted form becomes
          spare   |-> FALSE,   \* a refused form becomes a row of the page
          offers  |-> {},      \* pairs: a row and what can be done with it
          row     |-> "free"]  \* "waits" if that makes the row's button inert

Paged == [Plain EXCEPT !.size = PageSize]

----------------------------------------------------------------------------
(* Operation.                                                              *)

TaskRows == {{"andamento"}, {"fila"}, {"encerrado"}}

QueueList == [Paged EXCEPT !.rows = TaskRows]

TaskDialog == [Plain EXCEPT !.form = "waits", !.new = {"fila"}]
TaskList == [TaskDialog EXCEPT !.rows = TaskRows, !.size = PageSize]

PrRows == {{}, {"revisao"}, {"ci", "revisao"}, {"ci"}}
PrList == [Paged EXCEPT !.rows = PrRows]

\* the home page: workers, open pull requests, what needs attention, the log
HomeWorkers == Plain
HomePrs == [Plain EXCEPT !.rows = {{}, {"revisao"}, {"ci"}, {"revisao", "ci"}}]
HomeBlocked == [Paged EXCEPT !.clamped = FALSE]
HomeLog == [Plain EXCEPT !.rows = {{"info"}, {"warn"}, {"error"}}]

\* one stream of events instead of a poll; its buttons do nothing
LiveWorkers == Plain

\* decisions first, then the blocked and failed tasks without one
InterventionOffers == {<<{"decisao"}, "approve">>, <<{"decisao"}, "reject">>}
InterventionList == [Paged EXCEPT !.rows = {{"decisao"}, {"bloqueada"}},
                                  !.offers = InterventionOffers]

RoutineDialog == [Plain EXCEPT !.form = "waits", !.new = {"ativa"}]
RoutineOffers ==
  {<<{"ativa"}, "disable">>, <<{"pausada"}, "enable">>,
   <<{"ativa"}, "delete">>, <<{"pausada"}, "delete">>}
RoutineList == [RoutineDialog EXCEPT !.rows = {{"ativa"}, {"pausada"}},
                                     !.size = PageSize,
                                     !.offers = RoutineOffers]

QaRows == {{"pass"}, {"fail"}, {"flaky"}}
QaList == [Paged EXCEPT !.rows = QaRows]

CiRows == {{}, {"verde"}, {"falhou"}, {"rodando"}}
CiList == [Paged EXCEPT !.rows = CiRows]

LogRows == {{"err"}, {"warn"}, {"info"}}
LogList == [Plain EXCEPT !.rows = LogRows]

----------------------------------------------------------------------------
(* Knowledge, account, cloud.                                              *)

DocDialog == [Plain EXCEPT !.form = "waits", !.new = {"Manual"}, !.spare = TRUE]
\* removing a stored document asks for a route the server does not have
DocOffers == {<<{"Manual"}, "remove">>, <<{"Outro"}, "remove">>}
DocList == [DocDialog EXCEPT !.rows = {{"Manual"}, {"Outro"}},
                             !.size = PageSize, !.offers = DocOffers]

\* Enter and the button add what the field holds, as often as asked
MemoryList == [Plain EXCEPT !.form = "free", !.new = {},
                            !.offers = {<<{}, "delete">>}]

InviteDialog == [Plain EXCEPT !.form = "waits", !.new = {"member"}]
MemberOffers == {<<{"member"}, "delete">>}   \* anybody but an owner
MemberList == [InviteDialog EXCEPT
                 !.rows = {{"owner"}, {"member"}},
                 !.size = PageSize, !.polled = FALSE, !.keeps = FALSE,
                 !.offers = MemberOffers]

InvoiceRows == {{"paga"}, {"pendente"}, {"falhou"}}
\* six invoices are made up where there is none
InvoiceList == [Paged EXCEPT !.rows = InvoiceRows, !.demo = {<<0, {"paga"}>>}]

AuditList == Plain

\* instances of a demonstration: nothing is asked of a server
CloudDialog == [Plain EXCEPT !.form = "waits", !.new = {"ocioso"}]
CloudOffers == {<<{"ativo"}, "delete">>, <<{"ocioso"}, "delete">>}
CloudList == [CloudDialog EXCEPT !.rows = {{"ativo"}, {"ocioso"}},
                                 !.size = PageSize, !.local = TRUE,
                                 !.offers = CloudOffers]

----------------------------------------------------------------------------
(* The administration of the platform.  These lists are read when the page *)
(* opens and after each change; an answer without data empties them.       *)

Admin == [Plain EXCEPT !.polled = FALSE, !.keeps = FALSE]

\* the plan of an organisation is changed in a dialog, one at a time
OrgDialog == [Admin EXCEPT !.form = "waits", !.edits = TRUE]
OrgList == [OrgDialog EXCEPT !.rows = {{"free"}, {"pro"}}]

UserOffers == {<<{"active"}, "suspend">>, <<{"suspended"}, "activate">>}
UserList == [Admin EXCEPT !.rows = {{"active"}, {"suspended"}},
                          !.offers = UserOffers, !.row = "waits"]

\* asked for again on every change of scope
AdminAudit == Admin
AdminPlans == Admin
AdminOverview == Admin

----------------------------------------------------------------------------
View == [queue |-> QueueList, tasks |-> TaskList, prs |-> PrList,
         home_workers |-> HomeWorkers, home_prs |-> HomePrs,
         home_blocked |-> HomeBlocked, home_log |-> HomeLog,
         live |-> LiveWorkers, interventions |-> InterventionList,
         routines |-> RoutineList, qa |-> QaList, ci |-> CiList,
         logs |-> LogList, knowledge |-> DocList, memories |-> MemoryList,
         org |-> MemberList, invoices |-> InvoiceList, audit |-> AuditList, cloud |-> CloudList,
         orgs |-> OrgList, users |-> UserList, admin_audit |-> AdminAudit,
         admin_plans |-> AdminPlans, overview |-> AdminOverview]
=============================================================================
