------------------------------ MODULE Console ------------------------------
(***************************************************************************)
(* A list page of the dashboard at work: what it reads, filters and pages, *)
(* and the requests its dialog and its rows send.  Views describes each    *)
(* page; the behaviour here is that of all of them.                        *)
(*                                                                         *)
(* Between two reads the list on the page is old: rows go and change under *)
(* the open page, and what was asked for takes effect on a row that may    *)
(* not be there any more.                                                  *)
(***************************************************************************)
EXTENDS Naturals, FiniteSets, Views

CONSTANTS
  Item,        \* bound: rows of a list; the higher the newer
  ListReq,     \* requests of dialog and rows under way at once
  ListGet,     \* reads of the list under way at once
  MaxChanges   \* bound: changes asked for, here or elsewhere

\* Rows are numbered as they come.
ASSUME ListAssumption ==
  /\ IsFiniteSet(Item) /\ Item = 1..Cardinality(Item)
  /\ MaxChanges \in Nat

VARIABLES
  page,        \* the page that is open
  table,       \* the rows the server has for it
  onPage,      \* the rows it has read, with their contents
  listGets,
  due,         \* a read of the list is due
  pill,        \* the filter chosen
  pageNo,      \* the page index
  sheet,       \* its dialog, and the row whose button is inert
  kept,        \* rows only this page knows (localDocs)
  listReq,
  changes

listVars == <<page, table, onPage, listGets, due, pill, pageNo, sheet, kept,
              listReq, changes>>

V == View[page]

Gone == {"gone"}
NoListReq == [what |-> "none", item |-> 0, st |-> "free"]
Shut == [open |-> FALSE, of |-> 0, busy |-> FALSE, row |-> 0]

InTable == {<<i, table[i]>> : i \in {j \in Item : table[j] # Gone}}
Pills == {All} \cup UNION V.rows

ListPoll == INSTANCE UsePoll WITH Get <- ListGet, server <- InTable,
                                  data <- onPage, gets <- listGets

ListTypeOK ==
  /\ page \in DOMAIN View
  /\ table \in [Item -> V.rows \cup {Gone}]
  /\ onPage \subseteq Item \X V.rows
  /\ due \in BOOLEAN
  /\ pill \in Pills
  /\ pageNo \in 0..Cardinality(Item)
  /\ sheet \in [open : BOOLEAN, of : Item \cup {0}, busy : BOOLEAN,
                row : Item \cup {0}]
  /\ kept \in BOOLEAN
  /\ \A k \in ListReq : listReq[k].st \in {"free", "sent", "ok", "refused", "lost"}
  /\ changes \in 0..MaxChanges

ListInit ==
  /\ page \in DOMAIN View
  /\ table \in [Item -> V.rows]
  /\ ListPoll!PollInit(IF V.local THEN InTable ELSE {})
  /\ due = TRUE
  /\ pill = All
  /\ pageNo = 0
  /\ sheet = Shut
  /\ kept = FALSE
  /\ listReq = [k \in ListReq |-> NoListReq]
  /\ changes = 0

----------------------------------------------------------------------------
(* What the page shows.                                                    *)

\* documents only this page knows come after those of the server
Spare == Cardinality(Item) + 1
Rows == IF onPage = {} THEN V.demo
        ELSE onPage \cup (IF kept THEN {<<Spare, V.new>>} ELSE {})

Filtered == {x \in Rows : pill = All \/ pill \in x[2]}
Before(x) == Cardinality({y \in Filtered : y[1] < x[1]})

Pages == IF V.size = 0 THEN 1
         ELSE LET n == (Cardinality(Filtered) + V.size - 1) \div V.size
              IN  IF n = 0 THEN 1 ELSE n

\* Mutant: the page index is used as it is
SafePageRaw == pageNo

\* safePage
SafePage == IF V.clamped /\ pageNo >= Pages THEN Pages - 1 ELSE pageNo

Slice == IF V.size = 0 THEN Filtered
         ELSE {x \in Filtered : /\ Before(x) >= SafePage * V.size
                                /\ Before(x) < (SafePage + 1) * V.size}

----------------------------------------------------------------------------
(* The page.                                                               *)

Reading == <<table, onPage, listGets, kept, changes>>

ChoosePill(f) ==
  /\ ~sheet.open /\ f # pill
  /\ pill' = f
  /\ pageNo' = IF V.resets THEN 0 ELSE pageNo
  /\ UNCHANGED <<page, Reading, due, sheet, listReq>>

\* the pager is shown for more than one page; "next" is inert on the last one
\* where the index is bounded, and goes no further where it is not
NextPage ==
  /\ ~sheet.open /\ Pages > 1
  /\ V.clamped => SafePage < Pages - 1
  /\ pageNo' = IF pageNo + 1 > Pages - 1 THEN Pages - 1 ELSE pageNo + 1
  /\ UNCHANGED <<page, Reading, due, pill, sheet, listReq>>

\* Mutant: the button works on the first page, too
PrevPageAlways ==
  /\ ~sheet.open /\ Pages > 1
  /\ pageNo' = pageNo - 1
  /\ UNCHANGED <<page, Reading, due, pill, sheet, listReq>>

\* one back from the index, which may be beyond the page that is shown
PrevPage ==
  /\ ~sheet.open /\ Pages > 1 /\ SafePage > 0
  /\ pageNo' = pageNo - 1
  /\ UNCHANGED <<page, Reading, due, pill, sheet, listReq>>

\* the dialog of a new row, or that of a row of the page
OpenSheet(i) ==
  /\ V.form = "waits" /\ ~sheet.open
  /\ IF V.edits THEN \E x \in Slice : x[1] = i ELSE i = 0
  /\ sheet' = [sheet EXCEPT !.open = TRUE, !.of = i]
  /\ UNCHANGED <<page, Reading, due, pill, pageNo, listReq>>

\* Mutant: closing the dialog forgets that a request is under way
CloseSheetResets ==
  /\ sheet.open
  /\ sheet' = [sheet EXCEPT !.open = FALSE, !.of = 0, !.busy = FALSE]
  /\ UNCHANGED <<page, Reading, due, pill, pageNo, listReq>>

\* what is under way goes on
CloseSheet ==
  /\ sheet.open
  /\ sheet' = [sheet EXCEPT !.open = FALSE, !.of = 0]
  /\ UNCHANGED <<page, Reading, due, pill, pageNo, listReq>>

Change == changes < MaxChanges /\ changes' = changes + 1

ListSend(k, what, i) ==
  /\ listReq[k] = NoListReq
  /\ \A j \in ListReq : j < k => listReq[j] # NoListReq
  /\ listReq' = [listReq EXCEPT ![k] = [what |-> what, item |-> i, st |-> "sent"]]
  /\ Change
  /\ UNCHANGED <<page, table, onPage, listGets, due, pill, pageNo>>

\* create, saveDoc, addMem, invite, createNode, changePlan
Submit(k) ==
  /\ \/ V.form = "waits" /\ sheet.open /\ ~sheet.busy
     \/ V.form = "free"
  /\ V.local => Cardinality(onPage) < Cardinality(Item)   \* bound
  /\ sheet' = [sheet EXCEPT !.busy = V.form = "waits"]
  /\ ListSend(k, "submit", sheet.of)
  /\ kept' = kept

\* the buttons of a row
RowButton(x, op, k) ==
  /\ ~sheet.open /\ x \in Slice /\ x[1] \in Item
  /\ <<x[2], op>> \in V.offers
  /\ V.row = "waits" => sheet.row # x[1]
  /\ sheet' = IF V.row = "waits" THEN [sheet EXCEPT !.row = x[1]] ELSE sheet
  /\ ListSend(k, op, x[1])
  /\ kept' = kept

\* a document of this page alone is dropped by the page
DropKept ==
  /\ ~sheet.open /\ kept
  /\ \E x \in Slice : x[1] = Spare
  /\ kept' = FALSE
  /\ UNCHANGED <<page, table, onPage, listGets, due, pill, pageNo, sheet,
                 listReq, changes>>

\* importing a file keeps a copy here, whatever becomes of the copy that is
\* sent to the server
ImportFile(k) ==
  /\ V.spare /\ ~sheet.open
  /\ kept' = TRUE
  /\ ListSend(k, "import", 0)
  /\ sheet' = sheet

ListAnswered(k) ==
  /\ listReq[k].st \in {"ok", "refused", "lost"}
  /\ listReq' = [listReq EXCEPT ![k] = NoListReq]
  /\ UNCHANGED <<page, table, onPage, listGets, pill, pageNo, changes>>

\* Any answer closes the dialog and empties it, a refusal too; only a request
\* that was lost leaves it open.  The button works again in any case
FinishSubmit(k) ==
  /\ listReq[k].what = "submit"
  /\ ListAnswered(k)
  /\ sheet' = IF listReq[k].st = "lost" THEN [sheet EXCEPT !.busy = FALSE]
              ELSE [sheet EXCEPT !.busy = FALSE, !.open = FALSE, !.of = 0]
  /\ due' = (due \/ listReq[k].st # "lost")
  /\ kept' = (kept \/ (V.spare /\ listReq[k].st = "refused"))

\* nobody looks at the answer; the list is read again
FinishRow(k) ==
  /\ listReq[k].what \notin {"none", "submit"}
  /\ ListAnswered(k)
  /\ sheet' = IF V.row = "waits" THEN [sheet EXCEPT !.row = 0] ELSE sheet
  /\ due' = (due \/ listReq[k].st # "lost")
  /\ kept' = kept

\* usePoll, or a load() of its own
ListReload(g) ==
  /\ due /\ ~V.local
  /\ ListPoll!Reload(g)
  /\ due' = V.polled
  /\ UNCHANGED <<page, table, pill, pageNo, sheet, kept, listReq, changes>>

ListMiss(g) ==
  /\ due /\ ~V.local
  /\ \/ ListPoll!Miss(g)
     \/ ~V.keeps /\ listGets[g] = {} /\ onPage' = {} /\ UNCHANGED listGets
  /\ due' = V.polled
  /\ UNCHANGED <<page, table, pill, pageNo, sheet, kept, listReq, changes>>

ListArrive(g) ==
  /\ ListPoll!Arrive(g)
  /\ UNCHANGED <<page, table, due, pill, pageNo, sheet, kept, listReq, changes>>

----------------------------------------------------------------------------
(* The cerebro.                                                            *)

\* of what was asked only "submit" matters for the answer
ListReply(k, st) ==
  /\ listReq' = [listReq EXCEPT ![k] = [
                   what |-> IF @.what = "submit" THEN "submit" ELSE "row",
                   item |-> 0, st |-> st]]
  /\ UNCHANGED <<page, onPage, listGets, due, pill, pageNo, sheet, kept, changes>>

\* the newest row; without a place for it (a bound) it does not appear, nor
\* does it when the tab looks at another than the first workspace
CreateItem(k) ==
  /\ ~V.local /\ ~V.edits /\ listReq[k].st = "sent"
  /\ listReq[k].what \in {"submit", "import"}
  /\ \/ \E i \in Item : /\ table[i] = Gone
                        /\ table' = [table EXCEPT ![i] = V.new]
     \/ table' = table
  /\ ListReply(k, "ok")

\* SetPlan of an organisation; another page may ask for the same
ChangeItem(k) ==
  /\ V.edits /\ listReq[k].st = "sent"
  /\ listReq[k].what = "submit"
  /\ \E c \in V.rows : table' = [table EXCEPT ![listReq[k].item] = c]
  /\ ListReply(k, "ok")

\* what the operations leave of a row; "remove" has no handler
Effects(op) ==
  CASE op = "disable"  -> {{"pausada"}}
    [] op = "enable"   -> {{"ativa"}}
    [] op = "suspend"  -> {{"suspended"}}
    [] op = "activate" -> {{"active"}}
    [] op = "delete"   -> {Gone}
    [] op \in {"approve", "reject"} -> {Gone, {"bloqueada"}}
    [] OTHER -> {}

\* an UPDATE or DELETE of a row that is gone changes nothing
ServeRow(k) ==
  /\ ~V.local /\ listReq[k].st = "sent"
  /\ \E c \in Effects(listReq[k].what) :
       table' = IF table[listReq[k].item] = Gone THEN table
                ELSE [table EXCEPT ![listReq[k].item] = c]
  /\ ListReply(k, "ok")

RefuseItem(k) ==
  /\ ~V.local /\ listReq[k].st = "sent"
  /\ ListReply(k, "refused")
  /\ UNCHANGED table

LoseItem(k) ==
  /\ ~V.local
  /\ listReq[k].st \in {"sent", "ok", "refused"}
  /\ ListReply(k, "lost")
  /\ UNCHANGED table

\* a demonstration page changes its own list, a new row after 600 ms
LocalItem(k) ==
  /\ V.local /\ listReq[k].st = "sent"
  /\ \/ /\ listReq[k].what = "submit"
        /\ \E i \in Item : /\ \A x \in onPage : x[1] # i
                           /\ onPage' = onPage \cup {<<i, V.new>>}
     \/ /\ listReq[k].what = "delete"
        /\ onPage' = {x \in onPage : x[1] # listReq[k].item}
  /\ listReq' = [listReq EXCEPT ![k].st = "ok"]
  /\ UNCHANGED <<page, table, listGets, due, pill, pageNo, sheet, kept, changes>>

\* workers, other users and other pages
OthersChange(i) ==
  /\ ~V.local
  /\ Change
  /\ \E c \in V.rows \cup {Gone} : table' = [table EXCEPT ![i] = c]
  /\ UNCHANGED <<page, onPage, listGets, due, pill, pageNo, sheet, kept, listReq>>

----------------------------------------------------------------------------
ListUser ==
  \/ \E f \in Pills : ChoosePill(f)
  \/ NextPage \/ PrevPage \/ CloseSheet \/ DropKept
  \/ \E i \in Item \cup {0} : OpenSheet(i)
  \/ \E k \in ListReq :
       \/ Submit(k) \/ ImportFile(k)
       \/ \E x \in Slice, o \in V.offers : RowButton(x, o[2], k)

ListPage ==
  \/ \E k \in ListReq : FinishSubmit(k) \/ FinishRow(k)
  \/ \E g \in ListGet : ListReload(g) \/ ListMiss(g) \/ ListArrive(g)

ListServer ==
  \/ \E k \in ListReq : \/ CreateItem(k) \/ ChangeItem(k) \/ ServeRow(k)
                        \/ RefuseItem(k) \/ LoseItem(k) \/ LocalItem(k)
  \/ \E i \in Item : OthersChange(i)

ListNext == ListUser \/ ListPage \/ ListServer

----------------------------------------------------------------------------
(* Properties.                                                             *)

\* "Nothing found" is never said of a list that has rows for the filter: when
\* rows go while a later page is open, the page shows the last one (safePage).
\* The home page's list of blocked tasks has no such bound.
RowsWhenAny == V.clamped /\ Filtered # {} => Slice # {}

\* The button of a dialog is inert while its request is under way and no
\* longer, also when the dialog was closed and opened meanwhile: nothing is
\* submitted twice, nothing stays locked (the creating and saving flags).
SubmitOnce ==
  V.form = "waits" =>
    /\ sheet.busy <=> \E k \in ListReq : listReq[k].what = "submit"
    /\ Cardinality({k \in ListReq : listReq[k].what = "submit"}) <= 1
=============================================================================
