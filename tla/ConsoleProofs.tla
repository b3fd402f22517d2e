--------------------------- MODULE ConsoleProofs ---------------------------
(***************************************************************************)
(* More proofs about Dashboard: what the list pages show, for any number   *)
(* of rows and any page size, and the types of all its parts.              *)
(***************************************************************************)
EXTENDS DashboardProofs, WellFoundedInduction

----------------------------------------------------------------------------
(* Numbered sets: of a finite set of pairs with different numbers, each     *)
(* rank from 0 on has its element.                                          *)

\* The least-number principle, for sets.
LEMMA LeastOf ==
  ASSUME NEW T, T \subseteq Nat, T # {}
  PROVE  \E x \in T : \A y \in T : x <= y
<1> DEFINE R == OpToRel(<, Nat)
<1>1. IsWellFoundedOn(R, Nat)
  BY NatLessThanWellFounded
<1>2. \A x, y \in Nat : x < y => <<x, y>> \in R
  BY DEF OpToRel
<1> HIDE DEF R
<1>3. PICK x \in T : \A y \in T : ~ (<<y, x>> \in R)
  BY <1>1, WFMin
<1>4. ASSUME NEW y \in T PROVE x <= y
  <2>1. ~(y < x)
    BY <1>2, <1>3
  <2> QED
    BY <2>1
<1> QED
  BY <1>4

Numbered(F) ==
  /\ IsFiniteSet(F)
  /\ \A x \in F : x[1] \in Nat
  /\ \A x, y \in F : x[1] = y[1] => x = y

Below(F, x) == {y \in F : y[1] < x[1]}
Above(F, x) == {y \in F : x[1] < y[1]}

LEMMA BelowFinite ==
  ASSUME NEW F, Numbered(F), NEW x
  PROVE  /\ IsFiniteSet(Below(F, x)) /\ Cardinality(Below(F, x)) \in Nat
         /\ IsFiniteSet(Above(F, x)) /\ Cardinality(Above(F, x)) \in Nat
<1>1. Below(F, x) \subseteq F /\ Above(F, x) \subseteq F
  BY DEF Below, Above
<1> QED
  BY <1>1, FS_Subset, FS_CardinalityType DEF Numbered

LEMMA SubsetNumbered ==
  ASSUME NEW F, Numbered(F), NEW G, G \subseteq F
  PROVE  Numbered(G)
BY FS_Subset DEF Numbered

\* The one with the fewest above it has none.
LEMMA GreatestOf ==
  ASSUME NEW F, Numbered(F), F # {}
  PROVE  \E x \in F : \A y \in F : y[1] <= x[1]
<1> DEFINE T == {Cardinality(Above(F, x)) : x \in F}
<1>1. T \subseteq Nat /\ T # {}
  BY BelowFinite
<1>2. PICK n \in T : \A m \in T : n <= m
  BY <1>1, LeastOf
<1>3. PICK x \in F : Cardinality(Above(F, x)) = n
  BY <1>2
<1>4. \A y \in F : n <= Cardinality(Above(F, y))
  BY <1>2
<1> HIDE DEF T
<1>5. ASSUME NEW y \in F, ~(y[1] <= x[1]) PROVE FALSE
  <2>1. y \in Above(F, x) /\ y \notin Above(F, y)
    BY <1>5 DEF Above, Numbered
  <2>2. Above(F, y) \subseteq Above(F, x)
    BY <1>5 DEF Above, Numbered
  <2>3. Cardinality(Above(F, y)) <= Cardinality(Above(F, x))
        /\ Cardinality(Above(F, y)) # Cardinality(Above(F, x))
    BY <2>1, <2>2, BelowFinite, FS_Subset
  <2> QED
    BY <1>3, <1>4, <2>3, BelowFinite
<1> QED
  BY <1>5

\* Without the greatest of those below it, what is below x is what is below
\* that one.
LEMMA BelowGreatest ==
  ASSUME NEW F, Numbered(F), NEW G, G \subseteq F,
         NEW y \in G, \A z \in G : z[1] <= y[1],
         \A z \in F : z[1] < y[1] => z \in G
  PROVE  /\ Below(F, y) = G \ {y}
         /\ Cardinality(Below(F, y)) = Cardinality(G) - 1
<1>1. Below(F, y) = G \ {y}
  <2>1. ASSUME NEW z \in Below(F, y) PROVE z \in G \ {y}
    BY <2>1 DEF Below, Numbered
  <2>2. ASSUME NEW z \in G \ {y} PROVE z \in Below(F, y)
    <3>1. z[1] # y[1] /\ z[1] \in Nat /\ y[1] \in Nat /\ z[1] <= y[1]
      BY DEF Numbered
    <3> QED
      BY <3>1 DEF Below
  <2> QED
    BY <2>1, <2>2
<1>2. IsFiniteSet(G)
  BY SubsetNumbered DEF Numbered
<1> QED
  BY <1>1, <1>2, FS_RemoveElement

LEMMA EveryRank ==
  ASSUME NEW F, Numbered(F), NEW k \in Nat, k < Cardinality(F)
  PROVE  \E x \in F : Cardinality(Below(F, x)) = k
<1>1. IsFiniteSet(F) /\ Cardinality(F) \in Nat /\ F # {}
  BY FS_CardinalityType, FS_EmptySet DEF Numbered
<1> DEFINE X == {x \in F : Cardinality(Below(F, x)) >= k}
<1>2. X # {}
  <2>1. PICK m \in F : \A y \in F : y[1] <= m[1]
    BY <1>1, GreatestOf
  <2>2. Cardinality(Below(F, m)) = Cardinality(F) - 1
    BY <2>1, BelowGreatest
  <2>3. Cardinality(Below(F, m)) >= k
    BY <1>1, <2>2
  <2> QED
    BY <2>3
<1>3. PICK x \in X : \A y \in X : x[1] <= y[1]
  <2> DEFINE T == {x[1] : x \in X}
  <2>1. T \subseteq Nat /\ T # {}
    BY <1>2 DEF Numbered
  <2>2. PICK n \in T : \A m \in T : n <= m
    BY <2>1, LeastOf
  <2> QED
    BY <2>2
<1>4. ASSUME Cardinality(Below(F, x)) > k PROVE FALSE
  <2> DEFINE G == Below(F, x)
  <2>1. G \subseteq F /\ Numbered(G) /\ G # {}
    BY <1>4, SubsetNumbered, FS_EmptySet DEF Below
  <2>2. PICK y \in G : \A z \in G : z[1] <= y[1]
    BY <2>1, GreatestOf
  <2>3. \A z \in F : z[1] < y[1] => z \in G
    BY <2>2 DEF Below, Numbered
  <2>4. Cardinality(Below(F, y)) = Cardinality(G) - 1
    BY <2>1, <2>2, <2>3, BelowGreatest
  <2>5. Cardinality(Below(F, y)) >= k
    BY <1>4, <2>4, BelowFinite
  <2>6. y \in X /\ y[1] < x[1] /\ x \in F
    BY <2>5 DEF Below
  <2> QED
    BY <1>3, <2>6 DEF Numbered
<1> QED
  BY <1>3, <1>4, BelowFinite

----------------------------------------------------------------------------
(* What a list page reads is one state of the server's table, so no two of   *)
(* its rows have the same number, however late the answer arrives.           *)

LEMMA ViewShapes ==
  ASSUME NEW p \in DOMAIN View
  PROVE  /\ View[p].size \in {0, PageSize}
         /\ View[p].demo \in {{}, {<<0, {"paga"}>>}}
         /\ View[p].polled \in BOOLEAN
         /\ View[p].local => ~View[p].edits
         /\ (View[p].form # "none" \/ View[p].spare) /\ ~View[p].edits
              => View[p].new \in View[p].rows
         /\ \A o \in View[p].offers : Effects(o[2]) \subseteq View[p].rows \cup {Gone}
<1> DEFINE Good(R) == /\ R.size \in {0, PageSize}
                      /\ R.demo \in {{}, {<<0, {"paga"}>>}}
                      /\ R.polled \in BOOLEAN
                      /\ R.local => ~R.edits
           New(R) == (R.form # "none" \/ R.spare) /\ ~R.edits => R.new \in R.rows
           Fit(R) == \A o \in R.offers : Effects(o[2]) \subseteq R.rows \cup {Gone}
<1>1. /\ Good(QueueList) /\ Good(TaskList) /\ Good(PrList)
      /\ Good(HomeWorkers) /\ Good(HomePrs) /\ Good(HomeBlocked)
      /\ Good(HomeLog) /\ Good(LiveWorkers) /\ Good(InterventionList)
      /\ Good(RoutineList) /\ Good(QaList) /\ Good(CiList) /\ Good(LogList)
  BY DEF QueueList, TaskList, TaskDialog, PrList, HomeWorkers, HomePrs,
         HomeBlocked, HomeLog, LiveWorkers, InterventionList, RoutineList,
         RoutineDialog, QaList, CiList, LogList, Paged, Plain
<1>2. /\ Good(DocList) /\ Good(MemoryList) /\ Good(MemberList)
      /\ Good(InvoiceList) /\ Good(AuditList) /\ Good(CloudList)
  BY DEF DocList, DocDialog, MemoryList, MemberList, InviteDialog, InvoiceList,
         AuditList, CloudList, CloudDialog, Paged, Plain
<1>3. /\ Good(OrgList) /\ Good(UserList) /\ Good(AdminAudit)
      /\ Good(AdminPlans) /\ Good(AdminOverview)
  BY DEF OrgList, OrgDialog, UserList, AdminAudit, AdminPlans, AdminOverview,
         Admin, Plain
<1>4. View[p] \in {QueueList, TaskList, PrList, HomeWorkers, HomePrs,
                   HomeBlocked, HomeLog, LiveWorkers, InterventionList,
                   RoutineList, QaList, CiList, LogList, DocList, MemoryList,
                   MemberList, InvoiceList, AuditList, CloudList, OrgList,
                   UserList, AdminAudit, AdminPlans, AdminOverview}
  BY DEF View
<1>5. /\ New(QueueList) /\ New(PrList) /\ New(HomeWorkers) /\ New(HomePrs)
      /\ New(HomeBlocked) /\ New(HomeLog) /\ New(LiveWorkers)
      /\ New(InterventionList) /\ New(QaList) /\ New(CiList) /\ New(LogList)
      /\ New(InvoiceList) /\ New(AuditList) /\ New(UserList)
      /\ New(AdminAudit) /\ New(AdminPlans) /\ New(AdminOverview)
      /\ New(OrgList)
  BY DEF QueueList, PrList, HomeWorkers, HomePrs, HomeBlocked, HomeLog,
         LiveWorkers, InterventionList, QaList, CiList, LogList, InvoiceList,
         AuditList, UserList, AdminAudit, AdminPlans, AdminOverview, OrgList,
         OrgDialog, Admin, Paged, Plain
<1>6. /\ New(TaskList) /\ New(RoutineList) /\ New(DocList) /\ New(MemoryList)
      /\ New(MemberList) /\ New(CloudList)
  BY DEF TaskList, TaskDialog, TaskRows, RoutineList, RoutineDialog, DocList,
         DocDialog, MemoryList, MemberList, InviteDialog, CloudList,
         CloudDialog, Paged, Plain
<1>7. ASSUME NEW R, R.offers = {} PROVE Fit(R)
  BY <1>7
<1>8. /\ QueueList.offers = {} /\ TaskList.offers = {} /\ PrList.offers = {}
      /\ HomeWorkers.offers = {} /\ HomePrs.offers = {}
      /\ HomeBlocked.offers = {} /\ HomeLog.offers = {}
      /\ LiveWorkers.offers = {} /\ QaList.offers = {} /\ CiList.offers = {}
      /\ LogList.offers = {} /\ InvoiceList.offers = {} /\ AuditList.offers = {}
      /\ OrgList.offers = {} /\ AdminAudit.offers = {}
      /\ AdminPlans.offers = {} /\ AdminOverview.offers = {}
  BY DEF QueueList, TaskList, TaskDialog, PrList, HomeWorkers, HomePrs,
         HomeBlocked, HomeLog, LiveWorkers, QaList, CiList, LogList, InvoiceList,
         AuditList, OrgList, OrgDialog, AdminAudit, AdminPlans, AdminOverview,
         Admin, Paged, Plain
<1>9. /\ Effects("delete") = {Gone} /\ Effects("remove") = {}
      /\ Effects("approve") = {Gone, {"bloqueada"}}
      /\ Effects("reject") = {Gone, {"bloqueada"}}
      /\ Effects("disable") = {{"pausada"}} /\ Effects("enable") = {{"ativa"}}
      /\ Effects("suspend") = {{"suspended"}} /\ Effects("activate") = {{"active"}}
  BY DEF Effects
<1>10. Fit(InterventionList) /\ Fit(RoutineList) /\ Fit(UserList)
  <2>1. /\ InterventionList.rows = {{"decisao"}, {"bloqueada"}}
        /\ InterventionList.offers = InterventionOffers
        /\ RoutineList.rows = {{"ativa"}, {"pausada"}}
        /\ RoutineList.offers = RoutineOffers
        /\ UserList.rows = {{"active"}, {"suspended"}}
        /\ UserList.offers = UserOffers
    BY DEF InterventionList, RoutineList, RoutineDialog, UserList, Admin, Paged,
           Plain
  <2>2. /\ \A o \in InterventionOffers : o[2] \in {"approve", "reject"}
        /\ \A o \in RoutineOffers : o[2] \in {"disable", "enable", "delete"}
        /\ \A o \in UserOffers : o[2] \in {"suspend", "activate"}
    BY DEF InterventionOffers, RoutineOffers, UserOffers
  <2> QED
    BY <1>9, <2>1, <2>2
<1>11. Fit(DocList) /\ Fit(MemoryList) /\ Fit(MemberList) /\ Fit(CloudList)
  <2>1. /\ DocList.offers = DocOffers /\ MemberList.offers = MemberOffers
        /\ CloudList.offers = CloudOffers /\ MemoryList.offers = {<<{}, "delete">>}
    BY DEF DocList, DocDialog, MemberList, InviteDialog, CloudList, CloudDialog,
           MemoryList, Paged, Plain
  <2>2. \A o \in DocOffers \cup MemberOffers \cup CloudOffers \cup {<<{}, "delete">>} :
          o[2] \in {"remove", "delete"}
    BY DEF DocOffers, MemberOffers, CloudOffers
  <2> QED
    BY <1>9, <2>1, <2>2
<1> HIDE DEF Good, New, Fit
<1>12. Good(View[p])
  BY <1>1, <1>2, <1>3, <1>4
<1>13. New(View[p])
  BY <1>4, <1>5, <1>6
<1>14. Fit(View[p])
  BY <1>4, <1>7, <1>8, <1>10, <1>11
<1> QED
  BY <1>12, <1>13, <1>14 DEF Good, New, Fit

\* Rows of the table, each with its own number.
ItemRows(S) == /\ \A x \in S : x[1] \in Item
               /\ \A x, y \in S : x[1] = y[1] => x = y

\* What was asked for fits the page it was asked on.
Fits(r) ==
  /\ r.what \in RowOps => \E o \in V.offers : o[2] = r.what
  /\ r.what \in {"submit", "import"} => V.form # "none" \/ V.spare

ReadOk(S) == S \subseteq Item \X V.rows /\ ItemRows(S)

RowsInv ==
  /\ ListTypeOK
  /\ ReadOk(onPage)
  /\ listGets \in [ListGet -> SUBSET {S \in SUBSET (Item \X V.rows) : ReadOk(S)}]
  /\ \A k \in ListReq : Fits(listReq[k])

LEMMA TableRows ==
  ASSUME ListTypeOK
  PROVE  ReadOk(InTable) /\ ReadOk({})
BY DEF ReadOk, ItemRows, InTable, ListTypeOK

LEMMA PagesNat ==
  ASSUME ListInv, IsFiniteSet(Filtered)
  PROVE  Pages \in Nat \ {0}
<1> DEFINE n == Cardinality(Filtered)
           sz == V.size
<1>1. n \in Nat /\ sz \in {0, PageSize} /\ PageSize \in Nat \ {0}
  BY FS_CardinalityType, ViewShapes, PageSizeAssumption DEF ListInv, V
<1>2. Pages = IF sz = 0 THEN 1
              ELSE IF (n + sz - 1) \div sz = 0 THEN 1 ELSE (n + sz - 1) \div sz
  BY DEF Pages
<1> HIDE DEF n, sz
<1>3. sz # 0 => (n + sz - 1) \div sz \in Nat
  BY <1>1
<1> QED
  BY <1>1, <1>2, <1>3

LEMMA RowsNumbered ==
  ASSUME ListInv, RowsInv
  PROVE  Numbered(Filtered)
<1>1. PICK n \in Nat : Item = 1..n
  BY ListAssumption, FS_CardinalityType
<1>2. IsFiniteSet(Item) /\ Cardinality(Item) = n
  BY <1>1, FS_Interval
<1>3. IsFiniteSet(onPage)
  <2> DEFINE f == [x \in onPage |-> x[1]]
  <2>1. f \in Injection(onPage, Item)
    BY DEF RowsInv, ReadOk, ItemRows, Injection, IsInjective
  <2> QED
    BY <1>2, <2>1, FS_Injection
<1>4. Numbered(onPage)
  BY <1>1, <1>3 DEF Numbered, RowsInv, ReadOk, ItemRows
<1>5. Numbered(onPage \cup {<<Spare, V.new>>})
  <2>1. Spare = n + 1
    BY <1>2 DEF Spare
  <2>2. IsFiniteSet(onPage \cup {<<Spare, V.new>>})
    BY <1>3, FS_AddElement
  <2>3. \A x \in onPage : x[1] \in 1..n
    BY <1>1 DEF RowsInv, ReadOk, ItemRows
  <2> QED
    BY <1>4, <2>1, <2>2, <2>3 DEF Numbered
<1>6. Numbered({}) /\ Numbered({<<0, {"paga"}>>})
  <2> DEFINE e == <<0, {"paga"}>>
  <2>1. e[1] \in Nat
    OBVIOUS
  <2> HIDE DEF e
  <2>2. Numbered({e})
    BY <2>1, FS_Singleton DEF Numbered
  <2>3. Numbered({})
    BY FS_EmptySet DEF Numbered
  <2> QED
    BY <2>2, <2>3 DEF e
<1>7. V.demo \in {{}, {<<0, {"paga"}>>}}
  BY ViewShapes DEF ListInv, V
<1>8. Numbered(Rows)
  BY <1>4, <1>5, <1>6, <1>7 DEF Rows
<1>9. Filtered \subseteq Rows
  BY DEF Filtered
<1> QED
  BY <1>8, <1>9, SubsetNumbered

\* The row that starts the page shown is there: its rank is the number of rows
\* on the pages before.
LEMMA RowsShown == ListInv /\ RowsInv => RowsWhenAny
<1> SUFFICES ASSUME ListInv, RowsInv, V.clamped, Filtered # {}
             PROVE  Slice # {}
  BY DEF RowsWhenAny
<1> DEFINE n == Cardinality(Filtered)
           sz == V.size
<1>1. Numbered(Filtered)
  BY RowsNumbered
<1>2. n \in Nat /\ n > 0
  BY <1>1, FS_CardinalityType, FS_EmptySet DEF Numbered
<1>3. CASE sz = 0
  BY <1>3 DEF Slice
<1>4. CASE sz # 0
  <2>1. sz \in Nat /\ sz > 0
    BY <1>4, ViewShapes, PageSizeAssumption DEF ListInv, V
  <2> DEFINE m == (n + sz - 1) \div sz
             k == SafePage * sz
  <2>2. Pages = IF m = 0 THEN 1 ELSE m
    BY <1>4 DEF Pages
  <2>3. Pages \in Nat \ {0}
    BY <1>1, PagesNat DEF Numbered
  <2>4. SafePage \in Nat /\ SafePage <= Pages - 1
    BY <2>3 DEF SafePage, RowsInv, ListTypeOK
  <2> HIDE DEF n, sz
  <2>5. m \in Nat /\ m > 0 /\ m * sz <= n + sz - 1
    BY <1>2, <2>1
  <2>6. SafePage + 1 <= m
    BY <2>2, <2>4, <2>5
  <2>7. (SafePage + 1) * sz <= m * sz
    BY <2>1, <2>4, <2>5, <2>6
  <2>8. k \in Nat /\ (SafePage + 1) * sz = k + sz
    BY <2>1, <2>4
  <2>9. k < n
    BY <1>2, <2>1, <2>5, <2>7, <2>8
  <2>10. PICK x \in Filtered : Cardinality(Below(Filtered, x)) = k
    BY <1>1, <2>8, <2>9, EveryRank DEF n
  <2>11. Before(x) = k
    BY <2>10 DEF Before, Below
  <2>12. Before(x) >= SafePage * sz /\ Before(x) < (SafePage + 1) * sz
    BY <2>1, <2>8, <2>11
  <2> QED
    BY <1>4, <2>12 DEF Slice, sz
<1> QED
  BY <1>3, <1>4

----------------------------------------------------------------------------
(* It stays so.                                                             *)

LEMMA PagesBound ==
  ASSUME ListInv, RowsInv
  PROVE  Pages \in Nat \ {0} /\ Pages - 1 \in 0..Cardinality(Item)
<1>1. IsFiniteSet(Filtered) /\ Cardinality(Item) \in Nat
  BY RowsNumbered, ListAssumption, FS_CardinalityType DEF Numbered
<1>2. Pages \in Nat \ {0}
  BY <1>1, PagesNat
<1>3. Cardinality(Filtered) \in Nat /\ Cardinality(Filtered) <= Cardinality(Item) + 1
  <2> DEFINE f == [x \in Filtered |-> x[1]]
             N == 0..Cardinality(Item)
  <2>1. IsFiniteSet(N) /\ Cardinality(N) = Cardinality(Item) + 1
    BY <1>1, FS_Interval
  <2>2. Numbered(Filtered)
    BY RowsNumbered
  <2>3. CASE onPage = {}
    <3>1. V.demo \in {{}, {<<0, {"paga"}>>}}
      BY ViewShapes DEF ListInv, V
    <3>2. \A x \in Filtered : x[1] = 0
      BY <2>3, <3>1 DEF Filtered, Rows
    <3>3. f \in Injection(Filtered, N)
      BY <1>1, <2>2, <3>2 DEF Numbered, Injection, IsInjective
    <3> QED
      BY <2>1, <3>3, FS_Injection, FS_CardinalityType
  <2>4. CASE onPage # {}
    <3>1. Filtered \subseteq onPage \cup {<<Spare, V.new>>}
      BY <2>4 DEF Filtered, Rows
    <3>2. \A x \in Filtered : x[1] \in 1..(Cardinality(Item) + 1)
      BY <1>1, <3>1, ListAssumption DEF Spare, RowsInv, ReadOk, ItemRows
    <3> DEFINE M == 1..(Cardinality(Item) + 1)
    <3>3. f \in Injection(Filtered, M)
      BY <2>2, <3>2 DEF Numbered, Injection, IsInjective
    <3>4. IsFiniteSet(M) /\ Cardinality(M) = Cardinality(Item) + 1
      BY <1>1, FS_Interval
    <3> QED
      BY <3>3, <3>4, FS_Injection, FS_CardinalityType
  <2> QED
    BY <2>3, <2>4
<1> DEFINE n == Cardinality(Filtered)
           c == Cardinality(Item)
           sz == V.size
<1>4. n \in Nat /\ c \in Nat /\ n <= c + 1
  BY <1>1, <1>3
<1>5. sz \in Nat
  BY ViewShapes, PageSizeAssumption DEF ListInv, V
<1>6. Pages = IF sz = 0 THEN 1
              ELSE IF (n + sz - 1) \div sz = 0 THEN 1 ELSE (n + sz - 1) \div sz
  BY DEF Pages
<1> HIDE DEF n, c, sz
<1>7. ASSUME sz # 0 PROVE (n + sz - 1) \div sz <= c + 1
  <2> DEFINE m == (n + sz - 1) \div sz
  <2>1. m \in Nat /\ m * sz <= n + sz - 1
    BY <1>4, <1>5, <1>7
  <2>2. ASSUME m > n + 0, n > 0 PROVE FALSE
    <3>1. m * sz >= (n + 1) * sz
      BY <1>4, <1>5, <2>1, <2>2
    <3>2. (n + 1) * sz = n * sz + sz /\ n * sz >= n
      BY <1>4, <1>5, <1>7
    <3> QED
      BY <1>4, <1>5, <2>1, <3>1, <3>2
  <2>3. n = 0 => m = 0
    BY <1>4, <1>5, <1>7
  <2> QED
    BY <1>4, <2>1, <2>2, <2>3
<1> QED
  BY <1>2, <1>4, <1>6, <1>7 DEF c

LEMMA RowsFrame ==
  ASSUME RowsInv, ListInv', page' = page,
         table' \in [Item -> V.rows \cup {Gone}],
         ReadOk(onPage'),
         listGets' \in [ListGet -> SUBSET {S \in SUBSET (Item \X V.rows) : ReadOk(S)}],
         due' \in BOOLEAN, kept' \in BOOLEAN, pill' \in Pills,
         pageNo' \in 0..Cardinality(Item), changes' \in 0..MaxChanges,
         \A k \in ListReq : Fits(listReq'[k])
  PROVE  RowsInv'
<1>1. V' = V
  BY DEF V
<1>2. Pills' = Pills
  BY <1>1 DEF Pills
<1>3. /\ page' \in DOMAIN View /\ sheet' \in SheetView
      /\ \A k \in ListReq : listReq'[k].st \in {"free", "sent", "ok", "refused", "lost"}
  BY DEF ListInv, ListAsk
<1>4. ListTypeOK'
  BY <1>1, <1>2, <1>3 DEF ListTypeOK, SheetView, ReadOk
<1>5. \A S : ReadOk(S)' <=> ReadOk(S)
  BY <1>1 DEF ReadOk, ItemRows
<1>6. ReadOk(onPage)'
  BY <1>1 DEF ReadOk, ItemRows
<1>7. \A k \in ListReq : Fits(listReq[k])'
  BY <1>1 DEF Fits
<1>8. listGets' \in [ListGet -> SUBSET {S \in SUBSET (Item \X V'.rows) : ReadOk(S)'}]
  BY <1>1, <1>5
<1> QED
  BY <1>4, <1>6, <1>7, <1>8 DEF RowsInv

\* What one step changes at a time: the filter and the page index, the
\* requests, or the rows.
LEMMA RowsPaged ==
  ASSUME ListInv, RowsInv, ListInv',
         UNCHANGED <<page, table, onPage, listGets, due, listReq, changes>>,
         kept' \in BOOLEAN, pill' \in Pills, pageNo' \in 0..Cardinality(Item)
  PROVE  RowsInv'
<1>1. /\ table' \in [Item -> V.rows \cup {Gone}] /\ ReadOk(onPage')
      /\ due' \in BOOLEAN /\ changes' \in 0..MaxChanges
      /\ \A k \in ListReq : Fits(listReq'[k])
  BY DEF RowsInv, ListTypeOK
<1>2. listGets' \in [ListGet -> SUBSET {S \in SUBSET (Item \X V.rows) : ReadOk(S)}]
  BY DEF RowsInv
<1>3. page' = page
  OBVIOUS
<1> QED
  BY <1>1, <1>2, <1>3, RowsFrame

LEMMA RowsAsked ==
  ASSUME ListInv, RowsInv, ListInv', NEW k \in ListReq, NEW r, Fits(r),
         listReq' = [listReq EXCEPT ![k] = r],
         UNCHANGED <<page, table, onPage, listGets, pill, pageNo>>,
         due' \in BOOLEAN, kept' \in BOOLEAN, changes' \in 0..MaxChanges
  PROVE  RowsInv'
<1>1. /\ table' \in [Item -> V.rows \cup {Gone}] /\ ReadOk(onPage')
      /\ pill' \in Pills /\ pageNo' \in 0..Cardinality(Item) /\ page' = page
  BY DEF RowsInv, ListTypeOK
<1>2. \A j \in ListReq : Fits(listReq'[j])
  <2>1. listReq \in [ListReq -> ListAsk]
    BY DEF ListInv
  <2>2. \A j \in ListReq : listReq'[j] = IF j = k THEN r ELSE listReq[j]
    BY <2>1
  <2> QED
    BY <2>2 DEF RowsInv
<1>3. listGets' \in [ListGet -> SUBSET {S \in SUBSET (Item \X V.rows) : ReadOk(S)}]
  BY DEF RowsInv
<1> QED
  BY <1>1, <1>2, <1>3, RowsFrame

\* The server takes a request or loses it; the rows it leaves are of the page.
LEMMA RowsReplied ==
  ASSUME ListInv, RowsInv, ListInv', NEW k \in ListReq,
         NEW st \in {"ok", "refused", "lost"}, ListReply(k, st),
         table' \in [Item -> V.rows \cup {Gone}]
  PROVE  RowsInv'
<1> DEFINE r == [what |-> IF listReq[k].what = "submit" THEN "submit" ELSE "row",
                 item |-> 0, st |-> st]
<1>1. r.what = (IF listReq[k].what = "submit" THEN "submit" ELSE "row")
  OBVIOUS
<1>2. /\ listReq' = [listReq EXCEPT ![k] = r]
      /\ UNCHANGED <<page, onPage, listGets, due, pill, pageNo, kept, changes>>
  BY DEF ListReply
<1> HIDE DEF r
<1>3. Fits(r)
  BY <1>1 DEF Fits, RowsInv, RowOps
<1>4. \A j \in ListReq : Fits(listReq'[j])
  <2>1. listReq \in [ListReq -> ListAsk]
    BY DEF ListInv
  <2>2. \A j \in ListReq : listReq'[j] = IF j = k THEN r ELSE listReq[j]
    BY <1>2, <2>1
  <2> QED
    BY <1>3, <2>2 DEF RowsInv
<1>5. /\ ReadOk(onPage') /\ pill' \in Pills /\ pageNo' \in 0..Cardinality(Item)
      /\ page' = page /\ due' \in BOOLEAN /\ kept' \in BOOLEAN
      /\ changes' \in 0..MaxChanges
  BY <1>2 DEF RowsInv, ListTypeOK
<1>6. listGets' \in [ListGet -> SUBSET {S \in SUBSET (Item \X V.rows) : ReadOk(S)}]
  BY <1>2 DEF RowsInv
<1> QED
  BY <1>4, <1>5, <1>6, RowsFrame

\* The lists the page has or is being sent change; the table does not.
LEMMA RowsRead ==
  ASSUME ListInv, RowsInv, ListInv', ReadOk(onPage'),
         listGets' \in [ListGet -> SUBSET {S \in SUBSET (Item \X V.rows) : ReadOk(S)}],
         due' \in BOOLEAN,
         UNCHANGED <<page, table, pill, pageNo, sheet, kept, listReq, changes>>
  PROVE  RowsInv'
<1>1. /\ table' \in [Item -> V.rows \cup {Gone}]
      /\ pill' \in Pills /\ pageNo' \in 0..Cardinality(Item)
      /\ page' = page /\ kept' \in BOOLEAN /\ changes' \in 0..MaxChanges
      /\ \A k \in ListReq : Fits(listReq'[k])
  BY DEF RowsInv, ListTypeOK
<1> QED
  BY <1>1, RowsFrame

LEMMA RowsInitInv == ListInit => RowsInv
<1> SUFFICES ASSUME ListInit PROVE RowsInv
  OBVIOUS
<1>1. page \in DOMAIN View /\ table \in [Item -> V.rows] /\ pill = All
      /\ due = TRUE /\ pageNo = 0 /\ sheet = Shut /\ kept = FALSE /\ changes = 0
      /\ listReq = [k \in ListReq |-> NoListReq]
  BY DEF ListInit
<1>2. Cardinality(Item) \in Nat /\ MaxChanges \in Nat
  BY ListAssumption, FS_CardinalityType
<1>3. Shut \in [open : BOOLEAN, of : Item \cup {0}, busy : BOOLEAN,
                row : Item \cup {0}]
  BY DEF Shut
<1>4. onPage \in {InTable, {}} /\ listGets = [g \in ListGet |-> {}]
  BY DEF ListInit, ListPoll!PollInit, ListPoll!Idle
<1>5. ReadOk(InTable) /\ ReadOk({})
  BY <1>1 DEF ReadOk, ItemRows, InTable
<1>6. ListTypeOK
  <2>1. onPage \subseteq Item \X V.rows
    BY <1>4, <1>5 DEF ReadOk
  <2>2. \A k \in ListReq : listReq[k].st = "free"
    BY <1>1 DEF NoListReq
  <2>3. pill \in Pills
    BY <1>1 DEF Pills
  <2>4. table \in [Item -> V.rows \cup {Gone}]
    BY <1>1
  <2>5. pageNo \in 0..Cardinality(Item) /\ changes \in 0..MaxChanges
    BY <1>1, <1>2
  <2> QED
    BY <1>1, <1>3, <2>1, <2>2, <2>3, <2>4, <2>5 DEF ListTypeOK
<1>7. \A k \in ListReq : Fits(listReq[k])
  BY <1>1 DEF Fits, NoListReq, RowOps
<1> QED
  BY <1>4, <1>5, <1>6, <1>7 DEF RowsInv

LEMMA RowsUserInv ==
  ASSUME ListInv, RowsInv, ListInv', ListUser
  PROVE  RowsInv'
<1>0. /\ kept \in BOOLEAN /\ pill \in Pills /\ pageNo \in 0..Cardinality(Item)
      /\ due \in BOOLEAN /\ changes \in 0..MaxChanges
      /\ Cardinality(Item) \in Nat /\ MaxChanges \in Nat
  BY ListAssumption, FS_CardinalityType DEF RowsInv, ListTypeOK
<1>1. /\ Pages \in Nat \ {0} /\ Pages - 1 \in 0..Cardinality(Item)
  BY PagesBound
<1>2. Change => changes' \in 0..MaxChanges
  BY <1>0 DEF Change
<1>3. ASSUME NEW f \in Pills, ChoosePill(f) PROVE RowsInv'
  <2>1. /\ UNCHANGED <<page, table, onPage, listGets, due, listReq, changes>>
        /\ kept' \in BOOLEAN /\ pill' \in Pills /\ pageNo' \in 0..Cardinality(Item)
    BY <1>0, <1>3 DEF ChoosePill, Reading
  <2> QED
    BY <2>1, RowsPaged
<1>4. CASE NextPage
  <2>1. pageNo' \in 0..Cardinality(Item)
    BY <1>0, <1>1, <1>4 DEF NextPage
  <2>2. /\ UNCHANGED <<page, table, onPage, listGets, due, listReq, changes>>
        /\ kept' \in BOOLEAN /\ pill' \in Pills
    BY <1>0, <1>4 DEF NextPage, Reading
  <2> QED
    BY <2>1, <2>2, RowsPaged
<1>5. CASE PrevPage
  <2>1. pageNo > 0
    BY <1>0, <1>1, <1>5 DEF PrevPage, SafePage
  <2>2. pageNo' \in 0..Cardinality(Item)
    BY <1>0, <1>5, <2>1 DEF PrevPage
  <2>3. /\ UNCHANGED <<page, table, onPage, listGets, due, listReq, changes>>
        /\ kept' \in BOOLEAN /\ pill' \in Pills
    BY <1>0, <1>5 DEF PrevPage, Reading
  <2> QED
    BY <2>2, <2>3, RowsPaged
<1>6. CASE CloseSheet \/ DropKept \/ \E i \in Item \cup {0} : OpenSheet(i)
  <2>1. /\ UNCHANGED <<page, table, onPage, listGets, due, listReq, changes>>
        /\ kept' \in BOOLEAN /\ pill' \in Pills /\ pageNo' \in 0..Cardinality(Item)
    BY <1>0, <1>6 DEF CloseSheet, DropKept, OpenSheet, Reading
  <2> QED
    BY <2>1, RowsPaged
<1>7. ASSUME NEW k \in ListReq, Submit(k) PROVE RowsInv'
  <2> DEFINE r == [what |-> "submit", item |-> sheet.of, st |-> "sent"]
  <2>1. /\ listReq' = [listReq EXCEPT ![k] = r] /\ Change
        /\ UNCHANGED <<page, table, onPage, listGets, due, pill, pageNo, kept>>
    BY <1>7 DEF Submit, ListSend
  <2>2. Fits(r)
    BY <1>7 DEF Submit, Fits, RowOps
  <2> HIDE DEF r
  <2> QED
    BY <1>0, <1>2, <2>1, <2>2, RowsAsked
<1>8. ASSUME NEW k \in ListReq, ImportFile(k) PROVE RowsInv'
  <2> DEFINE r == [what |-> "import", item |-> 0, st |-> "sent"]
  <2>1. /\ listReq' = [listReq EXCEPT ![k] = r] /\ Change /\ kept' \in BOOLEAN
        /\ UNCHANGED <<page, table, onPage, listGets, due, pill, pageNo>>
    BY <1>8 DEF ImportFile, ListSend
  <2>2. Fits(r)
    BY <1>8 DEF ImportFile, Fits, RowOps
  <2> HIDE DEF r
  <2> QED
    BY <1>0, <1>2, <2>1, <2>2, RowsAsked
<1>9. ASSUME NEW k \in ListReq, NEW x \in Slice, NEW o \in V.offers,
             RowButton(x, o[2], k)
      PROVE  RowsInv'
  <2> DEFINE r == [what |-> o[2], item |-> x[1], st |-> "sent"]
  <2>1. /\ listReq' = [listReq EXCEPT ![k] = r] /\ Change
        /\ UNCHANGED <<page, table, onPage, listGets, due, pill, pageNo, kept>>
    BY <1>9 DEF RowButton, ListSend
  <2>2. o[2] \in RowOps
    BY OffersType DEF ListInv, V
  <2>3. Fits(r)
    BY <2>2 DEF Fits, RowOps
  <2> HIDE DEF r
  <2> QED
    BY <1>0, <1>2, <2>1, <2>3, RowsAsked
<1> QED
  BY <1>3, <1>4, <1>5, <1>6, <1>7, <1>8, <1>9 DEF ListUser

LEMMA RowsPageInv ==
  ASSUME ListInv, RowsInv, ListInv', ListPage
  PROVE  RowsInv'
<1> DEFINE Lists == {S \in SUBSET (Item \X V.rows) : ReadOk(S)}
<1>0. /\ kept \in BOOLEAN /\ due \in BOOLEAN /\ changes \in 0..MaxChanges
      /\ ReadOk(onPage) /\ listGets \in [ListGet -> SUBSET Lists]
      /\ ReadOk(InTable) /\ ReadOk({}) /\ V.polled \in BOOLEAN
  BY TableRows, ViewShapes DEF RowsInv, ListTypeOK, ListInv, V
<1>1. {} \in SUBSET Lists /\ {InTable} \in SUBSET Lists
  BY <1>0 DEF ReadOk
<1>2. \A g \in ListGet : \A S \in listGets[g] : ReadOk(S)
  BY <1>0
<1> HIDE DEF Lists
<1>3. ASSUME NEW k \in ListReq, FinishSubmit(k) \/ FinishRow(k) PROVE RowsInv'
  <2>1. /\ listReq' = [listReq EXCEPT ![k] = NoListReq]
        /\ UNCHANGED <<page, table, onPage, listGets, pill, pageNo, changes>>
    BY <1>3 DEF FinishSubmit, FinishRow, ListAnswered
  <2>2. due' \in BOOLEAN /\ kept' \in BOOLEAN
    BY <1>0, <1>3 DEF FinishSubmit, FinishRow
  <2>3. Fits(NoListReq)
    BY DEF Fits, NoListReq, RowOps
  <2> QED
    BY <1>0, <2>1, <2>2, <2>3, RowsAsked
<1>4. ASSUME NEW g \in ListGet, ListReload(g) PROVE RowsInv'
  <2>1. /\ listGets' = [listGets EXCEPT ![g] = {InTable}] /\ onPage' = onPage
        /\ due' = V.polled
        /\ UNCHANGED <<page, table, pill, pageNo, sheet, kept, listReq, changes>>
    BY <1>4 DEF ListReload, ListPoll!Reload, ListPoll!Data
  <2>2. listGets' \in [ListGet -> SUBSET Lists]
    BY <1>0, <1>1, <2>1
  <2> QED
    BY <1>0, <2>1, <2>2, RowsRead DEF Lists
<1>5. ASSUME NEW g \in ListGet, ListMiss(g) PROVE RowsInv'
  <2>1. /\ listGets' = listGets /\ onPage' \in {onPage, {}} /\ due' = V.polled
        /\ UNCHANGED <<page, table, pill, pageNo, sheet, kept, listReq, changes>>
    BY <1>5 DEF ListMiss, ListPoll!Miss
  <2>2. listGets' \in [ListGet -> SUBSET Lists]
    BY <1>0, <2>1
  <2>3. ReadOk(onPage')
    BY <1>0, <2>1
  <2> QED
    BY <1>0, <2>1, <2>2, <2>3, RowsRead DEF Lists
<1>6. ASSUME NEW g \in ListGet, ListArrive(g) PROVE RowsInv'
  <2>1. /\ listGets' = [listGets EXCEPT ![g] = {}] /\ onPage' \in listGets[g]
        /\ UNCHANGED <<page, table, due, pill, pageNo, sheet, kept, listReq, changes>>
    BY <1>6 DEF ListArrive, ListPoll!Arrive, ListPoll!Idle
  <2>2. listGets' \in [ListGet -> SUBSET Lists]
    BY <1>0, <1>1, <2>1
  <2>3. ReadOk(onPage')
    BY <1>2, <2>1
  <2> QED
    BY <1>0, <2>1, <2>2, <2>3, RowsRead DEF Lists
<1> QED
  BY <1>3, <1>4, <1>5, <1>6 DEF ListPage

LEMMA RowsServerInv ==
  ASSUME ListInv, RowsInv, ListInv', ListServer
  PROVE  RowsInv'
<1> DEFINE T == [Item -> V.rows \cup {Gone}]
<1>0. /\ table \in T /\ ReadOk(onPage) /\ MaxChanges \in Nat
      /\ changes \in 0..MaxChanges /\ due \in BOOLEAN /\ kept \in BOOLEAN
      /\ pill \in Pills /\ pageNo \in 0..Cardinality(Item)
      /\ page \in DOMAIN View
      /\ \A k \in ListReq : Fits(listReq[k])
  BY ListAssumption DEF RowsInv, ListTypeOK, ListInv
<1>1. \A k \in ListReq : ~V.edits /\ listReq[k].what \in {"submit", "import"}
                           => V.new \in V.rows
  BY <1>0, ViewShapes DEF Fits, V
<1>2. \A i, c : c \in V.rows \cup {Gone} => [table EXCEPT ![i] = c] \in T
  BY <1>0
<1> HIDE DEF T
<1>3. ASSUME NEW k \in ListReq, CreateItem(k) PROVE RowsInv'
  <2>1. V.new \in V.rows
    BY <1>1, <1>3 DEF CreateItem
  <2>2. \A i \in Item : [table EXCEPT ![i] = V.new] \in T
    BY <1>2, <2>1
  <2>3. table' \in T
    BY <1>0, <1>3, <2>2 DEF CreateItem
  <2> QED
    BY <1>3, <2>3, RowsReplied DEF CreateItem, T
<1>4. ASSUME NEW k \in ListReq, ChangeItem(k) PROVE RowsInv'
  <2>1. PICK c \in V.rows : table' = [table EXCEPT ![listReq[k].item] = c]
    BY <1>4 DEF ChangeItem
  <2>2. table' \in T
    BY <1>2, <2>1
  <2> QED
    BY <1>4, <2>2, RowsReplied DEF ChangeItem, T
<1>5. ASSUME NEW k \in ListReq, ServeRow(k) PROVE RowsInv'
  <2>1. PICK c \in Effects(listReq[k].what) :
          table' = IF table[listReq[k].item] = Gone THEN table
                   ELSE [table EXCEPT ![listReq[k].item] = c]
    BY <1>5 DEF ServeRow
  <2>2. listReq[k].what \in RowOps
    BY <2>1 DEF Effects, RowOps
  <2>3. c \in V.rows \cup {Gone}
    BY <1>0, <2>1, <2>2, ViewShapes DEF Fits, V
  <2>4. table' \in T
    BY <1>0, <1>2, <2>1, <2>3
  <2> QED
    BY <1>5, <2>4, RowsReplied DEF ServeRow, T
<1>6. ASSUME NEW k \in ListReq, RefuseItem(k) \/ LoseItem(k) PROVE RowsInv'
  <2>1. table' \in T
    BY <1>0, <1>6 DEF RefuseItem, LoseItem
  <2> QED
    BY <1>6, <2>1, RowsReplied DEF RefuseItem, LoseItem, T
<1>7. ASSUME NEW k \in ListReq, LocalItem(k) PROVE RowsInv'
  <2>1. UNCHANGED <<page, table, listGets, due, pill, pageNo, sheet, kept, changes>>
    BY <1>7 DEF LocalItem
  <2>2. ReadOk(onPage')
    <3>1. ASSUME listReq[k].what = "submit", NEW i \in Item,
                 \A x \in onPage : x[1] # i, onPage' = onPage \cup {<<i, V.new>>}
          PROVE  ReadOk(onPage')
      <4>1. ~V.edits
        BY <1>0, <1>7, ViewShapes DEF LocalItem, V
      <4>2. V.new \in V.rows
        BY <1>1, <3>1, <4>1
      <4> QED
        BY <1>0, <3>1, <4>2 DEF ReadOk, ItemRows
    <3>2. ASSUME onPage' \subseteq onPage PROVE ReadOk(onPage')
      BY <1>0, <3>2 DEF ReadOk, ItemRows
    <3> QED
      BY <1>7, <3>1, <3>2 DEF LocalItem
  <2> DEFINE r == [listReq[k] EXCEPT !.st = "ok"]
  <2>3. listReq \in [ListReq -> ListAsk] /\ listReq[k] \in ListAsk
    BY DEF ListInv
  <2>4. r.what = listReq[k].what
    BY <2>3 DEF ListAsk
  <2>5. listReq' = [listReq EXCEPT ![k] = r]
    BY <1>7, <2>3 DEF LocalItem
  <2> HIDE DEF r
  <2>6. \A j \in ListReq : listReq'[j].what = listReq[j].what
    BY <2>3, <2>4, <2>5
  <2>7. \A j \in ListReq : Fits(listReq'[j])
    BY <1>0, <2>6 DEF Fits
  <2>8. listGets' \in [ListGet -> SUBSET {S \in SUBSET (Item \X V.rows) : ReadOk(S)}]
    BY <2>1 DEF RowsInv
  <2> QED
    BY <1>0, <2>1, <2>2, <2>7, <2>8, RowsFrame DEF T
<1>8. ASSUME NEW i \in Item, OthersChange(i) PROVE RowsInv'
  <2>1. /\ changes' \in 0..MaxChanges
        /\ UNCHANGED <<page, onPage, listGets, due, pill, pageNo, kept, listReq>>
    BY <1>0, <1>8 DEF OthersChange, Change
  <2>2. PICK c \in V.rows \cup {Gone} : table' = [table EXCEPT ![i] = c]
    BY <1>8 DEF OthersChange
  <2>3. table' \in T
    BY <1>2, <2>2
  <2>4. listGets' \in [ListGet -> SUBSET {S \in SUBSET (Item \X V.rows) : ReadOk(S)}]
    BY <2>1 DEF RowsInv
  <2> QED
    BY <1>0, <2>1, <2>3, <2>4, RowsFrame DEF T
<1> QED
  BY <1>3, <1>4, <1>5, <1>6, <1>7, <1>8 DEF ListServer

LEMMA RowsNextInv == ListInv /\ RowsInv /\ [ListNext]_listVars => RowsInv'
<1> SUFFICES ASSUME ListInv, RowsInv, [ListNext]_listVars PROVE RowsInv'
  OBVIOUS
<1>1. ListInv'
  BY ListNextInv
<1>2. CASE UNCHANGED listVars
  <2>1. /\ UNCHANGED <<page, table, onPage, listGets, due, listReq, changes>>
        /\ kept' \in BOOLEAN /\ pill' \in Pills /\ pageNo' \in 0..Cardinality(Item)
    BY <1>2 DEF listVars, RowsInv, ListTypeOK
  <2> QED
    BY <1>1, <2>1, RowsPaged
<1> QED
  BY <1>1, <1>2, RowsUserInv, RowsPageInv, RowsServerInv DEF ListNext

----------------------------------------------------------------------------

\* A page that bounds its index shows a row of the filter chosen whenever the
\* list has one, whatever has gone or changed since the page was turned
\* (safePage): for any number of rows and rows on a page.
THEOREM DashboardRowsWhenAny == Spec => []RowsWhenAny
<1> DEFINE I == ListInv /\ RowsInv
<1>1. Init => I
  BY ListInitInv, RowsInitInv DEF Init
<1>2. I /\ [Next]_vars => I'
  BY StepOfPart, ListNextInv, RowsNextInv
<1>3. I => RowsWhenAny
  BY RowsShown
<1> HIDE DEF I
<1> QED
  BY <1>1, <1>2, <1>3, PTL DEF Spec

LEMMA RepoTypesOK == RepoInv => RepoTypeOK
<1> SUFFICES ASSUME RepoInv PROVE RepoTypeOK
  OBVIOUS
<1>1. \A k \in RepoReq : repoReq[k].what \in {None, "list", "save", "edit", "delete"}
  BY DEF RepoInv, RepoAsk
<1> QED
  BY <1>1 DEF RepoInv, RepoTypeOK, AddView, RowDialog

\* What the tabs and pages hold, show and have asked for is of the declared
\* types in every part of the dashboard: no late answer leaves a dialog with a
\* row it cannot show, no request carries less than its handler writes.
THEOREM DashboardTypeCorrect == Spec => []TypeOK
<1> DEFINE I == /\ route \in Parts
                /\ SessionInv /\ SessionTypes
                /\ ConnInv /\ ConnTypes
                /\ RepoInv
                /\ PwInv /\ PoolTypes
                /\ ListInv /\ RowsInv
<1>1. Init => I
  BY SessionInitInv, SessionInitTypes, ConnInitInv, ConnInitTypes, RepoInitInv,
     PwInitInv, PoolInitTypes, ListInitInv, RowsInitInv
  DEF Init
<1>2. I /\ [Next]_vars => I'
  <2> SUFFICES ASSUME I, [Next]_vars PROVE I'
    OBVIOUS
  <2>1. route' = route
    BY DEF Next, vars
  <2>2. SessionInv' /\ SessionTypes'
    BY StepOfPart, SessionNextInv, SessionNextTypes
  <2>3. ConnInv' /\ ConnTypes'
    BY StepOfPart, ConnNextInv, ConnNextTypes
  <2>4. RepoInv'
    BY StepOfPart, RepoNextInv
  <2>5. PwInv' /\ PoolTypes'
    BY StepOfPart, PwNextInv, PoolNextTypes
  <2>6. ListInv' /\ RowsInv'
    BY StepOfPart, ListNextInv, RowsNextInv
  <2> QED
    BY <2>1, <2>2, <2>3, <2>4, <2>5, <2>6
<1>3. I => TypeOK
  BY SessionTypesOK, ConnTypesOK, RepoTypesOK, PoolTypesOK DEF TypeOK, RowsInv
<1> HIDE DEF I
<1> QED
  BY <1>1, <1>2, <1>3, PTL DEF Spec
=============================================================================
