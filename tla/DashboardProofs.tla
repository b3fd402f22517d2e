-------------------------- MODULE DashboardProofs --------------------------
(***************************************************************************)
(* Proofs about Dashboard: for any number of tabs, users, cards, requests, *)
(* repositories, pinned workers and rows.                                  *)
(***************************************************************************)
EXTENDS Dashboard, FiniteSetTheorems, TLAPS

----------------------------------------------------------------------------
(* The session.                                                            *)

TabView == [at : Shells \cup {"login"}, gate : {"checking", "ok"},
            next : Shells, as : Nat, calls : SUBSET ({"me", "poll"} \X Nat)]

\* The console asks only about the token it will be shown for, so the answer
\* that opens it is about that token.
AsksForItself(v) ==
  v.at = "admin" =>
    /\ v.as \in 1..Len(issued)
    /\ \A n : <<"me", n>> \in v.calls => n = v.as
    /\ v.gate = "ok" => IsSuperAdmin(v.as)

SessionInv ==
  /\ issued \in Seq(User)
  /\ token \in 0..Len(issued)
  /\ tab \in [Tab -> TabView]
  /\ \A t \in Tab : AsksForItself(tab[t])

LEMMA SessionInitInv == SessionInit => SessionInv
<1> SUFFICES ASSUME SessionInit PROVE SessionInv
  OBVIOUS
<1>1. AtLogin \in TabView /\ AtLogin.at = "login"
  BY DEF AtLogin, TabView, Shells
<1>2. issued \in Seq(User) /\ Len(issued) = 0
  BY DEF SessionInit
<1> QED
  BY <1>1, <1>2 DEF SessionInit, SessionInv, AsksForItself

\* What a document shows when it opens.
LEMMA OpenedInv ==
  ASSUME NEW n \in Nat, NEW place \in Shells, NEW v \in Opened(n, place)
  PROVE  /\ v \in TabView
         /\ v.at = "admin" => /\ n # 0 /\ v.as = n /\ v.gate = "checking"
                              /\ v.calls = {<<"me", n>>}
<1>1. CASE n = 0
  <2>1. PICK p \in {place, "app"} : v = [AtLogin EXCEPT !.next = p]
    BY <1>1 DEF Opened
  <2> QED
    BY <2>1 DEF AtLogin, TabView, Shells
<1>2. CASE n # 0
  <2>1. v = [at |-> place, gate |-> "checking", next |-> "app", as |-> n,
             calls |-> {<<"me", n>>}]
    BY <1>2 DEF Opened
  <2>2. {<<"me", n>>} \in SUBSET ({"me", "poll"} \X Nat)
    OBVIOUS
  <2> QED
    BY <1>2, <2>1, <2>2 DEF TabView, Shells
<1> QED
  BY <1>1, <1>2

\* A step that changes one tab and issues no token.
LEMMA TabStepInv ==
  ASSUME SessionInv, NEW t \in Tab, NEW v \in TabView, AsksForItself(v),
         tab' = [tab EXCEPT ![t] = v],
         issued' = issued, token' \in {0, token}
  PROVE  SessionInv'
<1>1. issued \in Seq(User) /\ Len(issued) \in Nat
  BY DEF SessionInv
<1>2. tab' \in [Tab -> TabView]
  BY DEF SessionInv
<1>3. \A u \in Tab : AsksForItself(tab'[u])
  BY DEF SessionInv
<1>4. \A u \in Tab : AsksForItself(tab[u])'
  BY <1>3 DEF AsksForItself, IsSuperAdmin
<1>5. token' \in 0..Len(issued)
  BY <1>1 DEF SessionInv
<1> QED
  BY <1>1, <1>2, <1>4, <1>5 DEF SessionInv

LEMMA OpenedStepInv ==
  ASSUME SessionInv, NEW t \in Tab, NEW place \in Shells,
         Show(t, Opened(token, place)), UNCHANGED <<issued, token>>
  PROVE  SessionInv'
<1>0. token \in Nat /\ issued \in Seq(User) /\ Len(issued) \in Nat
      /\ token <= Len(issued)
  BY DEF SessionInv
<1>1. PICK v \in Opened(token, place) : tab' = [tab EXCEPT ![t] = v]
  BY DEF Show
<1>2. v \in TabView /\ AsksForItself(v)
  BY <1>0, OpenedInv DEF AsksForItself
<1> QED
  BY <1>1, <1>2, TabStepInv

LEMMA VisitInv ==
  ASSUME SessionInv, NEW t \in Tab, NEW place \in Shells, Visit(t, place)
  PROVE  SessionInv'
<1>0. token \in Nat /\ tab[t] \in TabView
  BY DEF SessionInv
<1>1. CASE Show(t, Opened(token, place))
  BY <1>1, OpenedStepInv DEF Visit
<1>2. CASE /\ place = "app" /\ token # 0
           /\ Show(t, {[v EXCEPT !.calls = @ \cup tab[t].calls] :
                         v \in Opened(token, place)})
  <2>1. PICK v \in Opened(token, place) :
          tab' = [tab EXCEPT ![t] = [v EXCEPT !.calls = @ \cup tab[t].calls]]
    BY <1>2 DEF Show
  <2>2. v = [at |-> "app", gate |-> "checking", next |-> "app", as |-> token,
             calls |-> {<<"me", token>>}]
    BY <1>2 DEF Opened
  <2> DEFINE w == [v EXCEPT !.calls = @ \cup tab[t].calls]
  <2>3. {<<"me", token>>} \cup tab[t].calls \in SUBSET ({"me", "poll"} \X Nat)
    BY <1>0 DEF TabView
  <2>4. w \in TabView /\ w.at = "app"
    BY <1>0, <2>2, <2>3 DEF TabView, Shells
  <2> HIDE DEF w
  <2>5. AsksForItself(w)
    BY <2>4 DEF AsksForItself
  <2>6. tab' = [tab EXCEPT ![t] = w]
    BY <2>1 DEF w
  <2> QED
    BY <2>4, <2>5, <2>6, TabStepInv DEF Visit
<1> QED
  BY <1>1, <1>2 DEF Visit

LEMMA AnswerInv ==
  ASSUME SessionInv, NEW t \in Tab, Answer(t)
  PROVE  SessionInv'
<1>0. tab[t] \in TabView /\ AsksForItself(tab[t])
  BY DEF SessionInv
<1> DEFINE Rest(c, g) == [tab[t] EXCEPT !.gate = g, !.calls = @ \ {c}]
<1>1. ASSUME NEW c, NEW g \in {"checking", "ok"}
      PROVE  /\ Rest(c, g) \in TabView
             /\ Rest(c, g).at = tab[t].at /\ Rest(c, g).as = tab[t].as
             /\ Rest(c, g).gate = g /\ Rest(c, g).calls \subseteq tab[t].calls
  BY <1>0 DEF TabView
<1>2. ASSUME NEW n, MeAnswered(t, n) PROVE SessionInv'
  <2>1. CASE IsSuperAdmin(n) = (tab[t].at = "admin")
    <3>1. tab' = [tab EXCEPT ![t] = Rest(<<"me", n>>, "ok")]
      BY <1>2, <2>1 DEF MeAnswered, SessionInv
    <3>2. tab[t].at = "admin" => n = tab[t].as /\ IsSuperAdmin(n)
      BY <1>0, <1>2, <2>1 DEF MeAnswered, AsksForItself
    <3> HIDE DEF Rest
    <3>3. AsksForItself(Rest(<<"me", n>>, "ok"))
      BY <1>0, <1>1, <3>2 DEF AsksForItself
    <3> QED
      BY <1>1, <1>2, <3>1, <3>3, TabStepInv DEF MeAnswered
  <2>2. CASE ~(IsSuperAdmin(n) = (tab[t].at = "admin"))
    <3>1. Show(t, Opened(token, IF IsSuperAdmin(n) THEN "admin" ELSE "app"))
      BY <1>2, <2>2 DEF MeAnswered
    <3>2. (IF IsSuperAdmin(n) THEN "admin" ELSE "app") \in Shells
      BY DEF Shells
    <3> QED
      BY <1>2, <3>1, <3>2, OpenedStepInv DEF MeAnswered
  <2> QED
    BY <2>1, <2>2
<1>3. ASSUME NEW n, MeFails(t, n) PROVE SessionInv'
  <2>1. CASE tab[t].at = "app"
    <3>1. tab' = [tab EXCEPT ![t] = Rest(<<"me", n>>, "ok")]
      BY <1>3, <2>1 DEF MeFails, SessionInv
    <3> HIDE DEF Rest
    <3>2. AsksForItself(Rest(<<"me", n>>, "ok"))
      BY <1>1, <2>1 DEF AsksForItself
    <3> QED
      BY <1>1, <1>3, <3>1, <3>2, TabStepInv DEF MeFails
  <2>2. CASE tab[t].at # "app"
    BY <1>3, <2>2, OpenedStepInv DEF MeFails, Shells
  <2> QED
    BY <2>1, <2>2
<1>4. ASSUME NEW n, CallReturns(t, n) PROVE SessionInv'
  <2>1. tab[t].gate \in {"checking", "ok"}
    BY <1>0 DEF TabView
  <2>2. tab' = [tab EXCEPT ![t] = Rest(<<"poll", n>>, tab[t].gate)]
    BY <1>0, <1>4 DEF CallReturns, SessionInv, TabView
  <2> HIDE DEF Rest
  <2>3. AsksForItself(Rest(<<"poll", n>>, tab[t].gate))
    BY <1>0, <1>1, <2>1 DEF AsksForItself
  <2> QED
    BY <1>1, <1>4, <2>1, <2>2, <2>3, TabStepInv DEF CallReturns
<1>5. ASSUME NEW c, Unauthorized(t, c) PROVE SessionInv'
  <2>1. AtLogin \in TabView /\ AsksForItself(AtLogin)
    BY DEF AtLogin, TabView, Shells, AsksForItself
  <2> QED
    BY <1>5, <2>1, TabStepInv DEF Unauthorized
<1> QED
  BY <1>2, <1>3, <1>4, <1>5 DEF Answer, Answered401

LEMMA CallInv ==
  ASSUME SessionInv, NEW t \in Tab, Call(t)
  PROVE  SessionInv'
<1>0. tab[t] \in TabView /\ AsksForItself(tab[t]) /\ token \in Nat
  BY DEF SessionInv
<1> DEFINE v == [tab[t] EXCEPT !.calls = @ \cup {<<"poll", token>>}]
<1>1. tab' = [tab EXCEPT ![t] = v]
  BY DEF Call, SessionInv
<1>2. v \in TabView
  <2>1. tab[t].calls \cup {<<"poll", token>>} \in SUBSET ({"me", "poll"} \X Nat)
    BY <1>0 DEF TabView
  <2> QED
    BY <1>0, <2>1 DEF TabView
<1>3. AsksForItself(v)
  BY <1>0 DEF AsksForItself, TabView
<1> HIDE DEF v
<1> QED
  BY <1>1, <1>2, <1>3, TabStepInv DEF Call

LEMMA LogInInv ==
  ASSUME SessionInv, NEW t \in Tab, NEW u \in User, LogIn(t, u)
  PROVE  SessionInv'
<1> DEFINE n == Len(issued) + 1
           place == IF u \in SuperAdmin /\ tab[t].next = "app"
                    THEN "admin" ELSE tab[t].next
<1>1. /\ issued \in Seq(User) /\ Len(issued) \in Nat /\ tab[t] \in TabView
      /\ tab \in [Tab -> TabView]
  BY DEF SessionInv
<1>2. /\ issued' \in Seq(User) /\ Len(issued') = n
      /\ \A i \in 1..Len(issued) : issued'[i] = issued[i]
  BY <1>1 DEF LogIn
<1>3. token' = n /\ place \in Shells /\ n \in Nat \ {0}
  BY <1>1 DEF LogIn, TabView, Shells
<1>4. PICK v \in Opened(n, place) : tab' = [tab EXCEPT ![t] = v]
  BY DEF LogIn, Show
<1> HIDE DEF place
<1>5. v \in TabView /\ (v.at = "admin" => /\ v.as = n /\ v.gate = "checking"
                                         /\ v.calls = {<<"me", n>>})
  BY <1>3, OpenedInv
<1>6. AsksForItself(tab[t])'
  BY <1>1, <1>2, <1>4, <1>5 DEF AsksForItself
<1>7. \A w \in Tab \ {t} : AsksForItself(tab[w])'
  <2> TAKE w \in Tab \ {t}
  <2>1. AsksForItself(tab[w]) /\ tab'[w] = tab[w]
    BY <1>1, <1>4 DEF SessionInv
  <2> QED
    BY <1>1, <1>2, <2>1 DEF AsksForItself, IsSuperAdmin
<1>8. tab' \in [Tab -> TabView]
  BY <1>1, <1>4, <1>5
<1> QED
  BY <1>1, <1>2, <1>3, <1>6, <1>7, <1>8 DEF SessionInv

LEMMA SessionNextInv == SessionInv /\ [SessionNext]_sessionVars => SessionInv'
<1> SUFFICES ASSUME SessionInv, [SessionNext]_sessionVars PROVE SessionInv'
  OBVIOUS
<1>1. CASE UNCHANGED sessionVars
  BY <1>1 DEF sessionVars, SessionInv, AsksForItself, IsSuperAdmin
<1>2. ASSUME NEW t \in Tab, SignOut(t) PROVE SessionInv'
  <2>1. AtLogin \in TabView /\ AsksForItself(AtLogin)
    BY DEF AtLogin, TabView, Shells, AsksForItself
  <2> QED
    BY <1>2, <2>1, TabStepInv DEF SignOut
<1>3. ASSUME UNCHANGED <<issued, tab>>, token' \in {0, token} PROVE SessionInv'
  BY <1>3 DEF SessionInv, AsksForItself, IsSuperAdmin
<1>4. ASSUME NEW t \in Tab, WrongPassword(t) PROVE SessionInv'
  BY <1>3, <1>4 DEF WrongPassword
<1>5. ASSUME NEW n \in Token, Expire(n) PROVE SessionInv'
  BY <1>3, <1>5 DEF Expire
<1> QED
  BY <1>1, <1>2, <1>4, <1>5, VisitInv, AnswerInv, CallInv, LogInInv
  DEF SessionNext

\* No tab asks with a token that was not issued.
KnownTokens(v, n) == v.as \in 0..n /\ v.calls \subseteq {"me", "poll"} \X (0..n)

SessionTypes ==
  /\ Len(issued) <= MaxLogins
  /\ expired \subseteq 1..Len(issued)
  /\ \A t \in Tab : KnownTokens(tab[t], Len(issued))

LEMMA SessionInitTypes == SessionInit => SessionTypes
<1> SUFFICES ASSUME SessionInit PROVE SessionTypes
  OBVIOUS
<1>1. Len(issued) = 0 /\ expired = {} /\ \A t \in Tab : tab[t] = AtLogin
  BY DEF SessionInit
<1>2. KnownTokens(AtLogin, 0)
  BY DEF KnownTokens, AtLogin
<1> QED
  BY <1>1, <1>2, LoginsAssumption DEF SessionTypes

LEMMA OpenedKnown ==
  ASSUME NEW m \in Nat, NEW n \in 0..m, NEW place, NEW v \in Opened(n, place)
  PROVE  KnownTokens(v, m)
<1>1. CASE n = 0
  <2>1. PICK p \in {place, "app"} : v = [AtLogin EXCEPT !.next = p]
    BY <1>1 DEF Opened
  <2>2. v.as = 0 /\ v.calls = {}
    BY <2>1 DEF AtLogin
  <2> QED
    BY <2>2 DEF KnownTokens
<1>2. CASE n # 0
  <2>1. v = [at |-> place, gate |-> "checking", next |-> "app", as |-> n,
             calls |-> {<<"me", n>>}]
    BY <1>2 DEF Opened
  <2>2. v.as = n /\ v.calls = {<<"me", n>>}
    BY <2>1
  <2> QED
    BY <2>2 DEF KnownTokens
<1> QED
  BY <1>1, <1>2

LEMMA TabStepTypes ==
  ASSUME SessionInv, SessionTypes, NEW t \in Tab, NEW v,
         KnownTokens(v, Len(issued)), tab' = [tab EXCEPT ![t] = v],
         UNCHANGED <<issued, expired>>
  PROVE  SessionTypes'
<1>1. \A u \in Tab : tab'[u] = IF u = t THEN v ELSE tab[u]
  BY DEF SessionInv
<1>2. \A u \in Tab : KnownTokens(tab'[u], Len(issued))
  BY <1>1 DEF SessionTypes
<1>3. \A u \in Tab : KnownTokens(tab[u], Len(issued))'
  BY <1>2 DEF KnownTokens
<1> QED
  BY <1>3 DEF SessionTypes

LEMMA OpenedStepTypes ==
  ASSUME SessionInv, SessionTypes, NEW t \in Tab, NEW place,
         Show(t, Opened(token, place)), UNCHANGED <<issued, expired>>
  PROVE  SessionTypes'
<1>1. PICK v \in Opened(token, place) : tab' = [tab EXCEPT ![t] = v]
  BY DEF Show
<1>2. Len(issued) \in Nat /\ token \in 0..Len(issued)
  BY DEF SessionInv
<1> QED
  BY <1>1, <1>2, OpenedKnown, TabStepTypes

LEMMA AnswerTypes ==
  ASSUME SessionInv, SessionTypes, NEW t \in Tab, Answer(t)
  PROVE  SessionTypes'
<1>0. /\ Len(issued) \in Nat /\ token \in 0..Len(issued)
      /\ tab[t] \in TabView /\ KnownTokens(tab[t], Len(issued))
      /\ tab \in [Tab -> TabView]
  BY DEF SessionInv, SessionTypes
<1>1. ASSUME NEW c, NEW g,
             tab' = [tab EXCEPT ![t] = [tab[t] EXCEPT !.gate = g, !.calls = @ \ {c}]],
             UNCHANGED <<issued, expired>>
      PROVE  SessionTypes'
  <2> DEFINE v == [tab[t] EXCEPT !.gate = g, !.calls = @ \ {c}]
  <2>1. v.as = tab[t].as /\ v.calls \subseteq tab[t].calls
    BY <1>0 DEF TabView
  <2>2. tab' = [tab EXCEPT ![t] = v]
    BY <1>1
  <2> HIDE DEF v
  <2>3. KnownTokens(v, Len(issued))
    BY <1>0, <2>1 DEF KnownTokens
  <2> QED
    BY <1>1, <2>2, <2>3, TabStepTypes
<1>2. ASSUME NEW n, MeAnswered(t, n) PROVE SessionTypes'
  <2>1. CASE IsSuperAdmin(n) = (tab[t].at = "admin")
    BY <1>0, <1>1, <1>2, <2>1 DEF MeAnswered
  <2>2. CASE ~(IsSuperAdmin(n) = (tab[t].at = "admin"))
    BY <1>2, <2>2, OpenedStepTypes DEF MeAnswered
  <2> QED
    BY <2>1, <2>2
<1>3. ASSUME NEW n, MeFails(t, n) PROVE SessionTypes'
  <2>1. CASE tab[t].at = "app"
    BY <1>0, <1>1, <1>3, <2>1 DEF MeFails
  <2>2. CASE tab[t].at # "app"
    BY <1>3, <2>2, OpenedStepTypes DEF MeFails
  <2> QED
    BY <2>1, <2>2
<1>4. ASSUME NEW n, CallReturns(t, n) PROVE SessionTypes'
  <2>1. tab' = [tab EXCEPT ![t] = [tab[t] EXCEPT !.gate = tab[t].gate,
                                                 !.calls = @ \ {<<"poll", n>>}]]
    BY <1>0, <1>4 DEF CallReturns, TabView
  <2> QED
    BY <1>1, <1>4, <2>1 DEF CallReturns
<1>5. ASSUME NEW c, Unauthorized(t, c) PROVE SessionTypes'
  <2>1. KnownTokens(AtLogin, Len(issued))
    BY <1>0 DEF KnownTokens, AtLogin
  <2> QED
    BY <1>5, <2>1, TabStepTypes DEF Unauthorized
<1> QED
  BY <1>2, <1>3, <1>4, <1>5 DEF Answer, Answered401

LEMMA VisitTypes ==
  ASSUME SessionInv, SessionTypes, NEW t \in Tab, NEW place, Visit(t, place)
  PROVE  SessionTypes'
<1>0. /\ Len(issued) \in Nat /\ token \in 0..Len(issued)
      /\ KnownTokens(tab[t], Len(issued))
  BY DEF SessionInv, SessionTypes
<1>1. CASE Show(t, Opened(token, place))
  BY <1>1, OpenedStepTypes DEF Visit
<1>2. CASE /\ place = "app" /\ token # 0
           /\ Show(t, {[v EXCEPT !.calls = @ \cup tab[t].calls] :
                         v \in Opened(token, place)})
  <2>1. PICK v \in Opened(token, place) :
          tab' = [tab EXCEPT ![t] = [v EXCEPT !.calls = @ \cup tab[t].calls]]
    BY <1>2 DEF Show
  <2> DEFINE w == [v EXCEPT !.calls = @ \cup tab[t].calls]
  <2>2. v = [at |-> place, gate |-> "checking", next |-> "app", as |-> token,
             calls |-> {<<"me", token>>}]
    BY <1>2 DEF Opened
  <2>3. w.as = token /\ w.calls = {<<"me", token>>} \cup tab[t].calls
    BY <2>2
  <2>4. tab' = [tab EXCEPT ![t] = w]
    BY <2>1
  <2> HIDE DEF w
  <2>5. KnownTokens(w, Len(issued))
    BY <1>0, <2>3 DEF KnownTokens
  <2> QED
    BY <2>4, <2>5, TabStepTypes DEF Visit
<1> QED
  BY <1>1, <1>2 DEF Visit

LEMMA SessionNextTypes ==
  SessionInv /\ SessionTypes /\ [SessionNext]_sessionVars => SessionTypes'
<1> SUFFICES ASSUME SessionInv, SessionTypes, [SessionNext]_sessionVars
             PROVE  SessionTypes'
  OBVIOUS
<1>0. /\ issued \in Seq(User) /\ Len(issued) \in Nat /\ token \in 0..Len(issued)
      /\ tab \in [Tab -> TabView]
      /\ \A t \in Tab : KnownTokens(tab[t], Len(issued))
  BY DEF SessionInv, SessionTypes
<1>1. ASSUME UNCHANGED <<issued, tab>>, expired' \subseteq 1..Len(issued)
      PROVE  SessionTypes'
  BY <1>1 DEF SessionTypes, KnownTokens
<1>2. CASE UNCHANGED sessionVars
  BY <1>1, <1>2 DEF sessionVars, SessionTypes
<1>3. ASSUME NEW t \in Tab, SignOut(t) PROVE SessionTypes'
  <2>1. KnownTokens(AtLogin, Len(issued))
    BY <1>0 DEF KnownTokens, AtLogin
  <2> QED
    BY <1>3, <2>1, TabStepTypes DEF SignOut
<1>4. ASSUME NEW t \in Tab, WrongPassword(t) PROVE SessionTypes'
  BY <1>1, <1>4 DEF WrongPassword, SessionTypes
<1>5. ASSUME NEW n \in Token, Expire(n) PROVE SessionTypes'
  BY <1>1, <1>5 DEF Expire, SessionTypes
<1>6. ASSUME NEW t \in Tab, Call(t) PROVE SessionTypes'
  <2> DEFINE v == [tab[t] EXCEPT !.calls = @ \cup {<<"poll", token>>}]
  <2>1. v.as = tab[t].as /\ v.calls = tab[t].calls \cup {<<"poll", token>>}
    BY <1>0 DEF TabView
  <2>2. tab' = [tab EXCEPT ![t] = v]
    BY <1>0, <1>6 DEF Call
  <2> HIDE DEF v
  <2>3. KnownTokens(v, Len(issued))
    BY <1>0, <2>1 DEF KnownTokens
  <2> QED
    BY <1>6, <2>2, <2>3, TabStepTypes DEF Call
<1>7. ASSUME NEW t \in Tab, NEW u \in User, LogIn(t, u) PROVE SessionTypes'
  <2> DEFINE n == Len(issued) + 1
             place == IF u \in SuperAdmin /\ tab[t].next = "app"
                      THEN "admin" ELSE tab[t].next
  <2>1. Len(issued') = n /\ n <= MaxLogins /\ expired' = expired
    BY <1>0, <1>7 DEF LogIn
  <2>2. PICK v \in Opened(n, place) : tab' = [tab EXCEPT ![t] = v]
    BY <1>7 DEF LogIn, Show
  <2>3. KnownTokens(v, n)
    BY <1>0, <2>2, OpenedKnown
  <2>4. \A w \in Tab : KnownTokens(tab[w], n)
    BY <1>0 DEF KnownTokens
  <2> HIDE DEF n, place
  <2>5. \A w \in Tab : tab'[w] = IF w = t THEN v ELSE tab[w]
    BY <1>0, <2>2
  <2>6. \A w \in Tab : KnownTokens(tab'[w], n)
    BY <2>3, <2>4, <2>5
  <2>7. \A w \in Tab : KnownTokens(tab[w], Len(issued))'
    BY <2>1, <2>6 DEF KnownTokens
  <2>8. expired' \subseteq 1..n
    BY <1>0, <2>1 DEF SessionTypes, n
  <2> QED
    BY <2>1, <2>7, <2>8 DEF SessionTypes
<1> QED
  BY <1>2, <1>3, <1>4, <1>5, <1>6, <1>7, VisitTypes, AnswerTypes DEF SessionNext

LEMMA SessionTypesOK == SessionInv /\ SessionTypes => SessionTypeOK
BY DEF SessionInv, SessionTypes, SessionTypeOK, KnownTokens, TabView

----------------------------------------------------------------------------
(* The connections tab.                                                    *)

DialogView == [card : Card \cup {"none"}, tok : Cred \cup {"none"},
               busy : BOOLEAN, testing : BOOLEAN,
               verdict : {"none", "ok", "bad"}, step : {"idle", "await_code"}]

ConnAsk == [what : ConnOp \cup {"none"}, card : Card \cup {"none"},
            tok : Cred \cup {"none"},
            st : {"free", "sent", "checked", "writing", "ok", "refused", "lost"},
            seen : SUBSET Row]

\* A dialog shows cards of its own kind, a request belongs to a card, and the
\* write of a code connection carries a token the provider accepted.
DialogOfCard(f) ==
  dialog[f].card # "none" => dialog[f].card \in Card /\ FormOf[dialog[f].card] = f

AskOfCard(r) ==
  /\ r.what # "none" => r.card \in Card
  /\ r.what = "start" => FormOf[r.card] = "ia"
  /\ r.st \in {"checked", "writing"} =>
       r.what # "none" /\ (FormOf[r.card] = "git" => r.tok \in GoodCred)

ConnInv ==
  /\ deck \subseteq Card
  /\ conns \in SUBSET Row /\ \A r \in conns : r.tok \in GoodCred \cup {"none"}
  /\ dialog \in [Form -> DialogView]
  /\ connReq \in [ConnReq -> ConnAsk]
  /\ \A f \in Form : DialogOfCard(f)
  /\ \A k \in ConnReq : AskOfCard(connReq[k])
  /\ BusyIsReal

LEMMA ConnInitInv == ConnInit => ConnInv
<1> SUFFICES ASSUME ConnInit PROVE ConnInv
  OBVIOUS
<1>1. Closed \in DialogView
  BY DEF Closed, DialogView
<1>2. NoOp \in ConnAsk /\ AskOfCard(NoOp)
  BY DEF NoOp, ConnAsk, AskOfCard
<1>3. deck \subseteq Card
  BY CardAssumption DEF ConnInit
<1>4. conns \in SUBSET Row /\ \A r \in conns : r.tok \in GoodCred \cup {"none"}
  <2>1. PICK S \in SUBSET {[card |-> c, tok |-> IF FormOf[c] = "git" THEN "good"
                                               ELSE "none"] : c \in deck} :
          conns = S
    BY DEF ConnInit
  <2> QED
    BY <1>3, <2>1 DEF Row, GoodCred, Cred
<1>5. \A f \in Form : DialogOfCard(f)
  BY DEF ConnInit, Closed, DialogOfCard
<1>6. BusyIsReal
  BY DEF ConnInit, Closed, BusyIsReal
<1> QED
  BY <1>1, <1>2, <1>3, <1>4, <1>5, <1>6 DEF ConnInit, ConnInv

\* Steps that leave the table and the requests alone: a dialog is busy only if
\* it was.
LEMMA DialogStepInv ==
  ASSUME ConnInv, NEW f \in Form, NEW d \in DialogView, Set(f, d),
         d.card # "none" => d.card \in Card /\ FormOf[d.card] = f,
         d.busy => dialog[f].busy, d.testing => dialog[f].testing,
         UNCHANGED <<deck, conns, connReq>>
  PROVE  ConnInv'
<1>1. /\ dialog' \in [Form -> DialogView] /\ dialog'[f] = d
      /\ \A g \in Form \ {f} : dialog'[g] = dialog[g]
  BY DEF ConnInv, Set
<1>2. \A g \in Form : DialogOfCard(g)'
  BY <1>1 DEF ConnInv, DialogOfCard
<1>3. BusyIsReal'
  <2>1. \A g \in Form : /\ dialog'[g].busy => dialog[g].busy
                        /\ dialog'[g].testing => dialog[g].testing
    BY <1>1
  <2> QED
    BY <2>1 DEF ConnInv, BusyIsReal
<1> QED
  BY <1>1, <1>2, <1>3 DEF ConnInv

\* A request is sent from a dialog, which shows that it is.
LEMMA SendInv ==
  ASSUME ConnInv, NEW f \in Form, NEW d \in DialogView, NEW k \in ConnReq,
         NEW what \in ConnOp, NEW c \in Card, NEW t \in Cred \cup {"none"},
         Send(k, what, c, t), dialog' = [dialog EXCEPT ![f] = d],
         d.card # "none" => d.card \in Card /\ FormOf[d.card] = f,
         what = "start" => FormOf[c] = "ia",
         d.busy => dialog[f].busy \/ (what \in {"connect", "start"} /\ FormOf[c] = f),
         d.testing => dialog[f].testing \/ (what = "test" /\ FormOf[c] = f)
  PROVE  ConnInv'
<1> DEFINE r == [what |-> what, card |-> c, tok |-> t, st |-> "sent",
                 seen |-> {}]
<1>1. r \in ConnAsk /\ AskOfCard(r) /\ r.what = what /\ r.card = c
  BY DEF ConnAsk, AskOfCard
<1>2. connReq' = [connReq EXCEPT ![k] = r] /\ UNCHANGED <<deck, conns>>
      /\ connReq[k].what = "none"
  BY DEF Send, NoOp
<1> HIDE DEF r
<1>3. /\ connReq' \in [ConnReq -> ConnAsk] /\ connReq'[k] = r
      /\ \A j \in ConnReq \ {k} : connReq'[j] = connReq[j]
  BY <1>1, <1>2 DEF ConnInv
<1>4. /\ dialog' \in [Form -> DialogView] /\ dialog'[f] = d
      /\ \A g \in Form \ {f} : dialog'[g] = dialog[g]
  BY DEF ConnInv
<1>5. \A g \in Form : DialogOfCard(g)'
  BY <1>4 DEF ConnInv, DialogOfCard
<1>6. \A j \in ConnReq : AskOfCard(connReq[j])'
  BY <1>1, <1>3 DEF ConnInv, AskOfCard
<1>7. \A j \in ConnReq : connReq[j].what # "none" => connReq'[j] = connReq[j]
  BY <1>2, <1>3
<1>8. BusyIsReal'
  <2> SUFFICES ASSUME NEW g \in Form
               PROVE  /\ dialog'[g].busy =>
                           \E j \in ConnReq :
                             /\ connReq'[j].what \in {"connect", "start"}
                             /\ FormOf[connReq'[j].card] = g
                      /\ dialog'[g].testing =>
                           \E j \in ConnReq : /\ connReq'[j].what = "test"
                                              /\ FormOf[connReq'[j].card] = g
    BY DEF BusyIsReal
  <2>1. dialog[g].busy => \E j \in ConnReq :
                            /\ connReq'[j].what \in {"connect", "start"}
                            /\ FormOf[connReq'[j].card] = g
    BY <1>7 DEF ConnInv, BusyIsReal
  <2>2. dialog[g].testing => \E j \in ConnReq :
                               /\ connReq'[j].what = "test"
                               /\ FormOf[connReq'[j].card] = g
    BY <1>7 DEF ConnInv, BusyIsReal
  <2> QED
    BY <1>1, <1>3, <1>4, <2>1, <2>2
<1> QED
  BY <1>2, <1>3, <1>4, <1>5, <1>6, <1>8 DEF ConnInv

\* An answer is taken: the request is gone, and the dialog waits for no request
\* of its kind.
LEMMA FinishInv ==
  ASSUME ConnInv, NEW k \in ConnReq, NEW f \in Form, NEW d \in DialogView,
         connReq[k].what # "none" => f = FormOf[connReq[k].card],
         dialog' = [dialog EXCEPT ![f] = d],
         d.card # "none" => d.card \in Card /\ FormOf[d.card] = f,
         connReq' = [connReq EXCEPT ![k] = NoOp],
         d.busy => dialog[f].busy /\ connReq[k].what \notin {"connect", "start"},
         d.testing => dialog[f].testing /\ connReq[k].what # "test",
         UNCHANGED <<deck, conns>>
  PROVE  ConnInv'
<1>1. NoOp \in ConnAsk /\ AskOfCard(NoOp)
  BY DEF NoOp, ConnAsk, AskOfCard
<1>2. /\ connReq' \in [ConnReq -> ConnAsk] /\ connReq'[k] = NoOp
      /\ \A j \in ConnReq \ {k} : connReq'[j] = connReq[j]
  BY <1>1 DEF ConnInv
<1>3. /\ dialog' \in [Form -> DialogView] /\ dialog'[f] = d
      /\ \A g \in Form \ {f} : dialog'[g] = dialog[g]
  BY DEF ConnInv
<1>4. \A g \in Form : DialogOfCard(g)'
  BY <1>3 DEF ConnInv, DialogOfCard
<1>5. \A j \in ConnReq : AskOfCard(connReq[j])'
  BY <1>1, <1>2 DEF ConnInv, AskOfCard
<1>6. BusyIsReal'
  <2> SUFFICES ASSUME NEW g \in Form
               PROVE  /\ dialog'[g].busy =>
                           \E j \in ConnReq :
                             /\ connReq'[j].what \in {"connect", "start"}
                             /\ FormOf[connReq'[j].card] = g
                      /\ dialog'[g].testing =>
                           \E j \in ConnReq : /\ connReq'[j].what = "test"
                                              /\ FormOf[connReq'[j].card] = g
    BY DEF BusyIsReal
  <2>1. ASSUME dialog'[g].busy
        PROVE  \E j \in ConnReq : /\ connReq'[j].what \in {"connect", "start"}
                                  /\ FormOf[connReq'[j].card] = g
    <3>1. dialog[g].busy
      BY <1>3, <2>1
    <3>2. PICK j \in ConnReq : /\ connReq[j].what \in {"connect", "start"}
                               /\ FormOf[connReq[j].card] = g
      BY <3>1 DEF ConnInv, BusyIsReal
    <3>3. j # k
      BY <1>3, <2>1, <3>2
    <3> QED
      BY <1>2, <3>2, <3>3
  <2>2. ASSUME dialog'[g].testing
        PROVE  \E j \in ConnReq : /\ connReq'[j].what = "test"
                                  /\ FormOf[connReq'[j].card] = g
    <3>1. dialog[g].testing
      BY <1>3, <2>2
    <3>2. PICK j \in ConnReq : /\ connReq[j].what = "test"
                               /\ FormOf[connReq[j].card] = g
      BY <3>1 DEF ConnInv, BusyIsReal
    <3>3. j # k
      BY <1>3, <2>2, <3>2
    <3> QED
      BY <1>2, <3>2, <3>3
  <2> QED
    BY <2>1, <2>2
<1> QED
  BY <1>2, <1>3, <1>4, <1>5, <1>6 DEF ConnInv

\* A step of the cerebro: what a request asks and for which card stays.
LEMMA ServeInv ==
  ASSUME ConnInv, NEW k \in ConnReq, NEW r \in ConnAsk,
         connReq' = [connReq EXCEPT ![k] = r], AskOfCard(r),
         r.what = connReq[k].what, r.card = connReq[k].card,
         UNCHANGED <<deck, dialog>>,
         conns' \in SUBSET Row, \A x \in conns' : x.tok \in GoodCred \cup {"none"}
  PROVE  ConnInv'
<1>1. /\ connReq' \in [ConnReq -> ConnAsk]
      /\ \A j \in ConnReq : /\ connReq'[j].what = connReq[j].what
                            /\ connReq'[j].card = connReq[j].card
  BY DEF ConnInv
<1>2. \A j \in ConnReq : AskOfCard(connReq[j])'
  <2>1. \A j \in ConnReq : AskOfCard(connReq'[j])
    BY DEF ConnInv
  <2> QED
    BY <2>1 DEF AskOfCard
<1>3. \A g \in Form : DialogOfCard(g)'
  BY DEF ConnInv, DialogOfCard
<1>4. BusyIsReal'
  BY <1>1 DEF ConnInv, BusyIsReal
<1> QED
  BY <1>1, <1>2, <1>3, <1>4 DEF ConnInv

LEMMA ConnUserInv ==
  ASSUME ConnInv, ConnUser
  PROVE  ConnInv'
<1>0. /\ \A f \in Form : dialog[f] \in DialogView /\ DialogOfCard(f)
      /\ Closed \in DialogView /\ deck \subseteq Card
      /\ FormOf \in [Card -> Form] /\ "ia" \in Form
  BY CardAssumption DEF ConnInv, Closed, DialogView, Form
<1>1. ASSUME NEW c \in deck, OpenDialog(c) PROVE ConnInv'
  <2> DEFINE f == FormOf[c]
             d == IF Engine(c) THEN [dialog[f] EXCEPT !.card = c, !.step = "idle"]
                               ELSE [Closed EXCEPT !.card = c]
  <2>1. f \in Form /\ c \in Card /\ Set(f, d)
    BY <1>0, <1>1 DEF OpenDialog
  <2>2. d \in DialogView /\ d.card = c
        /\ (d.busy => dialog[f].busy) /\ (d.testing => dialog[f].testing)
    BY <1>0, <2>1 DEF Closed, DialogView
  <2>3. FormOf[c] = f /\ UNCHANGED <<deck, conns, connReq>>
    BY <1>1 DEF OpenDialog
  <2> HIDE DEF f, d
  <2> QED
    BY <2>1, <2>2, <2>3, DialogStepInv
<1>2. ASSUME NEW f \in Form, CloseDialog(f) PROVE ConnInv'
  BY <1>0, <1>2, DialogStepInv DEF CloseDialog, Reset, Closed
<1>3. ASSUME NEW f \in Form, NEW t \in Cred, Type(f, t) PROVE ConnInv'
  <2> DEFINE d == [dialog[f] EXCEPT !.tok = t, !.verdict = "none"]
  <2>1. d \in DialogView /\ d.card = dialog[f].card
        /\ d.busy = dialog[f].busy /\ d.testing = dialog[f].testing
    BY <1>0 DEF DialogView
  <2>2. Set(f, d) /\ UNCHANGED <<deck, conns, connReq>>
    BY <1>3 DEF Type
  <2> HIDE DEF d
  <2> QED
    BY <1>0, <2>1, <2>2, DialogStepInv DEF DialogOfCard
<1>4. ASSUME NEW f \in Form, NEW k \in ConnReq, SendTest(f, k) PROVE ConnInv'
  <2> DEFINE d == [dialog[f] EXCEPT !.testing = TRUE, !.verdict = "none"]
  <2>1. d \in DialogView /\ d.card = dialog[f].card /\ d.busy = dialog[f].busy
    BY <1>0 DEF DialogView
  <2>2. /\ dialog[f].card \in Card /\ FormOf[dialog[f].card] = f
        /\ dialog[f].tok \in Cred \cup {"none"}
    BY <1>0, <1>4 DEF SendTest, CanTest, DialogOfCard, DialogView
  <2>3. /\ Send(k, "test", dialog[f].card, dialog[f].tok)
        /\ dialog' = [dialog EXCEPT ![f] = d]
    BY <1>4 DEF SendTest, Set
  <2> HIDE DEF d
  <2> QED
    BY <2>1, <2>2, <2>3, SendInv DEF ConnOp
<1>5. ASSUME NEW k \in ConnReq, ClaudeStart(k) PROVE ConnInv'
  <2> DEFINE d == [dialog["ia"] EXCEPT !.busy = TRUE]
  <2>1. d \in DialogView /\ d.card = dialog["ia"].card
        /\ d.testing = dialog["ia"].testing
    BY <1>0 DEF DialogView
  <2>2. /\ dialog["ia"].card = "sub" /\ "sub" \in Card /\ FormOf["sub"] = "ia"
    BY <1>0, <1>5 DEF ClaudeStart, DialogOfCard
  <2>3. Send(k, "start", "sub", "none") /\ dialog' = [dialog EXCEPT !["ia"] = d]
    BY <1>5 DEF ClaudeStart, Set
  <2> HIDE DEF d
  <2> QED
    BY <1>0, <2>1, <2>2, <2>3, SendInv DEF ConnOp
<1>6. ASSUME NEW f \in Form, NEW k \in ConnReq, SendConnect(f, k) PROVE ConnInv'
  <2> DEFINE d == [dialog[f] EXCEPT !.busy = TRUE]
             t == IF dialog[f].card = "api" THEN "none" ELSE dialog[f].tok
  <2>1. d \in DialogView /\ d.card = dialog[f].card
        /\ d.testing = dialog[f].testing
    BY <1>0 DEF DialogView
  <2>2. /\ dialog[f].card \in Card /\ FormOf[dialog[f].card] = f
        /\ t \in Cred \cup {"none"}
    BY <1>0, <1>6 DEF SendConnect, CanConnect, DialogOfCard, DialogView
  <2>3. /\ Send(k, "connect", dialog[f].card, t)
        /\ dialog' = [dialog EXCEPT ![f] = d]
    BY <1>6 DEF SendConnect, Set
  <2> HIDE DEF d, t
  <2> QED
    BY <2>1, <2>2, <2>3, SendInv DEF ConnOp
<1>7. ASSUME NEW c \in deck, NEW k \in ConnReq,
             SendDisconnect(c, k) \/ SendReuse(c, k)
      PROVE  ConnInv'
  <2>1. PICK what \in {"disconnect", "reuse"} : Send(k, what, c, "none")
    BY <1>7 DEF SendDisconnect, SendReuse
  <2>2. dialog' = [dialog EXCEPT !["ia"] = dialog["ia"]]
    BY <1>7 DEF SendDisconnect, SendReuse, ConnInv
  <2>3. c \in Card /\ what \in ConnOp /\ what # "start"
    BY <1>0 DEF ConnOp
  <2> QED
    BY <1>0, <2>1, <2>2, <2>3, SendInv DEF DialogOfCard
<1> QED
  BY <1>1, <1>2, <1>3, <1>4, <1>5, <1>6, <1>7 DEF ConnUser

LEMMA ConnFinishInv ==
  ASSUME ConnInv, NEW k \in ConnReq, ConnFinish(k)
  PROVE  ConnInv'
<1> DEFINE r == connReq[k]
           f == FormOf[r.card]
<1>0. /\ \A g \in Form : dialog[g] \in DialogView /\ DialogOfCard(g)
      /\ Closed \in DialogView /\ "ia" \in Form
      /\ FormOf \in [Card -> Form]
      /\ r \in ConnAsk /\ AskOfCard(r)
  BY CardAssumption DEF ConnInv, Closed, DialogView, Form
<1>1. r.what # "none" => r.card \in Card /\ f \in Form
  BY <1>0 DEF AskOfCard
<1>2. CASE FinishTest(k)
  <2> DEFINE e == [dialog[f] EXCEPT !.testing = FALSE,
                      !.verdict = IF r.st = "ok" THEN "ok" ELSE "bad"]
             d == IF dialog[f].card = "none" /\ f # "ia" THEN Closed ELSE e
  <2>1. r.what = "test" /\ f \in Form
    BY <1>1, <1>2 DEF FinishTest
  <2>2. e \in DialogView /\ e.card = dialog[f].card /\ ~e.testing
        /\ e.busy = dialog[f].busy
    BY <1>0, <2>1 DEF DialogView
  <2>3. d \in DialogView /\ d.card = dialog[f].card /\ ~d.testing
        /\ (d.busy => dialog[f].busy)
    BY <1>0, <2>2 DEF Closed
  <2>4. /\ dialog' = [dialog EXCEPT ![f] = d]
        /\ connReq' = [connReq EXCEPT ![k] = NoOp] /\ UNCHANGED <<deck, conns>>
    BY <1>2 DEF FinishTest, Late, Set
  <2> HIDE DEF d, e, f
  <2>5. d.card # "none" => d.card \in Card /\ FormOf[d.card] = f
    BY <1>0, <2>1, <2>3 DEF DialogOfCard
  <2>6. f = FormOf[connReq[k].card]
    BY DEF f
  <2> QED
    BY <2>1, <2>3, <2>4, <2>5, <2>6, FinishInv
<1>3. CASE FinishStart(k)
  <2> DEFINE d == [dialog["ia"] EXCEPT
                     !.busy = FALSE,
                     !.step = IF r.st = "ok" THEN "await_code" ELSE @]
  <2>1. r.what = "start" /\ FormOf[connReq[k].card] = "ia"
    BY <1>0, <1>3 DEF FinishStart, AskOfCard
  <2>2. d \in DialogView /\ d.card = dialog["ia"].card /\ ~d.busy
        /\ d.testing = dialog["ia"].testing
    BY <1>0 DEF DialogView
  <2>3. /\ dialog' = [dialog EXCEPT !["ia"] = d]
        /\ connReq' = [connReq EXCEPT ![k] = NoOp] /\ UNCHANGED <<deck, conns>>
    BY <1>3 DEF FinishStart, Set
  <2> HIDE DEF d, f
  <2> QED
    BY <1>0, <2>1, <2>2, <2>3, FinishInv DEF DialogOfCard
<1>4. CASE FinishConnect(k)
  <2>1. r.what = "connect" /\ f \in Form
    BY <1>1, <1>4 DEF FinishConnect
  <2>2. connReq' = [connReq EXCEPT ![k] = NoOp] /\ UNCHANGED <<deck, conns>>
    BY <1>4 DEF FinishConnect
  <2> DEFINE e == [dialog[f] EXCEPT !.busy = FALSE,
                     !.verdict = IF Engine(r.card) THEN @ ELSE "bad"]
  <2>3. \/ dialog' = [dialog EXCEPT ![f] = Closed]
        \/ dialog' = [dialog EXCEPT ![f] = e]
    BY <1>4 DEF FinishConnect, Reset, Late, Set
  <2>4. e \in DialogView /\ e.card = dialog[f].card /\ ~e.busy
        /\ e.testing = dialog[f].testing
    BY <1>0, <2>1 DEF DialogView
  <2>5. Closed.card = "none" /\ ~Closed.busy /\ ~Closed.testing
    BY DEF Closed
  <2> HIDE DEF e, f
  <2>6. e.card # "none" => e.card \in Card /\ FormOf[e.card] = f
    BY <1>0, <2>1, <2>4 DEF DialogOfCard
  <2>7. f = FormOf[connReq[k].card]
    BY DEF f
  <2>8. CASE dialog' = [dialog EXCEPT ![f] = Closed]
    BY <1>0, <2>1, <2>2, <2>5, <2>7, <2>8, FinishInv
  <2>9. CASE dialog' = [dialog EXCEPT ![f] = e]
    BY <2>1, <2>2, <2>4, <2>6, <2>7, <2>9, FinishInv
  <2> QED
    BY <2>3, <2>8, <2>9
<1>5. CASE FinishCard(k)
  <2>1. r.what \in {"disconnect", "reuse"} /\ f \in Form
    BY <1>1, <1>5 DEF FinishCard
  <2>2. /\ dialog' = [dialog EXCEPT ![f] = dialog[f]]
        /\ connReq' = [connReq EXCEPT ![k] = NoOp] /\ UNCHANGED <<deck, conns>>
    BY <1>5 DEF FinishCard, ConnInv
  <2>3. f = FormOf[connReq[k].card]
    OBVIOUS
  <2> HIDE DEF f
  <2> QED
    BY <1>0, <2>1, <2>2, <2>3, FinishInv DEF DialogOfCard
<1> QED
  BY <1>2, <1>3, <1>4, <1>5 DEF ConnFinish

LEMMA ReplyInv ==
  ASSUME ConnInv, NEW k \in ConnReq, NEW st \in {"ok", "refused", "lost"},
         Reply(k, st), UNCHANGED <<deck, dialog>>,
         conns' \in SUBSET Row, \A x \in conns' : x.tok \in GoodCred \cup {"none"}
  PROVE  ConnInv'
<1> DEFINE r == [connReq[k] EXCEPT !.st = st, !.tok = "none", !.seen = {}]
<1>1. connReq[k] \in ConnAsk /\ AskOfCard(connReq[k])
  BY DEF ConnInv
<1>2. r \in ConnAsk /\ r.what = connReq[k].what /\ r.card = connReq[k].card
      /\ r.st = st
  BY <1>1 DEF ConnAsk
<1>3. connReq' = [connReq EXCEPT ![k] = r]
  BY DEF Reply, ConnInv
<1> HIDE DEF r
<1>4. AskOfCard(r)
  BY <1>1, <1>2 DEF AskOfCard
<1> QED
  BY <1>2, <1>3, <1>4, ServeInv

LEMMA CheckInv ==
  ASSUME ConnInv, NEW k \in ConnReq, NEW t \in Cred \cup {"none"}, Check(k, t),
         connReq[k].what \in {"connect", "reuse"},
         FormOf[connReq[k].card] = "git" => t \in GoodCred,
         UNCHANGED <<deck, conns, dialog>>
  PROVE  ConnInv'
<1> DEFINE r == [connReq[k] EXCEPT !.tok = t, !.st = "checked"]
<1>1. connReq[k] \in ConnAsk /\ AskOfCard(connReq[k])
  BY DEF ConnInv
<1>2. r \in ConnAsk /\ r.what = connReq[k].what /\ r.card = connReq[k].card
      /\ r.st = "checked" /\ r.tok = t
  BY <1>1 DEF ConnAsk
<1>3. connReq' = [connReq EXCEPT ![k] = r]
  BY DEF Check, ConnInv
<1> HIDE DEF r
<1>4. AskOfCard(r)
  BY <1>1, <1>2 DEF AskOfCard
<1> QED
  BY <1>2, <1>3, <1>4, ServeInv DEF ConnInv

LEMMA BeginInv ==
  ASSUME ConnInv, NEW k \in ConnReq, Begin(k)
  PROVE  ConnInv'
<1> DEFINE S == Replaces(connReq[k].card)
           r == [connReq[k] EXCEPT !.st = "writing", !.seen = S]
<1>1. connReq[k] \in ConnAsk /\ AskOfCard(connReq[k]) /\ S \in SUBSET Row
      /\ connReq[k].st = "checked"
  BY DEF Begin, ConnInv, Replaces
<1> HIDE DEF S
<1>2. r \in ConnAsk /\ r.what = connReq[k].what /\ r.card = connReq[k].card
      /\ r.tok = connReq[k].tok
  BY <1>1 DEF ConnAsk
<1>3. connReq' = [connReq EXCEPT ![k] = r] /\ UNCHANGED <<deck, conns, dialog>>
  BY DEF Begin, ConnInv, S
<1> HIDE DEF r
<1>4. AskOfCard(r)
  BY <1>1, <1>2 DEF AskOfCard
<1> QED
  BY <1>2, <1>3, <1>4, ServeInv DEF ConnInv

\* The row a transaction writes: a code connection's token is accepted.
LEMMA CommitRows ==
  ASSUME ConnInv, NEW k \in ConnReq, Commit(k)
  PROVE  /\ conns' \in SUBSET Row
         /\ \A x \in conns' : x.tok \in GoodCred \cup {"none"}
         /\ \A x \in conns' \ conns : FormOf[x.card] = "git" => x.tok \in GoodCred
<1> DEFINE r == connReq[k]
           x == [card |-> r.card,
                 tok |-> IF FormOf[r.card] = "git" THEN r.tok ELSE "none"]
<1>1. r \in ConnAsk /\ AskOfCard(r) /\ r.st = "writing" /\ r.what # "none"
  BY DEF ConnInv, Commit, AskOfCard
<1>2. r.card \in Card
  BY <1>1 DEF AskOfCard
<1>3. x \in Row /\ x.tok \in GoodCred \cup {"none"}
      /\ (FormOf[x.card] = "git" => x.tok \in GoodCred)
  BY <1>1, <1>2 DEF AskOfCard, Row, ConnAsk
<1>4. conns' = (conns \ r.seen) \cup {x}
  BY DEF Commit
<1> HIDE DEF x
<1> QED
  BY <1>3, <1>4 DEF ConnInv

LEMMA ConnServeInv ==
  ASSUME ConnInv, NEW k \in ConnReq, ConnServe(k)
  PROVE  ConnInv'
<1> DEFINE r == connReq[k]
<1>0. /\ r \in ConnAsk /\ AskOfCard(r) /\ conns \in SUBSET Row
      /\ \A x \in conns : x.tok \in GoodCred \cup {"none"}
  BY DEF ConnInv
<1>1. CASE \/ TestCred(k) \/ StartClaude(k) \/ Reject(k) \/ Lose(k) \/ RollBack(k)
  <2>1. \E st \in {"ok", "refused", "lost"} : Reply(k, st)
    BY <1>1 DEF TestCred, StartClaude, Reject, Lose, RollBack
  <2>2. UNCHANGED <<deck, conns, dialog>>
    BY <1>1 DEF TestCred, StartClaude, Reject, Lose, RollBack
  <2> QED
    BY <1>0, <2>1, <2>2, ReplyInv
<1>2. CASE Validate(k)
  <2>1. UNCHANGED <<deck, conns, dialog>> /\ r.what = "connect"
    BY <1>2 DEF Validate
  <2>2. CASE Reply(k, "refused")
    BY <1>0, <2>1, <2>2, ReplyInv
  <2>3. CASE Check(k, r.tok) /\ (r.tok \in GoodCred \/ r.card = "api")
    <3>1. r.card \in Card /\ r.tok \in Cred \cup {"none"}
      BY <1>0, <2>1 DEF AskOfCard, ConnAsk
    <3>2. FormOf[r.card] = "git" => r.tok \in GoodCred
      BY <2>3, <3>1, CardAssumption
    <3> QED
      BY <2>1, <2>3, <3>1, <3>2, CheckInv
  <2> QED
    BY <1>2, <2>2, <2>3 DEF Validate
<1>3. CASE FindReusable(k)
  <2>1. UNCHANGED <<deck, conns, dialog>> /\ r.what = "reuse"
    BY <1>3 DEF FindReusable
  <2>2. CASE Reply(k, "refused")
    BY <1>0, <2>1, <2>2, ReplyInv
  <2>3. ASSUME NEW s \in conns, FormOf[r.card] = "git" => s.tok # "none",
               Check(k, s.tok)
        PROVE  ConnInv'
    <3>1. s.tok \in GoodCred \cup {"none"} /\ s.tok \in Cred \cup {"none"}
      BY <1>0 DEF Row
    <3> QED
      BY <2>1, <2>3, <3>1, CheckInv
  <2> QED
    BY <1>3, <2>2, <2>3 DEF FindReusable
<1>4. CASE Commit(k)
  <2>1. UNCHANGED <<deck, dialog>> /\ Reply(k, "ok")
    BY <1>4 DEF Commit
  <2> QED
    BY <1>4, <2>1, CommitRows, ReplyInv
<1>5. CASE Disconnect(k)
  <2>1. UNCHANGED <<deck, dialog>> /\ Reply(k, "ok") /\ conns' \subseteq conns
    BY <1>5 DEF Disconnect
  <2> QED
    BY <1>0, <2>1, ReplyInv
<1> QED
  BY <1>1, <1>2, <1>3, <1>4, <1>5, BeginInv DEF ConnServe

LEMMA ConnNextInv == ConnInv /\ [ConnNext]_connVars => ConnInv'
<1> SUFFICES ASSUME ConnInv, [ConnNext]_connVars PROVE ConnInv'
  OBVIOUS
<1>1. CASE UNCHANGED <<deck, conns, dialog, connReq>>
  BY <1>1 DEF ConnInv, DialogOfCard, AskOfCard, BusyIsReal
<1> QED
  BY <1>1, ConnUserInv, ConnFinishInv, ConnServeInv DEF ConnNext, connVars

\* Only a commit adds a row.
LEMMA ConnTokens ==
  ASSUME ConnInv, [ConnNext]_connVars,
         NEW x \in conns' \ conns, FormOf[x.card] = "git"
  PROVE  x.tok \in GoodCred
<1>1. CASE conns' \subseteq conns
  BY <1>1
<1>2. ASSUME NEW k \in ConnReq, Commit(k) PROVE x.tok \in GoodCred
  BY <1>2, CommitRows
<1>3. ASSUME NEW k \in ConnReq, ConnFinish(k) PROVE conns' = conns
  BY <1>3 DEF ConnFinish, FinishTest, FinishStart, FinishConnect, FinishCard
<1>4. ASSUME ConnUser PROVE conns' = conns
  BY <1>4 DEF ConnUser, OpenDialog, CloseDialog, Type, SendTest, SendConnect,
              ClaudeStart, SendDisconnect, SendReuse, Send
<1>5. ASSUME NEW k \in ConnReq, ConnServe(k), ~Commit(k) PROVE conns' \subseteq conns
  BY <1>5 DEF ConnServe, TestCred, StartClaude, Validate, FindReusable, Begin,
              RollBack, Disconnect, Reject, Lose
<1> QED
  BY <1>1, <1>2, <1>3, <1>4, <1>5 DEF ConnNext, connVars

\* What the page was told and is being told are cards, and a request that is
\* not free was made.
Made(r) == (r = NoOp) <=> (r.st = "free")

ConnTypes ==
  /\ deck \in Decks
  /\ connShown \subseteq Card
  /\ connGets \in [ConnGet -> SUBSET SUBSET Card]
  /\ \A k \in ConnReq : Made(connReq[k])

LEMMA ConnInitTypes == ConnInit => ConnTypes
<1> SUFFICES ASSUME ConnInit PROVE ConnTypes
  OBVIOUS
<1>1. connShown = {} /\ connGets = [g \in ConnGet |-> {}]
  BY DEF ConnInit, ConnPoll!PollInit, ConnPoll!Idle
<1>2. Made(NoOp)
  BY DEF Made, NoOp
<1> QED
  BY <1>1, <1>2 DEF ConnInit, ConnTypes

LEMMA ConnRequestTypes ==
  ASSUME ConnInv, ConnTypes, UNCHANGED <<deck, connShown, connGets>>,
         NEW k \in ConnReq, NEW r, r = NoOp \/ r.st # "free",
         connReq' = [connReq EXCEPT ![k] = r]
  PROVE  ConnTypes'
<1>1. Made(r)
  BY DEF Made, NoOp
<1>2. \A j \in ConnReq : connReq'[j] = IF j = k THEN r ELSE connReq[j]
  BY DEF ConnInv
<1>3. \A j \in ConnReq : Made(connReq'[j])
  BY <1>1, <1>2 DEF ConnTypes
<1> QED
  BY <1>3 DEF ConnTypes, Made

LEMMA ConnReplyTypes ==
  ASSUME ConnInv, ConnTypes, UNCHANGED <<deck, connShown, connGets>>,
         NEW k \in ConnReq, NEW st, st # "free", Reply(k, st)
  PROVE  ConnTypes'
<1> DEFINE r == [connReq[k] EXCEPT !.st = st, !.tok = "none", !.seen = {}]
<1>1. connReq \in [ConnReq -> ConnAsk] /\ connReq[k] \in ConnAsk
  BY DEF ConnInv
<1>2. r.st = st
  BY <1>1 DEF ConnAsk
<1>3. connReq' = [connReq EXCEPT ![k] = r]
  BY <1>1 DEF Reply
<1> HIDE DEF r
<1> QED
  BY <1>2, <1>3, ConnRequestTypes

LEMMA ConnMoveTypes ==
  ASSUME ConnInv, ConnTypes, UNCHANGED <<deck, connShown, connGets>>,
         NEW k \in ConnReq, (\E t : Check(k, t)) \/ Begin(k)
  PROVE  ConnTypes'
<1>1. connReq \in [ConnReq -> ConnAsk] /\ connReq[k] \in ConnAsk
  BY DEF ConnInv
<1>2. PICK r : connReq' = [connReq EXCEPT ![k] = r] /\ r.st # "free"
  <2>1. ASSUME NEW t, Check(k, t)
        PROVE  \E r : connReq' = [connReq EXCEPT ![k] = r] /\ r.st # "free"
    <3> DEFINE r == [connReq[k] EXCEPT !.tok = t, !.st = "checked"]
    <3>1. r.st # "free"
      BY <1>1 DEF ConnAsk
    <3>2. connReq' = [connReq EXCEPT ![k] = r]
      BY <1>1, <2>1 DEF Check
    <3> HIDE DEF r
    <3> QED
      BY <3>1, <3>2
  <2>2. ASSUME Begin(k)
        PROVE  \E r : connReq' = [connReq EXCEPT ![k] = r] /\ r.st # "free"
    <3> DEFINE r == [connReq[k] EXCEPT !.st = "writing",
                                       !.seen = Replaces(connReq[k].card)]
    <3>1. r.st # "free"
      BY <1>1 DEF ConnAsk
    <3>2. connReq' = [connReq EXCEPT ![k] = r]
      BY <1>1, <2>2 DEF Begin
    <3> HIDE DEF r
    <3> QED
      BY <3>1, <3>2
  <2> QED
    BY <2>1, <2>2
<1> QED
  BY <1>2, ConnRequestTypes

LEMMA ConnSendTypes ==
  ASSUME ConnInv, ConnTypes, NEW k \in ConnReq, NEW what, NEW c, NEW t,
         Send(k, what, c, t)
  PROVE  ConnTypes'
<1> DEFINE r == [what |-> what, card |-> c, tok |-> t, st |-> "sent", seen |-> {}]
<1>1. r.st # "free"
  OBVIOUS
<1>2. connReq' = [connReq EXCEPT ![k] = r] /\ UNCHANGED <<deck, connShown, connGets>>
  BY DEF Send
<1> HIDE DEF r
<1> QED
  BY <1>1, <1>2, ConnRequestTypes

LEMMA ConnNextTypes ==
  ConnInv /\ ConnTypes /\ [ConnNext]_connVars => ConnTypes'
<1> SUFFICES ASSUME ConnInv, ConnTypes, [ConnNext]_connVars PROVE ConnTypes'
  OBVIOUS
<1>1. ASSUME UNCHANGED <<deck, connReq, connShown, connGets>> PROVE ConnTypes'
  BY <1>1 DEF ConnTypes, Made
<1>2. CASE UNCHANGED connVars
  BY <1>1, <1>2 DEF connVars
<1>3. CASE ConnUser
  <2>1. CASE \/ \E c \in deck : OpenDialog(c)
             \/ \E f \in Form : CloseDialog(f) \/ \E t \in Cred : Type(f, t)
    BY <1>1, <2>1 DEF OpenDialog, CloseDialog, Type
  <2>2. ASSUME NEW k \in ConnReq, NEW f, SendTest(f, k) \/ SendConnect(f, k)
        PROVE  ConnTypes'
    BY <2>2, ConnSendTypes DEF SendTest, SendConnect
  <2>3. ASSUME NEW k \in ConnReq, ClaudeStart(k) PROVE ConnTypes'
    BY <2>3, ConnSendTypes DEF ClaudeStart
  <2>4. ASSUME NEW k \in ConnReq, NEW c, SendDisconnect(c, k) \/ SendReuse(c, k)
        PROVE  ConnTypes'
    BY <2>4, ConnSendTypes DEF SendDisconnect, SendReuse
  <2> QED
    BY <1>3, <2>1, <2>2, <2>3, <2>4 DEF ConnUser
<1>4. ASSUME NEW k \in ConnReq, ConnFinish(k) PROVE ConnTypes'
  <2>1. connReq' = [connReq EXCEPT ![k] = NoOp] /\ UNCHANGED <<deck, connShown, connGets>>
    BY <1>4 DEF ConnFinish, FinishTest, FinishStart, FinishConnect, FinishCard
  <2> QED
    BY <2>1, ConnRequestTypes
<1>5. ASSUME NEW k \in ConnReq, ConnServe(k) PROVE ConnTypes'
  <2>1. UNCHANGED <<deck, connShown, connGets>>
    BY <1>5 DEF ConnServe, TestCred, StartClaude, Validate, FindReusable, Begin,
                Commit, RollBack, Disconnect, Reject, Lose
  <2>2. \/ Reply(k, "ok") \/ Reply(k, "refused") \/ Reply(k, "lost")
        \/ (\E t : Check(k, t)) \/ Begin(k)
    BY <1>5 DEF ConnServe, TestCred, StartClaude, Validate, FindReusable, Begin,
                Commit, RollBack, Disconnect, Reject, Lose
  <2> QED
    BY <2>1, <2>2, ConnReplyTypes, ConnMoveTypes
<1>6. CASE ConnPoll!Poll /\ UNCHANGED <<deck, conns, dialog, connReq>>
  <2>1. Cards(conns) \subseteq Card
    BY DEF ConnInv, Cards, Row
  <2>2. PICK g \in ConnGet :
          ConnPoll!Reload(g) \/ ConnPoll!Miss(g) \/ ConnPoll!Arrive(g)
    BY <1>6 DEF ConnPoll!Poll
  <2>3. CASE ConnPoll!Reload(g)
    <3>1. connGets' = [connGets EXCEPT ![g] = {Cards(conns)}] /\ connShown' = connShown
      BY <2>3 DEF ConnPoll!Reload, ConnPoll!Data
    <3>2. connGets' \in [ConnGet -> SUBSET SUBSET Card]
      BY <2>1, <3>1 DEF ConnTypes
    <3> QED
      BY <1>6, <3>1, <3>2 DEF ConnTypes, Made
  <2>4. CASE ConnPoll!Miss(g)
    BY <1>1, <1>6, <2>4 DEF ConnPoll!Miss
  <2>5. CASE ConnPoll!Arrive(g)
    <3>1. connGets' = [connGets EXCEPT ![g] = {}] /\ connShown' \in connGets[g]
      BY <2>5 DEF ConnPoll!Arrive, ConnPoll!Idle
    <3>2. connGets[g] \subseteq SUBSET Card
      BY DEF ConnTypes
    <3>3. connGets' \in [ConnGet -> SUBSET SUBSET Card] /\ connShown' \subseteq Card
      BY <3>1, <3>2 DEF ConnTypes
    <3> QED
      BY <1>6, <3>3 DEF ConnTypes, Made
  <2> QED
    BY <2>2, <2>3, <2>4, <2>5
<1> QED
  BY <1>2, <1>3, <1>4, <1>5, <1>6 DEF ConnNext

LEMMA ConnTypesOK == ConnInv /\ ConnTypes => ConnTypeOK
<1> SUFFICES ASSUME ConnInv, ConnTypes PROVE ConnTypeOK
  OBVIOUS
<1>1. \A k \in ConnReq : connReq[k] \in ConnAsk /\ Made(connReq[k])
  BY DEF ConnInv, ConnTypes
<1>2. \A k \in ConnReq :
       /\ connReq[k].what \in ConnOp \cup {"none"}
       /\ connReq[k].st \in {"free", "sent", "checked", "writing", "ok",
                             "refused", "lost"}
       /\ connReq[k].seen \subseteq Row
  BY <1>1 DEF ConnAsk
<1>3. \A k \in ConnReq : (connReq[k] = NoOp) <=> (connReq[k].st = "free")
  BY <1>1 DEF Made
<1> QED
  BY <1>2, <1>3 DEF ConnInv, ConnTypes, ConnTypeOK, DialogView

----------------------------------------------------------------------------
(* The repositories tab.                                                   *)

AddView == [open : BOOLEAN, step : {"source", "repo", "dir"},
            prov : Source \cup {None}, list : Source \cup {None, "error"},
            loading : BOOLEAN, sel : Source \cup {None}, saving : BOOLEAN]
RowDialog == [id : RepoId \cup {0}, name : RepoName \cup {None}, busy : BOOLEAN]
RepoAsk == [what : {None, "list", "save", "edit", "delete"}, id : RepoId \cup {0},
            prov : Source \cup {None}, of : Source \cup {None},
            name : RepoName \cup {None},
            st : {"free", "sent", "ok", "refused", "lost", "cloning"}]

\* What a dialog has asked for by the step it is at, and so what it sends.
StepsInOrder(a) ==
  /\ a.step # "source" => a.prov \in Source
  /\ a.step = "dir" => a.sel \in Source

FilledIn(r) ==
  /\ r.st = "cloning" => r.what = "save"
  /\ (r.st = "sent" /\ r.what = "save") =>
       r.prov \in Source /\ r.of \in Source /\ r.name \in RepoName
  /\ (r.st = "sent" /\ r.what = "edit") => r.name \in RepoName

RepoInv ==
  /\ repos \in [RepoId -> RepoRow]
  /\ repoShown \subseteq RepoId \X RepoName
  /\ repoGets \in [RepoGet -> SUBSET SUBSET (RepoId \X RepoName)]
  /\ add \in AddView /\ StepsInOrder(add)
  /\ edit \in RowDialog /\ (edit.id # 0 => edit.name \in RepoName)
  /\ del \in RowDialog
  /\ repoReq \in [RepoReq -> RepoAsk]
  /\ \A k \in RepoReq : FilledIn(repoReq[k])
  /\ RepoBusyIsReal

Waits(what) == \E k \in RepoReq : repoReq[k].what = what

LEMMA RepoInitInv == RepoInit => RepoInv
<1> SUFFICES ASSUME RepoInit PROVE RepoInv
  OBVIOUS
<1>1. AddClosed \in AddView /\ StepsInOrder(AddClosed)
      /\ ~AddClosed.saving /\ ~AddClosed.loading
  BY DEF AddClosed, AddView, StepsInOrder
<1>2. NotOpen \in RowDialog /\ NotOpen.id = 0 /\ ~NotOpen.busy
  BY DEF NotOpen, RowDialog
<1>3. NoRepoReq \in RepoAsk /\ FilledIn(NoRepoReq)
  BY DEF NoRepoReq, RepoAsk, FilledIn, None
<1>4. repos \in [RepoId -> RepoRow]
  BY DEF RepoInit
<1>5. repoShown = {} /\ repoGets = [g \in RepoGet |-> {}]
  BY DEF RepoInit, RepoPoll!PollInit, RepoPoll!Idle
<1> QED
  BY <1>1, <1>2, <1>3, <1>4, <1>5 DEF RepoInit, RepoInv, RepoBusyIsReal

\* Requests sent, answered and taken: what is waited for besides stays.
LEMMA RepoSendWaits ==
  ASSUME RepoInv, NEW k \in RepoReq, NEW r \in RepoAsk, FilledIn(r),
         RepoSend(k, r)
  PROVE  /\ repoReq' \in [RepoReq -> RepoAsk]
         /\ \A j \in RepoReq : FilledIn(repoReq[j])'
         /\ Waits(r.what)'
         /\ \A w \in {"list", "save", "edit", "delete"} : Waits(w) => Waits(w)'
<1>1. repoReq' = [repoReq EXCEPT ![k] = r] /\ repoReq[k].what = None
      /\ repoReq \in [RepoReq -> RepoAsk]
  BY DEF RepoSend, NoRepoReq, RepoInv
<1>2. \A j \in RepoReq : FilledIn(repoReq'[j])
  BY <1>1 DEF RepoInv
<1> QED
  BY <1>1, <1>2 DEF Waits, None, FilledIn

LEMMA RepoTakeWaits ==
  ASSUME RepoInv, NEW k \in RepoReq, repoReq' = [repoReq EXCEPT ![k] = NoRepoReq]
  PROVE  /\ repoReq' \in [RepoReq -> RepoAsk]
         /\ \A j \in RepoReq : FilledIn(repoReq[j])'
         /\ \A w : (w # repoReq[k].what /\ Waits(w)) => Waits(w)'
<1>1. NoRepoReq \in RepoAsk /\ FilledIn(NoRepoReq)
  BY DEF NoRepoReq, RepoAsk, FilledIn, None
<1>2. repoReq \in [RepoReq -> RepoAsk] /\ \A j \in RepoReq : FilledIn(repoReq'[j])
  BY <1>1 DEF RepoInv
<1> QED
  BY <1>1, <1>2 DEF Waits, FilledIn

LEMMA RepoReplyWaits ==
  ASSUME RepoInv, NEW k \in RepoReq, NEW st \in {"ok", "refused", "lost"},
         RepoReply(k, st)
  PROVE  /\ repoReq' \in [RepoReq -> RepoAsk]
         /\ \A j \in RepoReq : FilledIn(repoReq[j])'
         /\ \A w : Waits(w) => Waits(w)'
         /\ repoReq'[k].st = st
<1>1. repoReq \in [RepoReq -> RepoAsk] /\ repoReq[k] \in RepoAsk
  BY DEF RepoInv
<1> DEFINE p == IF repoReq[k].what = "list" THEN repoReq[k].prov ELSE None
           r == [NoRepoReq EXCEPT !.what = repoReq[k].what, !.st = st,
                    !.prov = p]
<1>2. r \in RepoAsk /\ r.what = repoReq[k].what /\ r.st = st
  <2>1. /\ p \in Source \cup {None}
        /\ repoReq[k].what \in {None, "list", "save", "edit", "delete"}
    BY <1>1 DEF RepoAsk
  <2>2. NoRepoReq \in RepoAsk
    BY DEF NoRepoReq, RepoAsk, None
  <2> HIDE DEF p
  <2> QED
    BY <2>1, <2>2 DEF RepoAsk
<1>3. repoReq' = [repoReq EXCEPT ![k] = r]
  BY DEF RepoReply
<1> HIDE DEF r
<1>4. FilledIn(r)
  BY <1>2 DEF FilledIn
<1>5. \A j \in RepoReq : FilledIn(repoReq'[j])
  BY <1>1, <1>3, <1>4 DEF RepoInv
<1> QED
  BY <1>1, <1>2, <1>3, <1>5 DEF Waits, FilledIn

\* A flag that is set is one that was, and is still waited for, or one of the
\* request that was just sent.
LEMMA RepoStepInv ==
  ASSUME RepoInv,
         repos' \in [RepoId -> RepoRow],
         UNCHANGED <<repoShown, repoGets>>,
         add' \in AddView, StepsInOrder(add'),
         edit' \in RowDialog, edit'.id # 0 => edit'.name \in RepoName,
         del' \in RowDialog,
         repoReq' \in [RepoReq -> RepoAsk],
         \A k \in RepoReq : FilledIn(repoReq[k])',
         add'.saving => Waits("save")', add'.loading => Waits("list")',
         edit'.busy => Waits("edit")', del'.busy => Waits("delete")'
  PROVE  RepoInv'
BY DEF RepoInv, RepoBusyIsReal, Waits, StepsInOrder

LEMMA RepoFlags ==
  RepoInv => /\ add.saving => Waits("save")
             /\ add.loading => Waits("list")
             /\ edit.busy => Waits("edit")
             /\ del.busy => Waits("delete")
BY DEF RepoInv, RepoBusyIsReal, Waits

LEMMA RepoUserInv ==
  ASSUME RepoInv, RepoUser
  PROVE  RepoInv'
<1>0. /\ add \in AddView /\ edit \in RowDialog /\ del \in RowDialog
      /\ StepsInOrder(add) /\ (edit.id # 0 => edit.name \in RepoName)
      /\ repoReq \in [RepoReq -> RepoAsk] /\ repos \in [RepoId -> RepoRow]
      /\ \A j \in RepoReq : FilledIn(repoReq[j])
  BY DEF RepoInv
<1>1. AddClosed \in AddView /\ StepsInOrder(AddClosed)
      /\ ~AddClosed.saving /\ ~AddClosed.loading
  BY DEF AddClosed, AddView, StepsInOrder
<1>2. ASSUME UNCHANGED <<repos, repoShown, repoGets, repoReq>>,
             add' \in AddView, StepsInOrder(add'),
             add'.saving => add.saving, add'.loading => add.loading,
             edit' \in RowDialog, edit'.id # 0 => edit'.name \in RepoName,
             del' \in RowDialog,
             edit'.busy => edit.busy, del'.busy => del.busy
      PROVE  RepoInv'
  <2>1. \A w : Waits(w)' <=> Waits(w)
    BY <1>2 DEF Waits
  <2>2. \A k \in RepoReq : FilledIn(repoReq[k])'
    BY <1>0, <1>2 DEF FilledIn
  <2> QED
    BY <1>0, <1>2, <2>1, <2>2, RepoFlags, RepoStepInv
<1>3. CASE OpenAdd \/ CloseAdd
  <2>1. /\ add' \in AddView /\ StepsInOrder(add') /\ ~add'.saving /\ ~add'.loading
    BY <1>1, <1>3 DEF OpenAdd, CloseAdd, AddClosed, AddView, StepsInOrder
  <2> QED
    BY <1>0, <1>2, <1>3, <2>1 DEF OpenAdd, CloseAdd
<1>4. CASE StepBack
  <2>1. /\ add' \in AddView /\ StepsInOrder(add')
        /\ add'.saving = add.saving /\ add'.loading = add.loading
    BY <1>0, <1>4 DEF StepBack, AddView, StepsInOrder
  <2> QED
    BY <1>0, <1>2, <1>4, <2>1 DEF StepBack
<1>5. CASE PickRemoteRepo
  <2>1. /\ add' \in AddView /\ StepsInOrder(add')
        /\ add'.saving = add.saving /\ add'.loading = add.loading
    BY <1>0, <1>5 DEF PickRemoteRepo, AddView, StepsInOrder
  <2> QED
    BY <1>0, <1>2, <1>5, <2>1 DEF PickRemoteRepo
<1>6. CASE CloseEditOrDel
  <2>1. /\ edit' \in RowDialog /\ (edit'.id # 0 => edit'.name \in RepoName)
        /\ del' \in RowDialog /\ edit'.busy = edit.busy /\ del'.busy = del.busy
    BY <1>0, <1>6 DEF CloseEditOrDel, RowDialog
  <2> QED
    BY <1>0, <1>2, <1>6, <2>1 DEF CloseEditOrDel
<1>7. ASSUME NEW x \in repoShown, OpenRepoEdit(x) \/ OpenDel(x) PROVE RepoInv'
  <2>1. x[1] \in RepoId /\ x[2] \in RepoName
    BY DEF RepoInv
  <2>2. /\ edit' \in RowDialog /\ (edit'.id # 0 => edit'.name \in RepoName)
        /\ del' \in RowDialog /\ edit'.busy = edit.busy /\ del'.busy = del.busy
    BY <1>0, <1>7, <2>1 DEF OpenRepoEdit, OpenDel, RowDialog
  <2> QED
    BY <1>0, <1>2, <1>7, <2>2 DEF OpenRepoEdit, OpenDel
<1>8. ASSUME NEW n \in RepoName, TypeName(n) PROVE RepoInv'
  <2>1. /\ edit' \in RowDialog /\ edit'.name = n /\ edit'.busy = edit.busy
    BY <1>0, <1>8 DEF TypeName, RowDialog
  <2> QED
    BY <1>0, <1>2, <1>8, <2>1 DEF TypeName
<1>9. ASSUME NEW p \in Source, NEW k \in RepoReq, PickRepoSource(p, k)
      PROVE  RepoInv'
  <2> DEFINE r == [NoRepoReq EXCEPT !.what = "list", !.prov = p, !.st = "sent"]
  <2>1. r \in RepoAsk /\ FilledIn(r) /\ r.what = "list"
    BY DEF NoRepoReq, RepoAsk, FilledIn
  <2>2. /\ add' \in AddView /\ StepsInOrder(add') /\ add'.saving = add.saving
    BY <1>0, <1>9 DEF PickRepoSource, AddView, StepsInOrder
  <2>3. RepoSend(k, r) /\ UNCHANGED <<repos, repoShown, repoGets, edit, del>>
    BY <1>9 DEF PickRepoSource, RepoSend
  <2> HIDE DEF r
  <2> QED
    BY <1>0, <2>1, <2>2, <2>3, RepoSendWaits, RepoFlags, RepoStepInv
<1>10. ASSUME NEW n \in RepoName, NEW k \in RepoReq, SaveRepo(n, k)
       PROVE  RepoInv'
  <2> DEFINE r == [what |-> "save", id |-> 0, prov |-> add.prov,
                   of |-> add.sel, name |-> n, st |-> "sent"]
  <2>1. r \in RepoAsk /\ FilledIn(r) /\ r.what = "save"
    BY <1>0, <1>10 DEF SaveRepo, RepoAsk, FilledIn, AddView, StepsInOrder
  <2>2. /\ add' \in AddView /\ StepsInOrder(add') /\ add'.loading = add.loading
    BY <1>0, <1>10 DEF SaveRepo, AddView, StepsInOrder
  <2>3. RepoSend(k, r) /\ UNCHANGED <<repos, repoShown, repoGets, edit, del>>
    BY <1>10 DEF SaveRepo, RepoSend
  <2> HIDE DEF r
  <2> QED
    BY <1>0, <2>1, <2>2, <2>3, RepoSendWaits, RepoFlags, RepoStepInv
<1>11. ASSUME NEW k \in RepoReq, SaveRepoEdit(k) PROVE RepoInv'
  <2> DEFINE r == [NoRepoReq EXCEPT !.what = "edit", !.id = edit.id,
                                    !.name = edit.name, !.st = "sent"]
  <2>1. r \in RepoAsk /\ FilledIn(r) /\ r.what = "edit"
    BY <1>0, <1>11 DEF SaveRepoEdit, NoRepoReq, RepoAsk, FilledIn, RowDialog
  <2>2. edit' \in RowDialog /\ edit'.name = edit.name /\ edit'.id = edit.id
    BY <1>0, <1>11 DEF SaveRepoEdit, RowDialog
  <2>3. RepoSend(k, r) /\ UNCHANGED <<repos, repoShown, repoGets, add, del>>
    BY <1>11 DEF SaveRepoEdit, RepoSend
  <2> HIDE DEF r
  <2> QED
    BY <1>0, <2>1, <2>2, <2>3, RepoSendWaits, RepoFlags, RepoStepInv
<1>12. ASSUME NEW k \in RepoReq, ConfirmDelRepo(k) PROVE RepoInv'
  <2> DEFINE r == [NoRepoReq EXCEPT !.what = "delete", !.id = del.id,
                                    !.st = "sent"]
  <2>1. r \in RepoAsk /\ FilledIn(r) /\ r.what = "delete"
    BY <1>0 DEF NoRepoReq, RepoAsk, FilledIn, RowDialog
  <2>2. del' \in RowDialog
    BY <1>0, <1>12 DEF ConfirmDelRepo, RowDialog
  <2>3. RepoSend(k, r) /\ UNCHANGED <<repos, repoShown, repoGets, add, edit>>
    BY <1>12 DEF ConfirmDelRepo, RepoSend
  <2> HIDE DEF r
  <2> QED
    BY <1>0, <2>1, <2>2, <2>3, RepoSendWaits, RepoFlags, RepoStepInv
<1> QED
  BY <1>3, <1>4, <1>5, <1>6, <1>7, <1>8, <1>9, <1>10, <1>11, <1>12 DEF RepoUser

LEMMA RepoFinishInv ==
  ASSUME RepoInv, NEW k \in RepoReq, RepoFinish(k)
  PROVE  RepoInv'
<1>0. /\ add \in AddView /\ edit \in RowDialog /\ del \in RowDialog
      /\ StepsInOrder(add) /\ (edit.id # 0 => edit.name \in RepoName)
      /\ repoReq \in [RepoReq -> RepoAsk] /\ repos \in [RepoId -> RepoRow]
      /\ FilledIn(repoReq[k]) /\ repoReq[k] \in RepoAsk
      /\ \A j \in RepoReq : FilledIn(repoReq[j])
  BY DEF RepoInv
<1>1. AddClosed \in AddView /\ StepsInOrder(AddClosed)
      /\ ~AddClosed.saving /\ ~AddClosed.loading
  BY DEF AddClosed, AddView, StepsInOrder
<1>2. NotOpen \in RowDialog /\ NotOpen.id = 0 /\ ~NotOpen.busy
  BY DEF NotOpen, RowDialog
<1>3. CASE ReceiveList(k)
  <2> DEFINE a == [add EXCEPT !.loading = FALSE,
                     !.list = IF repoReq[k].st = "ok" THEN repoReq[k].prov
                                                      ELSE "error"]
  <2>1. a \in AddView /\ StepsInOrder(a) /\ a.saving = add.saving /\ ~a.loading
    <3> DEFINE l == IF repoReq[k].st = "ok" THEN repoReq[k].prov ELSE "error"
    <3>1. l \in Source \cup {None, "error"}
      BY <1>0 DEF RepoAsk
    <3>2. a = [add EXCEPT !.loading = FALSE, !.list = l]
      OBVIOUS
    <3> HIDE DEF a, l
    <3>3. /\ a.step = add.step /\ a.prov = add.prov /\ a.sel = add.sel
          /\ a.saving = add.saving /\ ~a.loading
      BY <1>0, <3>2 DEF AddView
    <3>4. a \in AddView
      BY <1>0, <3>1, <3>2 DEF AddView
    <3> QED
      BY <1>0, <3>3, <3>4 DEF StepsInOrder
  <2>2. /\ repoReq[k].what = "list" /\ repoReq' = [repoReq EXCEPT ![k] = NoRepoReq]
        /\ UNCHANGED <<repos, repoShown, repoGets, edit, del>>
        /\ add' = a \/ add' = AddClosed
    BY <1>3 DEF ReceiveList, RepoAnswered, LateAdd
  <2> HIDE DEF a
  <2> QED
    BY <1>0, <1>1, <2>1, <2>2, RepoTakeWaits, RepoFlags, RepoStepInv
<1>4. CASE ReceiveSaved(k) /\ repoReq' = [repoReq EXCEPT ![k] = NoRepoReq]
  <2>1. repoReq[k].what = "save" /\ add' \in {AddClosed, add}
        /\ UNCHANGED <<repos, repoShown, repoGets, edit, del>>
    BY <1>4 DEF ReceiveSaved
  <2>2. add' = AddClosed
    BY <1>0, <1>4 DEF ReceiveSaved, NoRepoReq, RepoAsk, None
  <2> QED
    BY <1>0, <1>1, <1>4, <2>1, <2>2, RepoTakeWaits, RepoFlags, RepoStepInv
<1>5. CASE ReceiveSaved(k) /\ repoReq' = [repoReq EXCEPT ![k].st = "cloning"]
                           /\ add' = add
  <2> DEFINE r == [repoReq[k] EXCEPT !.st = "cloning"]
  <2>1. r \in RepoAsk /\ FilledIn(r) /\ r.what = repoReq[k].what
    BY <1>0, <1>5 DEF ReceiveSaved, RepoAsk, FilledIn
  <2>2. repoReq' = [repoReq EXCEPT ![k] = r]
        /\ UNCHANGED <<repos, repoShown, repoGets, edit, del>>
    BY <1>0, <1>5 DEF ReceiveSaved
  <2> HIDE DEF r
  <2>3. \A w : Waits(w) => Waits(w)'
    BY <1>0, <2>1, <2>2 DEF Waits
  <2>4. \A j \in RepoReq : FilledIn(repoReq'[j])
    BY <1>0, <2>1, <2>2
  <2>5. \A j \in RepoReq : FilledIn(repoReq[j])'
    BY <2>4 DEF FilledIn
  <2> QED
    BY <1>0, <1>5, <2>1, <2>2, <2>3, <2>5, RepoFlags, RepoStepInv
<1>6. CASE CloneDone(k)
  <2>1. repoReq[k].what = "save" /\ add' = AddClosed
        /\ repoReq' = [repoReq EXCEPT ![k] = NoRepoReq]
        /\ UNCHANGED <<repos, repoShown, repoGets, edit, del>>
    BY <1>0, <1>6 DEF CloneDone, FilledIn
  <2> QED
    BY <1>0, <1>1, <2>1, RepoTakeWaits, RepoFlags, RepoStepInv
<1>7. CASE SaveLost(k)
  <2> DEFINE a == [add EXCEPT !.saving = FALSE]
  <2>1. a \in AddView /\ StepsInOrder(a) /\ a.loading = add.loading /\ ~a.saving
    BY <1>0 DEF AddView, StepsInOrder
  <2>2. /\ repoReq[k].what = "save" /\ repoReq' = [repoReq EXCEPT ![k] = NoRepoReq]
        /\ UNCHANGED <<repos, repoShown, repoGets, edit, del>>
        /\ add' = a \/ add' = AddClosed
    BY <1>7 DEF SaveLost, LateAdd
  <2> HIDE DEF a
  <2> QED
    BY <1>0, <1>1, <2>1, <2>2, RepoTakeWaits, RepoFlags, RepoStepInv
<1>8. CASE ReceiveEdited(k)
  <2>1. /\ edit' \in RowDialog /\ ~edit'.busy
        /\ (edit'.id # 0 => edit'.name \in RepoName)
    BY <1>0, <1>2, <1>8 DEF ReceiveEdited, RowDialog
  <2>2. /\ repoReq[k].what = "edit" /\ repoReq' = [repoReq EXCEPT ![k] = NoRepoReq]
        /\ UNCHANGED <<repos, repoShown, repoGets, add, del>>
    BY <1>8 DEF ReceiveEdited, RepoAnswered
  <2> QED
    BY <1>0, <2>1, <2>2, RepoTakeWaits, RepoFlags, RepoStepInv
<1>9. CASE ReceiveDeleted(k)
  <2>1. del' \in RowDialog /\ ~del'.busy
    BY <1>0, <1>2, <1>9 DEF ReceiveDeleted, RowDialog
  <2>2. /\ repoReq[k].what = "delete"
        /\ repoReq' = [repoReq EXCEPT ![k] = NoRepoReq]
        /\ UNCHANGED <<repos, repoShown, repoGets, add, edit>>
    BY <1>9 DEF ReceiveDeleted, RepoAnswered
  <2> QED
    BY <1>0, <2>1, <2>2, RepoTakeWaits, RepoFlags, RepoStepInv
<1> QED
  BY <1>3, <1>4, <1>5, <1>6, <1>7, <1>8, <1>9 DEF RepoFinish, ReceiveSaved

LEMMA RepoServeInv ==
  ASSUME RepoInv, NEW k \in RepoReq, RepoServe(k)
  PROVE  RepoInv'
<1>0. /\ add \in AddView /\ edit \in RowDialog /\ del \in RowDialog
      /\ StepsInOrder(add) /\ (edit.id # 0 => edit.name \in RepoName)
      /\ repos \in [RepoId -> RepoRow] /\ FilledIn(repoReq[k])
  BY DEF RepoInv
<1>1. ASSUME NEW st \in {"ok", "refused", "lost"}, RepoReply(k, st),
             repos' \in [RepoId -> RepoRow],
             UNCHANGED <<repoShown, repoGets, add, edit, del>>
      PROVE  RepoInv'
  BY <1>0, <1>1, RepoReplyWaits, RepoFlags, RepoStepInv
<1>2. CASE ListRemote(k) \/ RejectRepo(k) \/ LoseRepo(k)
  BY <1>0, <1>1, <1>2 DEF ListRemote, RejectRepo, LoseRepo
<1>3. CASE CreateRepoFrom(k)
  <2> DEFINE x == [prov |-> repoReq[k].prov, of |-> repoReq[k].of,
                   name |-> repoReq[k].name]
  <2>1. x \in RepoRow
    BY <1>0, <1>3 DEF CreateRepoFrom, FilledIn, RepoRow
  <2>2. PICK i \in RepoId : repos' = [repos EXCEPT ![i] = x]
    BY <1>3 DEF CreateRepoFrom
  <2> HIDE DEF x
  <2>3. repos' \in [RepoId -> RepoRow]
    BY <1>0, <2>1, <2>2
  <2> QED
    BY <1>1, <1>3, <2>3 DEF CreateRepoFrom
<1>4. CASE UpdateRepo(k)
  <2>1. CASE UNCHANGED repos
    BY <1>0, <1>1, <1>4, <2>1 DEF UpdateRepo
  <2>2. CASE /\ repos[repoReq[k].id] # NoRepo
             /\ repos' = [repos EXCEPT ![repoReq[k].id].name = repoReq[k].name]
    <3>1. \A x \in RepoRow \ {NoRepo} :
            [x EXCEPT !.name = repoReq[k].name] \in RepoRow
      BY <1>0, <1>4 DEF UpdateRepo, FilledIn, RepoRow
    <3>2. repos' \in [RepoId -> RepoRow]
      BY <1>0, <2>2, <3>1
    <3> QED
      BY <1>1, <1>4, <3>2 DEF UpdateRepo
  <2> QED
    BY <1>4, <2>1, <2>2 DEF UpdateRepo
<1>5. CASE DeleteRepo(k)
  <2>1. NoRepo \in RepoRow
    BY DEF RepoRow
  <2>2. repos' \in [RepoId -> RepoRow]
    BY <1>0, <1>5, <2>1 DEF DeleteRepo
  <2> QED
    BY <1>1, <1>5, <2>2 DEF DeleteRepo
<1> QED
  BY <1>2, <1>3, <1>4, <1>5 DEF RepoServe

LEMMA RepoPollInv ==
  ASSUME RepoInv, RepoPoll!Poll, UNCHANGED <<repos, add, edit, del, repoReq>>
  PROVE  RepoInv'
<1> DEFINE Lists == SUBSET (RepoId \X RepoName)
<1>1. repoShown \in Lists /\ repoGets \in [RepoGet -> SUBSET Lists]
  BY DEF RepoInv
<1>2. Present(repos) \in Lists
  <2>1. \A i \in RepoId : repos[i] # NoRepo => repos[i].name \in RepoName
    BY DEF RepoInv, RepoRow
  <2> QED
    BY <2>1 DEF Present
<1> HIDE DEF Lists
<1>3. repoShown' \in Lists /\ repoGets' \in [RepoGet -> SUBSET Lists]
  <2>1. PICK g \in RepoGet : RepoPoll!Reload(g) \/ RepoPoll!Miss(g) \/ RepoPoll!Arrive(g)
    BY DEF RepoPoll!Poll
  <2>2. CASE RepoPoll!Reload(g)
    BY <1>1, <1>2, <2>2 DEF RepoPoll!Reload, RepoPoll!Data
  <2>3. CASE RepoPoll!Miss(g)
    BY <1>1, <2>3 DEF RepoPoll!Miss
  <2>4. CASE RepoPoll!Arrive(g)
    BY <1>1, <2>4 DEF RepoPoll!Arrive, RepoPoll!Idle
  <2> QED
    BY <2>1, <2>2, <2>3, <2>4
<1>4. RepoBusyIsReal' /\ \A j \in RepoReq : FilledIn(repoReq[j])'
  BY DEF RepoInv, RepoBusyIsReal, FilledIn
<1> QED
  BY <1>3, <1>4 DEF RepoInv, Lists, StepsInOrder

LEMMA RepoNextInv == RepoInv /\ [RepoNext]_repoVars => RepoInv'
<1> SUFFICES ASSUME RepoInv, [RepoNext]_repoVars PROVE RepoInv'
  OBVIOUS
<1>1. CASE UNCHANGED repoVars
  BY <1>1 DEF repoVars, RepoInv, RepoBusyIsReal, FilledIn, StepsInOrder
<1> QED
  BY <1>1, RepoUserInv, RepoFinishInv, RepoServeInv, RepoPollInv DEF RepoNext

\* Only the answer to a POST puts a row where there is none.
LEMMA RepoRowsStay ==
  ASSUME RepoInv, [RepoNext]_repoVars,
         NEW i \in RepoId, repos[i] = NoRepo, repos'[i] # NoRepo
  PROVE  \E k \in RepoReq : /\ repoReq[k].what = "save"
                            /\ repoReq[k].st = "sent" /\ repoReq'[k].st = "ok"
<1>0. repos \in [RepoId -> RepoRow]
  BY DEF RepoInv
<1>1. repos' # repos
  OBVIOUS
<1>2. ASSUME RepoUser PROVE FALSE
  BY <1>1, <1>2
  DEF RepoUser, OpenAdd, CloseAdd, StepBack, PickRemoteRepo, CloseEditOrDel,
      OpenRepoEdit, OpenDel, TypeName, PickRepoSource, SaveRepo, SaveRepoEdit,
      ConfirmDelRepo, RepoSend
<1>3. ASSUME NEW k \in RepoReq, RepoFinish(k) PROVE FALSE
  BY <1>1, <1>3
  DEF RepoFinish, ReceiveList, ReceiveSaved, CloneDone, SaveLost, ReceiveEdited,
      ReceiveDeleted, RepoAnswered
<1>4. ASSUME NEW k \in RepoReq, RepoServe(k) PROVE CreateRepoFrom(k)
  <2>1. CASE UpdateRepo(k) \/ DeleteRepo(k)
    BY <1>0, <2>1 DEF UpdateRepo, DeleteRepo
  <2>2. CASE ListRemote(k) \/ RejectRepo(k) \/ LoseRepo(k)
    BY <1>1, <2>2 DEF ListRemote, RejectRepo, LoseRepo
  <2> QED
    BY <1>4, <2>1, <2>2 DEF RepoServe
<1>5. ASSUME NEW k \in RepoReq, CreateRepoFrom(k)
      PROVE  /\ repoReq[k].what = "save" /\ repoReq[k].st = "sent"
             /\ repoReq'[k].st = "ok"
  <2>1. RepoReply(k, "ok")
    BY <1>5 DEF CreateRepoFrom
  <2>2. repoReq'[k].st = "ok"
    BY <2>1, RepoReplyWaits
  <2> QED
    BY <1>5, <2>2 DEF CreateRepoFrom
<1> QED
  BY <1>1, <1>2, <1>3, <1>4, <1>5 DEF RepoNext, repoVars

----------------------------------------------------------------------------
(* The workers tab.                                                        *)

PwForm(open, id, on, rules, busy) ==
  [open |-> open, id |-> id, on |-> on, rules |-> rules, busy |-> busy]

\* What of the tab matters for the inert "Save": the flag of the dialog, and
\* the requests, which are replaced as a whole.
PwInv ==
  /\ \E a, b, c, d : \E e \in BOOLEAN : pinForm = PwForm(a, b, c, d, e)
  /\ poolReq = [k \in PoolReq |-> poolReq[k]]
  /\ PwBusyIsReal

LEMMA PwInitInv == PoolInit => PwInv
<1> SUFFICES ASSUME PoolInit PROVE PwInv
  OBVIOUS
<1>1. pinForm = PwForm(FALSE, 0, TRUE, "old", FALSE)
  BY DEF PoolInit, FormClosed, PwForm
<1>2. ~pinForm.busy
  BY <1>1 DEF PwForm
<1> QED
  BY <1>1, <1>2 DEF PoolInit, PwInv, PwBusyIsReal

\* A dialog changes, and is busy only if it was.
LEMMA PwDialogInv ==
  ASSUME PwInv, UNCHANGED poolReq,
         NEW a, NEW b, NEW c, NEW d, NEW e \in BOOLEAN,
         pinForm' = PwForm(a, b, c, d, e), e => pinForm.busy
  PROVE  PwInv'
<1>1. pinForm'.busy = e
  BY DEF PwForm
<1>2. PwBusyIsReal'
  BY <1>1 DEF PwInv, PwBusyIsReal
<1> QED
  BY <1>2 DEF PwInv

\* Any request may be sent, answered or taken but the "save" that is waited for.
LEMMA PwRequestInv ==
  ASSUME PwInv, UNCHANGED pinForm, NEW k \in PoolReq, NEW r,
         poolReq' = [poolReq EXCEPT ![k] = r],
         poolReq[k].what = "save" => r.what = "save"
  PROVE  PwInv'
<1>1. /\ poolReq' = [j \in PoolReq |-> poolReq'[j]] /\ poolReq'[k] = r
      /\ \A j \in PoolReq \ {k} : poolReq'[j] = poolReq[j]
  BY DEF PwInv
<1>2. PwBusyIsReal'
  BY <1>1 DEF PwInv, PwBusyIsReal
<1> QED
  BY <1>1, <1>2 DEF PwInv

LEMMA PwSendInv ==
  ASSUME PwInv, UNCHANGED pinForm, NEW k \in PoolReq, NEW what, NEW i, NEW body,
         PoolSend(k, what, i, body)
  PROVE  PwInv'
<1>1. poolReq[k].what # "save"
  BY DEF PoolSend, NoPoolReq
<1>2. poolReq' = [poolReq EXCEPT ![k] = [what |-> what, id |-> i, body |-> body,
                                         st |-> "sent"]]
  BY DEF PoolSend
<1> QED
  BY <1>1, <1>2, PwRequestInv

LEMMA PwReplyInv ==
  ASSUME PwInv, UNCHANGED pinForm, NEW k \in PoolReq, NEW st, PoolReply(k, st)
  PROVE  PwInv'
<1> DEFINE r == [NoPoolReq EXCEPT !.what = poolReq[k].what, !.st = st]
<1>1. r.what = poolReq[k].what
  BY DEF NoPoolReq
<1>2. poolReq' = [poolReq EXCEPT ![k] = r]
  BY DEF PoolReply
<1> HIDE DEF r
<1> QED
  BY <1>1, <1>2, PwRequestInv

LEMMA SavePwInv ==
  ASSUME PwInv, NEW k \in PoolReq, SavePw(k)
  PROVE  PwInv'
<1> DEFINE r == [what |-> "save", id |-> pinForm.id,
                 body |-> [on |-> pinForm.on, rules |-> pinForm.rules],
                 st |-> "sent"]
<1>1. PICK a, b, c, d : \E e \in BOOLEAN : pinForm = PwForm(a, b, c, d, e)
  BY DEF PwInv
<1>2. PICK e \in BOOLEAN : pinForm = PwForm(a, b, c, d, e)
  BY <1>1
<1>3. pinForm' = PwForm(a, b, c, d, TRUE)
  BY <1>2 DEF SavePw, PwForm
<1>4. poolReq' = [poolReq EXCEPT ![k] = r]
  BY DEF SavePw, PoolSend
<1>5. r.what = "save"
  OBVIOUS
<1> HIDE DEF r
<1>6. poolReq' = [j \in PoolReq |-> poolReq'[j]] /\ poolReq'[k] = r
  BY <1>4 DEF PwInv
<1> QED
  BY <1>3, <1>5, <1>6 DEF PwInv, PwBusyIsReal

LEMMA ReceivePinnedInv ==
  ASSUME PwInv, NEW k \in PoolReq, ReceivePinned(k)
  PROVE  PwInv'
<1>1. poolReq' = [poolReq EXCEPT ![k] = NoPoolReq]
  BY DEF ReceivePinned
<1>2. CASE poolReq[k].what # "save"
  BY <1>1, <1>2, PwRequestInv DEF ReceivePinned
<1>3. CASE poolReq[k].what = "save"
  <2>1. PICK a, b, c, d : \E e \in BOOLEAN : pinForm = PwForm(a, b, c, d, e)
    BY DEF PwInv
  <2>2. PICK e \in BOOLEAN : pinForm = PwForm(a, b, c, d, e)
    BY <2>1
  <2>3. pinForm' = FormClosed \/ pinForm' = [pinForm EXCEPT !.busy = FALSE]
    BY <1>3 DEF ReceivePinned
  <2>4. FormClosed = PwForm(FALSE, 0, TRUE, "old", FALSE)
    BY DEF FormClosed, PwForm
  <2>5. ASSUME pinForm' = [pinForm EXCEPT !.busy = FALSE]
        PROVE  pinForm' = PwForm(a, b, c, d, FALSE)
    BY <2>2, <2>5 DEF PwForm
  <2>6. PICK x, y, z, w : pinForm' = PwForm(x, y, z, w, FALSE)
    BY <2>3, <2>4, <2>5
  <2>7. ~pinForm'.busy
    BY <2>6 DEF PwForm
  <2>8. poolReq' = [j \in PoolReq |-> poolReq'[j]]
    BY <1>1 DEF PwInv
  <2>9. \E x1, y1, z1, w1 : \E e1 \in BOOLEAN : pinForm' = PwForm(x1, y1, z1, w1, e1)
    BY <2>6
  <2> QED
    BY <2>7, <2>8, <2>9 DEF PwInv, PwBusyIsReal
<1> QED
  BY <1>2, <1>3

LEMMA PwNextInv == PwInv /\ [PoolNext]_poolVars => PwInv'
<1> SUFFICES ASSUME PwInv, [PoolNext]_poolVars PROVE PwInv'
  OBVIOUS
<1>1. CASE UNCHANGED <<pinForm, poolReq>>
  BY <1>1 DEF PwInv, PwBusyIsReal
<1>2. PICK a, b, c, d : \E e \in BOOLEAN : pinForm = PwForm(a, b, c, d, e)
  BY DEF PwInv
<1>3. PICK e \in BOOLEAN : pinForm = PwForm(a, b, c, d, e)
  BY <1>2
<1>4. pinForm.busy = e
  BY <1>3 DEF PwForm
<1>5. ASSUME NEW k \in PoolReq, NEW f \in Field, NEW v \in Value, SavePool(f, v, k)
      PROVE  PwInv'
  BY <1>5, PwSendInv DEF SavePool
<1>6. ASSUME NEW k \in PoolReq, NEW x \in pinShown, TogglePinned(x, k)
      PROVE  PwInv'
  BY <1>6, PwSendInv DEF TogglePinned
<1>7. ASSUME NEW k \in PoolReq, NEW x \in pinShown, DelPinned(x, k)
      PROVE  PwInv'
  BY <1>7, PwSendInv DEF DelPinned
<1>8. ASSUME NEW k \in PoolReq, ToggleAllPinned(k) PROVE PwInv'
  BY <1>8, PwSendInv DEF ToggleAllPinned
<1>9. CASE OpenPwCreate
  <2>1. pinForm' = PwForm(TRUE, 0, TRUE, "old", e)
    BY <1>4, <1>9 DEF OpenPwCreate, FormClosed, PwForm
  <2> QED
    BY <1>4, <1>9, <2>1, PwDialogInv DEF OpenPwCreate
<1>10. CASE EditRules
  <2>1. pinForm' = PwForm(a, b, c, "new", e)
    BY <1>3, <1>10 DEF EditRules, PwForm
  <2> QED
    BY <1>4, <1>10, <2>1, PwDialogInv DEF EditRules
<1>11. CASE ClosePw
  <2>1. pinForm' = PwForm(FALSE, 0, TRUE, "old", e)
    BY <1>4, <1>11 DEF ClosePw, FormClosed, PwForm
  <2> QED
    BY <1>4, <1>11, <2>1, PwDialogInv DEF ClosePw
<1>12. ASSUME NEW x \in pinShown, OpenPwEdit(x) PROVE PwInv'
  <2>1. pinForm' = PwForm(TRUE, x[1], x[2].on, x[2].rules, e)
    BY <1>3, <1>12 DEF OpenPwEdit, PwForm
  <2>2. PICK i, on, rules : pinForm' = PwForm(TRUE, i, on, rules, e)
    BY <2>1
  <2> QED
    BY <1>4, <1>12, <2>2, PwDialogInv DEF OpenPwEdit
<1>13. ASSUME NEW k \in PoolReq, PoolServe(k) PROVE PwInv'
  BY <1>13, PwReplyInv
  DEF PoolServe, UpdatePoolConfig, CreatePinnedWorker, UpdatePinnedWorker,
      SetAllPinnedEnabled, DeletePinnedWorker, RejectPool, LosePool
<1>14. ASSUME NEW f \in Field, NEW v \in Value, OtherSavesPool(f, v) PROVE PwInv'
  BY <1>1, <1>14 DEF OtherSavesPool
<1>15. ASSUME NEW i \in Pinned, OtherDeletesPinned(i) PROVE PwInv'
  BY <1>1, <1>15 DEF OtherDeletesPinned
<1>16. ASSUME NEW g \in PoolGet, PoolPolls(g) PROVE PwInv'
  BY <1>1, <1>16 DEF PoolPolls, LoadPool, LoadPoolBlank, ReceivePool
<1>17. CASE PoolStays
  BY <1>1, <1>17 DEF PoolStays
<1>18. CASE UNCHANGED poolVars
  BY <1>1, <1>18 DEF poolVars
<1> QED
  BY <1>5, <1>6, <1>7, <1>8, <1>9, <1>10, <1>11, <1>12, <1>13, <1>14, <1>15,
     <1>16, <1>17, <1>18, SavePwInv, ReceivePinnedInv
  DEF PoolNext, PoolUser

\* The types of the tab: a request that is under way carries what its handler
\* writes, the whole settings or the whole worker.
PinDialog == [open : BOOLEAN, id : Pinned \cup {0}, on : BOOLEAN,
              rules : {"old", "new"}, busy : BOOLEAN]
PinRows == Pinned \X Worker

Carries(r) ==
  /\ r.what \in {"none", "pool", "save", "toggle", "delete", "bulk"}
  /\ r.st = "sent" =>
       /\ r.what = "pool" => r.body \in Settings
       /\ r.what \in {"save", "toggle"} => r.body \in Worker
       /\ r.what = "bulk" => r.body.on \in BOOLEAN

PoolTypes ==
  /\ cfg \in Settings
  /\ pool \in Settings \cup {Unloaded}
  /\ poolGets \in [PoolGet -> SUBSET Settings]
  /\ pinned \in [Pinned -> Worker \cup {Absent}]
  /\ pinShown \subseteq PinRows
  /\ pinGets \in [PoolGet -> SUBSET SUBSET PinRows]
  /\ pinForm \in PinDialog
  /\ \A k \in PoolReq : Carries(poolReq[k])
  /\ clicks \in 0..MaxClicks

LEMMA PoolInitTypes == PoolInit => PoolTypes
<1> SUFFICES ASSUME PoolInit PROVE PoolTypes
  OBVIOUS
<1>1. pinShown = {} /\ pinGets = [g \in PoolGet |-> {}]
  BY DEF PoolInit, PinPoll!PollInit, PinPoll!Idle
<1>2. Carries(NoPoolReq)
  BY DEF Carries, NoPoolReq
<1>3. FormClosed \in PinDialog
  BY DEF FormClosed, PinDialog
<1>4. [on |-> TRUE, rules |-> "old"] \in Worker
  BY DEF Worker
<1>5. cfg \in Settings
  BY DEF PoolInit, Settings
<1>6. pinned \in [Pinned -> Worker \cup {Absent}]
  BY <1>4 DEF PoolInit
<1>7. poolGets \in [PoolGet -> SUBSET Settings] /\ clicks \in 0..MaxClicks
  BY ClicksAssumption DEF PoolInit
<1> QED
  BY <1>1, <1>2, <1>3, <1>5, <1>6, <1>7 DEF PoolInit, PoolTypes

LEMMA PoolFrame ==
  ASSUME cfg' \in Settings, pool' \in Settings \cup {Unloaded},
         poolGets' \in [PoolGet -> SUBSET Settings],
         pinned' \in [Pinned -> Worker \cup {Absent}],
         pinShown' \subseteq PinRows,
         pinGets' \in [PoolGet -> SUBSET SUBSET PinRows],
         pinForm' \in PinDialog, \A k \in PoolReq : Carries(poolReq'[k]),
         clicks' \in 0..MaxClicks
  PROVE  PoolTypes'
BY DEF PoolTypes, Carries

\* A request is sent, answered or taken.
LEMMA CarriesKept ==
  ASSUME PwInv, PoolTypes, NEW k \in PoolReq, NEW r, Carries(r),
         poolReq' = [poolReq EXCEPT ![k] = r]
  PROVE  \A j \in PoolReq : Carries(poolReq'[j])
<1>1. \A j \in PoolReq : poolReq'[j] = IF j = k THEN r ELSE poolReq[j]
  BY DEF PwInv
<1> QED
  BY <1>1 DEF PoolTypes

LEMMA PoolUserTypes ==
  ASSUME PwInv, PoolTypes, PoolUser
  PROVE  PoolTypes'
<1>0. /\ cfg \in Settings /\ pool \in Settings \cup {Unloaded}
      /\ poolGets \in [PoolGet -> SUBSET Settings]
      /\ pinned \in [Pinned -> Worker \cup {Absent}]
      /\ pinShown \subseteq PinRows
      /\ pinGets \in [PoolGet -> SUBSET SUBSET PinRows]
      /\ pinForm \in PinDialog /\ clicks \in 0..MaxClicks
      /\ \A k \in PoolReq : Carries(poolReq[k])
  BY DEF PoolTypes
<1>1. Click => clicks' \in 0..MaxClicks
  BY <1>0, ClicksAssumption DEF Click
<1>2. ASSUME NEW k \in PoolReq, NEW what, NEW i, NEW body,
             PoolSend(k, what, i, body),
             what \in {"pool", "save", "toggle", "delete", "bulk"},
             what = "pool" => body \in Settings,
             what \in {"save", "toggle"} => body \in Worker,
             what = "bulk" => body.on \in BOOLEAN
      PROVE  \A j \in PoolReq : Carries(poolReq'[j])
  <2> DEFINE r == [what |-> what, id |-> i, body |-> body, st |-> "sent"]
  <2>1. Carries(r)
    BY <1>2 DEF Carries
  <2>2. poolReq' = [poolReq EXCEPT ![k] = r]
    BY <1>2 DEF PoolSend
  <2> HIDE DEF r
  <2> QED
    BY <2>1, <2>2, CarriesKept
<1>3. \A x \in pinShown : x[1] \in Pinned /\ x[2] \in Worker
  BY <1>0 DEF PinRows
<1>4. ASSUME NEW k \in PoolReq, NEW f \in Field, NEW v \in Value, SavePool(f, v, k)
      PROVE  PoolTypes'
  <2> DEFINE c == [pool EXCEPT ![f] = v]
  <2>1. pool \in Settings
    BY <1>0, <1>4 DEF SavePool
  <2>2. c \in Settings
    BY <2>1 DEF Settings
  <2>3. pool' = c /\ PoolSend(k, "pool", 0, c) /\ Click
        /\ UNCHANGED <<cfg, poolGets, pinned, pinShown, pinGets, pinForm>>
    BY <1>4 DEF SavePool
  <2> HIDE DEF c
  <2>4. \A j \in PoolReq : Carries(poolReq'[j])
    BY <1>2, <2>2, <2>3
  <2> QED
    BY <1>0, <1>1, <2>2, <2>3, <2>4, PoolFrame
<1>5. ASSUME NEW k \in PoolReq, SavePw(k) PROVE PoolTypes'
  <2> DEFINE w == [on |-> pinForm.on, rules |-> pinForm.rules]
  <2>1. w \in Worker /\ [pinForm EXCEPT !.busy = TRUE] \in PinDialog
    BY <1>0 DEF PinDialog, Worker
  <2>2. PoolSend(k, "save", pinForm.id, w) /\ Click /\ pinForm' \in PinDialog
        /\ UNCHANGED <<cfg, pool, poolGets, pinned, pinShown, pinGets>>
    BY <1>5, <2>1 DEF SavePw
  <2> HIDE DEF w
  <2>3. \A j \in PoolReq : Carries(poolReq'[j])
    BY <1>2, <2>1, <2>2
  <2> QED
    BY <1>0, <1>1, <2>2, <2>3, PoolFrame
<1>6. ASSUME NEW k \in PoolReq, NEW x \in pinShown, TogglePinned(x, k)
      PROVE  PoolTypes'
  <2> DEFINE w == [x[2] EXCEPT !.on = ~@]
  <2>1. w \in Worker
    BY <1>3 DEF Worker
  <2>2. PoolSend(k, "toggle", x[1], w) /\ Click
        /\ UNCHANGED <<cfg, pool, poolGets, pinned, pinShown, pinGets, pinForm>>
    BY <1>6 DEF TogglePinned
  <2> HIDE DEF w
  <2>3. \A j \in PoolReq : Carries(poolReq'[j])
    BY <1>2, <2>1, <2>2
  <2> QED
    BY <1>0, <1>1, <2>2, <2>3, PoolFrame
<1>7. ASSUME NEW k \in PoolReq, NEW x \in pinShown, DelPinned(x, k)
      PROVE  PoolTypes'
  <2>1. PoolSend(k, "delete", x[1], Unloaded) /\ Click
        /\ UNCHANGED <<cfg, pool, poolGets, pinned, pinShown, pinGets, pinForm>>
    BY <1>7 DEF DelPinned
  <2>2. \A j \in PoolReq : Carries(poolReq'[j])
    BY <1>2, <2>1
  <2> QED
    BY <1>0, <1>1, <2>1, <2>2, PoolFrame
<1>8. ASSUME NEW k \in PoolReq, ToggleAllPinned(k) PROVE PoolTypes'
  <2> DEFINE b == [on |-> \E x \in pinShown : ~x[2].on]
  <2>1. b.on \in BOOLEAN
    OBVIOUS
  <2>2. PoolSend(k, "bulk", 0, b) /\ Click
        /\ UNCHANGED <<cfg, pool, poolGets, pinned, pinShown, pinGets, pinForm>>
    BY <1>8 DEF ToggleAllPinned
  <2> HIDE DEF b
  <2>3. \A j \in PoolReq : Carries(poolReq'[j])
    BY <1>2, <2>1, <2>2
  <2> QED
    BY <1>0, <1>1, <2>2, <2>3, PoolFrame
<1>9. ASSUME pinForm' \in PinDialog,
             UNCHANGED <<cfg, pool, poolGets, pinned, pinShown, pinGets, poolReq, clicks>>
      PROVE  PoolTypes'
  BY <1>0, <1>9, PoolFrame
<1>10. CASE OpenPwCreate \/ EditRules \/ ClosePw
  <2>1. pinForm' \in PinDialog
    BY <1>0, <1>10 DEF OpenPwCreate, EditRules, ClosePw, FormClosed, PinDialog
  <2> QED
    BY <1>9, <1>10, <2>1 DEF OpenPwCreate, EditRules, ClosePw
<1>11. ASSUME NEW x \in pinShown, OpenPwEdit(x) PROVE PoolTypes'
  <2>1. pinForm' \in PinDialog
    BY <1>0, <1>3, <1>11 DEF OpenPwEdit, PinDialog, Worker
  <2> QED
    BY <1>9, <1>11, <2>1 DEF OpenPwEdit
<1>12. ASSUME NEW f \in Field, NEW v \in Value, OtherSavesPool(f, v)
       PROVE  PoolTypes'
  <2>1. cfg' \in Settings
    BY <1>0, <1>12 DEF OtherSavesPool, Settings
  <2> QED
    BY <1>0, <1>1, <1>12, <2>1, PoolFrame DEF OtherSavesPool
<1>13. ASSUME NEW i \in Pinned, OtherDeletesPinned(i) PROVE PoolTypes'
  <2>1. pinned' \in [Pinned -> Worker \cup {Absent}]
    BY <1>0, <1>13 DEF OtherDeletesPinned
  <2> QED
    BY <1>0, <1>1, <1>13, <2>1, PoolFrame DEF OtherDeletesPinned
<1> QED
  BY <1>4, <1>5, <1>6, <1>7, <1>8, <1>10, <1>11, <1>12, <1>13 DEF PoolUser

LEMMA PoolServeTypes ==
  ASSUME PwInv, PoolTypes, NEW k \in PoolReq, PoolServe(k)
  PROVE  PoolTypes'
<1>0. /\ cfg \in Settings /\ pool \in Settings \cup {Unloaded}
      /\ poolGets \in [PoolGet -> SUBSET Settings]
      /\ pinned \in [Pinned -> Worker \cup {Absent}]
      /\ pinShown \subseteq PinRows
      /\ pinGets \in [PoolGet -> SUBSET SUBSET PinRows]
      /\ pinForm \in PinDialog /\ clicks \in 0..MaxClicks
      /\ Carries(poolReq[k])
  BY DEF PoolTypes
<1>1. UNCHANGED <<pool, poolGets, pinShown, pinGets, pinForm, clicks>>
  BY DEF PoolServe, UpdatePoolConfig, CreatePinnedWorker, UpdatePinnedWorker,
         SetAllPinnedEnabled, DeletePinnedWorker, RejectPool, LosePool
<1>2. PICK st \in {"answered", "lost"} : PoolReply(k, st)
  BY DEF PoolServe, UpdatePoolConfig, CreatePinnedWorker, UpdatePinnedWorker,
         SetAllPinnedEnabled, DeletePinnedWorker, RejectPool, LosePool
<1>3. \A j \in PoolReq : Carries(poolReq'[j])
  <2> DEFINE r == [NoPoolReq EXCEPT !.what = poolReq[k].what, !.st = st]
  <2>1. r.what = poolReq[k].what /\ r.st = st
    BY DEF NoPoolReq
  <2>2. poolReq' = [poolReq EXCEPT ![k] = r]
    BY <1>2 DEF PoolReply
  <2> HIDE DEF r
  <2>3. Carries(r)
    BY <1>0, <1>2, <2>1 DEF Carries
  <2> QED
    BY <2>2, <2>3, CarriesKept
<1>4. cfg' \in Settings
  BY <1>0 DEF PoolServe, UpdatePoolConfig, CreatePinnedWorker, UpdatePinnedWorker,
              SetAllPinnedEnabled, DeletePinnedWorker, RejectPool, LosePool, Carries
<1>5. pinned' \in [Pinned -> Worker \cup {Absent}]
  <2>1. CASE CreatePinnedWorker(k)
    <3>1. poolReq[k].body \in Worker
      BY <1>0, <2>1 DEF CreatePinnedWorker, Carries
    <3> QED
      BY <1>0, <2>1, <3>1 DEF CreatePinnedWorker
  <2>2. CASE UpdatePinnedWorker(k)
    <3>1. poolReq[k].body \in Worker
      BY <1>0, <2>2 DEF UpdatePinnedWorker, Carries
    <3> QED
      BY <1>0, <2>2, <3>1 DEF UpdatePinnedWorker
  <2>3. CASE SetAllPinnedEnabled(k)
    <3>1. poolReq[k].body.on \in BOOLEAN
      BY <1>0, <2>3 DEF SetAllPinnedEnabled, Carries
    <3>2. \A i \in Pinned : pinned[i] # Absent =>
            [pinned[i] EXCEPT !.on = poolReq[k].body.on] \in Worker
      BY <1>0, <3>1 DEF Worker
    <3> QED
      BY <2>3, <3>2 DEF SetAllPinnedEnabled
  <2>4. CASE DeletePinnedWorker(k)
    BY <1>0, <2>4 DEF DeletePinnedWorker
  <2>5. CASE UpdatePoolConfig(k) \/ RejectPool(k) \/ LosePool(k)
    BY <1>0, <2>5 DEF UpdatePoolConfig, RejectPool, LosePool
  <2> QED
    BY <2>1, <2>2, <2>3, <2>4, <2>5 DEF PoolServe
<1> QED
  BY <1>0, <1>1, <1>3, <1>4, <1>5, PoolFrame

LEMMA PoolNextTypes ==
  PwInv /\ PoolTypes /\ [PoolNext]_poolVars => PoolTypes'
<1> SUFFICES ASSUME PwInv, PoolTypes, [PoolNext]_poolVars PROVE PoolTypes'
  OBVIOUS
<1>0. /\ cfg \in Settings /\ pool \in Settings \cup {Unloaded}
      /\ poolGets \in [PoolGet -> SUBSET Settings]
      /\ pinned \in [Pinned -> Worker \cup {Absent}]
      /\ pinShown \subseteq PinRows
      /\ pinGets \in [PoolGet -> SUBSET SUBSET PinRows]
      /\ pinForm \in PinDialog /\ clicks \in 0..MaxClicks
      /\ \A k \in PoolReq : Carries(poolReq[k])
  BY DEF PoolTypes
<1>1. CASE UNCHANGED poolVars
  BY <1>0, <1>1, PoolFrame DEF poolVars
<1>2. ASSUME NEW k \in PoolReq, ReceivePinned(k) PROVE PoolTypes'
  <2>1. Carries(NoPoolReq)
    BY DEF Carries, NoPoolReq
  <2>2. \A j \in PoolReq : Carries(poolReq'[j])
    BY <1>2, <2>1, CarriesKept DEF ReceivePinned
  <2>3. FormClosed \in PinDialog /\ [pinForm EXCEPT !.busy = FALSE] \in PinDialog
    BY <1>0 DEF PinDialog, FormClosed
  <2>4. pinForm' \in PinDialog
    BY <1>0, <1>2, <2>3 DEF ReceivePinned
  <2> QED
    BY <1>0, <1>2, <2>2, <2>4, PoolFrame DEF ReceivePinned
<1>3. ASSUME NEW g \in PoolGet, PoolPolls(g) PROVE PoolTypes'
  <2>1. EmptyPool \in Settings
    BY DEF EmptyPool, Settings
  <2>2. poolGets' \in [PoolGet -> SUBSET Settings]
    BY <1>0, <1>3, <2>1 DEF PoolPolls, LoadPool, LoadPoolBlank, ReceivePool
  <2>3. pool' \in Settings \cup {Unloaded}
    BY <1>0, <1>3 DEF PoolPolls, LoadPool, LoadPoolBlank, ReceivePool
  <2> QED
    BY <1>0, <1>3, <2>2, <2>3, PoolFrame
    DEF PoolPolls, LoadPool, LoadPoolBlank, ReceivePool
<1>4. CASE PinPoll!Poll /\ PoolStays
  <2>1. Listed \subseteq PinRows
    BY <1>0 DEF Listed, PinRows
  <2>2. PICK g \in PoolGet :
          PinPoll!Reload(g) \/ PinPoll!Miss(g) \/ PinPoll!Arrive(g)
    BY <1>4 DEF PinPoll!Poll
  <2>3. pinShown' \subseteq PinRows
    BY <1>0, <2>2 DEF PinPoll!Reload, PinPoll!Miss, PinPoll!Arrive
  <2>4. pinGets' \in [PoolGet -> SUBSET SUBSET PinRows]
    BY <1>0, <2>1, <2>2
    DEF PinPoll!Reload, PinPoll!Miss, PinPoll!Arrive, PinPoll!Data, PinPoll!Idle
  <2> QED
    BY <1>0, <1>4, <2>3, <2>4, PoolFrame DEF PoolStays
<1> QED
  BY <1>1, <1>2, <1>3, <1>4, PoolUserTypes, PoolServeTypes DEF PoolNext

LEMMA PoolTypesOK == PoolTypes => PoolTypeOK
BY DEF PoolTypes, PoolTypeOK, PinDialog, PinRows, Carries

----------------------------------------------------------------------------
(* The list pages.                                                         *)

RowOps == {"approve", "reject", "disable", "enable", "delete", "remove",
           "suspend", "activate"}
ListAsk == [what : {"none", "submit", "import", "row"} \cup RowOps,
            item : Item \cup {0},
            st : {"free", "sent", "ok", "refused", "lost"}]
SheetView == [open : BOOLEAN, of : Item \cup {0}, busy : BOOLEAN,
              row : Item \cup {0}]

Submitted(k) == listReq[k].what = "submit"

\* A dialog whose button waits has exactly one request under way while it is
\* inert, and none otherwise.
OneSubmit ==
  V.form = "waits" =>
    /\ sheet.busy <=> \E k \in ListReq : Submitted(k)
    /\ \A j, k \in ListReq : Submitted(j) /\ Submitted(k) => j = k

ListInv ==
  /\ page \in DOMAIN View
  /\ sheet \in SheetView
  /\ listReq \in [ListReq -> ListAsk]
  /\ OneSubmit

\* The operations the pages offer on a row; none is that of the dialog.
LEMMA OffersType == \A p \in DOMAIN View : \A o \in View[p].offers : o[2] \in RowOps
<1>1. ASSUME NEW R, R.offers = {} PROVE \A o \in R.offers : o[2] \in RowOps
  BY <1>1
<1>2. \A o \in InterventionOffers \cup RoutineOffers \cup DocOffers
               \cup MemoryList.offers \cup MemberOffers \cup CloudOffers
               \cup UserOffers : o[2] \in RowOps
  BY DEF InterventionOffers, RoutineOffers, DocOffers, MemoryList, Plain,
         MemberOffers, CloudOffers, UserOffers, RowOps
<1>3. /\ InterventionList.offers = InterventionOffers
      /\ RoutineList.offers = RoutineOffers /\ DocList.offers = DocOffers
      /\ MemberList.offers = MemberOffers /\ CloudList.offers = CloudOffers
      /\ UserList.offers = UserOffers
  BY DEF InterventionList, RoutineList, RoutineDialog, DocList, DocDialog,
         MemberList, InviteDialog, CloudList, CloudDialog, UserList, Admin,
         Paged, Plain
<1>4. /\ QueueList.offers = {} /\ TaskList.offers = {} /\ PrList.offers = {}
      /\ HomeWorkers.offers = {} /\ HomePrs.offers = {}
      /\ HomeBlocked.offers = {} /\ HomeLog.offers = {}
      /\ LiveWorkers.offers = {} /\ QaList.offers = {} /\ CiList.offers = {}
      /\ LogList.offers = {} /\ InvoiceList.offers = {} /\ AuditList.offers = {}
      /\ OrgList.offers = {} /\ AdminAudit.offers = {}
      /\ AdminPlans.offers = {} /\ AdminOverview.offers = {}
  BY DEF QueueList, TaskList, TaskDialog, PrList, HomeWorkers, HomePrs,
         HomeBlocked, HomeLog, LiveWorkers, QaList, CiList, LogList, InvoiceList,
         AuditList, OrgList, OrgDialog, AdminAudit, AdminPlans, AdminOverview,
         Admin, Paged, Plain
<1> SUFFICES ASSUME NEW p \in DOMAIN View
             PROVE  \A o \in View[p].offers : o[2] \in RowOps
  OBVIOUS
<1>5. View[p] \in {QueueList, TaskList, PrList, HomeWorkers, HomePrs,
                   HomeBlocked, HomeLog, LiveWorkers, InterventionList,
                   RoutineList, QaList, CiList, LogList, DocList, MemoryList,
                   MemberList, InvoiceList, AuditList, CloudList, OrgList,
                   UserList, AdminAudit, AdminPlans, AdminOverview}
  BY DEF View
<1> QED
  BY <1>1, <1>2, <1>3, <1>4, <1>5

LEMMA ListInitInv == ListInit => ListInv
<1> SUFFICES ASSUME ListInit PROVE ListInv
  OBVIOUS
<1>1. Shut \in SheetView /\ ~Shut.busy
  BY DEF Shut, SheetView
<1>2. NoListReq \in ListAsk /\ NoListReq.what = "none"
  BY DEF NoListReq, ListAsk
<1> QED
  BY <1>1, <1>2 DEF ListInit, ListInv, OneSubmit, Submitted

\* A step that submits nothing and takes the answer to nothing submitted.
LEMMA ListQuietInv ==
  ASSUME ListInv, page' = page, sheet' \in SheetView, sheet'.busy = sheet.busy,
         listReq' \in [ListReq -> ListAsk],
         \A k \in ListReq : Submitted(k)' <=> Submitted(k)
  PROVE  ListInv'
<1>1. V' = V
  BY DEF V
<1> QED
  BY <1>1 DEF ListInv, OneSubmit

LEMMA ListRequestInv ==
  ASSUME ListInv, page' = page, sheet' \in SheetView, sheet'.busy = sheet.busy,
         NEW k \in ListReq, NEW r \in ListAsk,
         listReq' = [listReq EXCEPT ![k] = r],
         r.what = "submit" <=> Submitted(k)
  PROVE  ListInv'
<1>1. /\ listReq' \in [ListReq -> ListAsk]
      /\ \A j \in ListReq : Submitted(j)' <=> Submitted(j)
  BY DEF ListInv, Submitted
<1> QED
  BY <1>1, ListQuietInv

LEMMA SubmitInv ==
  ASSUME ListInv, NEW k \in ListReq, Submit(k)
  PROVE  ListInv'
<1> DEFINE r == [what |-> "submit", item |-> sheet.of, st |-> "sent"]
<1>1. sheet \in SheetView /\ listReq \in [ListReq -> ListAsk]
  BY DEF ListInv
<1>2. /\ listReq' = [listReq EXCEPT ![k] = r] /\ page' = page
      /\ listReq[k].what = "none"
  BY DEF Submit, ListSend, NoListReq
<1>3. r \in ListAsk /\ r.what = "submit"
  BY <1>1 DEF SheetView, ListAsk
<1> HIDE DEF r
<1>4. sheet' \in SheetView /\ sheet'.busy = (V.form = "waits")
  BY <1>1 DEF Submit, SheetView
<1>5. listReq' \in [ListReq -> ListAsk] /\ V' = V
  BY <1>1, <1>2, <1>3 DEF V
<1>6. OneSubmit'
  <2> SUFFICES ASSUME V.form = "waits"
               PROVE  /\ sheet'.busy <=> \E j \in ListReq : Submitted(j)'
                      /\ \A i, j \in ListReq : Submitted(i)' /\ Submitted(j)' => i = j
    BY <1>5 DEF OneSubmit
  <2>1. ~sheet.busy
    BY DEF Submit
  <2>2. \A j \in ListReq : ~Submitted(j)
    BY <2>1 DEF ListInv, OneSubmit
  <2>3. \A j \in ListReq : Submitted(j)' <=> j = k
    BY <1>1, <1>2, <1>3, <2>2 DEF Submitted
  <2> QED
    BY <1>4, <2>3
<1> QED
  BY <1>2, <1>4, <1>5, <1>6 DEF ListInv

LEMMA FinishSubmitInv ==
  ASSUME ListInv, NEW k \in ListReq, FinishSubmit(k)
  PROVE  ListInv'
<1>1. sheet \in SheetView /\ listReq \in [ListReq -> ListAsk]
  BY DEF ListInv
<1>2. /\ listReq' = [listReq EXCEPT ![k] = NoListReq] /\ page' = page
      /\ Submitted(k)
  BY DEF FinishSubmit, ListAnswered, Submitted
<1>3. NoListReq \in ListAsk /\ NoListReq.what = "none"
  BY DEF NoListReq, ListAsk
<1>4. sheet' \in SheetView /\ ~sheet'.busy
  BY <1>1 DEF FinishSubmit, SheetView
<1>5. listReq' \in [ListReq -> ListAsk] /\ V' = V
  BY <1>1, <1>2, <1>3 DEF V
<1>6. V.form = "waits" => \A j \in ListReq : ~Submitted(j)'
  BY <1>1, <1>2, <1>3 DEF ListInv, OneSubmit, Submitted
<1> QED
  BY <1>2, <1>4, <1>5, <1>6 DEF ListInv, OneSubmit

LEMMA RowButtonInv ==
  ASSUME ListInv, NEW x, NEW op, NEW k \in ListReq, RowButton(x, op, k)
  PROVE  ListInv'
<1> DEFINE r == [what |-> op, item |-> x[1], st |-> "sent"]
<1>1. sheet \in SheetView /\ page \in DOMAIN View
  BY DEF ListInv
<1>2. op \in RowOps
  <2>1. <<x[2], op>> \in View[page].offers
    BY DEF RowButton, V
  <2> QED
    BY <1>1, <2>1, OffersType
<1>3. x[1] \in Item
  BY DEF RowButton
<1>4. r \in ListAsk /\ r.what # "submit"
  BY <1>2, <1>3 DEF ListAsk, RowOps
<1>5. /\ listReq' = [listReq EXCEPT ![k] = r] /\ page' = page
      /\ listReq[k].what = "none"
  BY DEF RowButton, ListSend, NoListReq
<1> HIDE DEF r
<1>6. sheet' \in SheetView /\ sheet'.busy = sheet.busy
  BY <1>1, <1>3 DEF RowButton, SheetView
<1> QED
  BY <1>4, <1>5, <1>6, ListRequestInv DEF Submitted

LEMMA ListReplyInv ==
  ASSUME ListInv, NEW k \in ListReq, NEW st \in {"ok", "refused", "lost"},
         ListReply(k, st)
  PROVE  ListInv'
<1> DEFINE r == [what |-> IF listReq[k].what = "submit" THEN "submit" ELSE "row",
                 item |-> 0, st |-> st]
<1>1. r \in ListAsk /\ (r.what = "submit" <=> Submitted(k))
  BY DEF ListAsk, Submitted
<1>2. /\ listReq' = [listReq EXCEPT ![k] = r]
      /\ UNCHANGED <<page, sheet>> /\ sheet \in SheetView
  BY DEF ListReply, ListInv
<1> HIDE DEF r
<1> QED
  BY <1>1, <1>2, ListRequestInv

LEMMA ListNextInv == ListInv /\ [ListNext]_listVars => ListInv'
<1> SUFFICES ASSUME ListInv, [ListNext]_listVars PROVE ListInv'
  OBVIOUS
<1>0. sheet \in SheetView /\ listReq \in [ListReq -> ListAsk]
  BY DEF ListInv
<1>1. ASSUME UNCHANGED <<page, listReq>>, sheet' \in SheetView,
             sheet'.busy = sheet.busy
      PROVE  ListInv'
  BY <1>0, <1>1, ListQuietInv DEF Submitted
<1>2. CASE \/ \E f \in Pills : ChoosePill(f)
           \/ NextPage \/ PrevPage \/ DropKept
           \/ \E g \in ListGet : ListReload(g) \/ ListMiss(g) \/ ListArrive(g)
           \/ \E i \in Item : OthersChange(i)
  BY <1>0, <1>1, <1>2
  DEF ChoosePill, NextPage, PrevPage, DropKept, ListReload, ListMiss, ListArrive,
      OthersChange
<1>3. CASE CloseSheet \/ \E i \in Item \cup {0} : OpenSheet(i)
  <2>1. sheet' \in SheetView /\ sheet'.busy = sheet.busy
    BY <1>0, <1>3 DEF CloseSheet, OpenSheet, SheetView
  <2> QED
    BY <1>1, <1>3, <2>1 DEF CloseSheet, OpenSheet
<1>4. ASSUME NEW k \in ListReq, ImportFile(k) PROVE ListInv'
  <2> DEFINE r == [what |-> "import", item |-> 0, st |-> "sent"]
  <2>1. r \in ListAsk /\ r.what # "submit"
    BY DEF ListAsk
  <2>2. /\ listReq' = [listReq EXCEPT ![k] = r] /\ UNCHANGED <<page, sheet>>
        /\ listReq[k].what = "none"
    BY <1>4 DEF ImportFile, ListSend, NoListReq
  <2> HIDE DEF r
  <2> QED
    BY <1>0, <2>1, <2>2, ListRequestInv DEF Submitted
<1>5. ASSUME NEW k \in ListReq, FinishRow(k) PROVE ListInv'
  <2>1. NoListReq \in ListAsk /\ NoListReq.what = "none"
    BY DEF NoListReq, ListAsk
  <2>2. /\ listReq' = [listReq EXCEPT ![k] = NoListReq] /\ page' = page
        /\ ~Submitted(k)
    BY <1>5 DEF FinishRow, ListAnswered, Submitted
  <2>3. sheet' \in SheetView /\ sheet'.busy = sheet.busy
    BY <1>0, <1>5 DEF FinishRow, SheetView
  <2> QED
    BY <2>1, <2>2, <2>3, ListRequestInv
<1>6. ASSUME NEW k \in ListReq,
             \/ CreateItem(k) \/ ChangeItem(k) \/ ServeRow(k)
             \/ RefuseItem(k) \/ LoseItem(k)
      PROVE  ListInv'
  BY <1>6, ListReplyInv DEF CreateItem, ChangeItem, ServeRow, RefuseItem, LoseItem
<1>7. ASSUME NEW k \in ListReq, LocalItem(k) PROVE ListInv'
  <2> DEFINE r == [listReq[k] EXCEPT !.st = "ok"]
  <2>1. r \in ListAsk /\ r.what = listReq[k].what
    BY <1>0 DEF ListAsk
  <2>2. listReq' = [listReq EXCEPT ![k] = r] /\ UNCHANGED <<page, sheet>>
    BY <1>0, <1>7 DEF LocalItem
  <2> HIDE DEF r
  <2> QED
    BY <1>0, <2>1, <2>2, ListRequestInv DEF Submitted
<1>8. CASE UNCHANGED listVars
  BY <1>0, <1>1, <1>8 DEF listVars
<1> QED
  BY <1>2, <1>3, <1>4, <1>5, <1>6, <1>7, <1>8, SubmitInv, FinishSubmitInv,
     RowButtonInv
  DEF ListNext, ListUser, ListPage, ListServer

\* At most one element: at most one.
LEMMA AtMostOne ==
  ASSUME NEW S, \A x, y \in S : x = y
  PROVE  Cardinality(S) <= 1
<1>1. CASE S = {}
  BY <1>1, FS_EmptySet
<1>2. ASSUME NEW x \in S PROVE Cardinality(S) <= 1
  <2>1. S = {x}
    OBVIOUS
  <2> QED
    BY <2>1, FS_Singleton
<1> QED
  BY <1>1, <1>2

LEMMA SubmitOnceFromInv == ListInv => SubmitOnce
<1> SUFFICES ASSUME ListInv, V.form = "waits" PROVE SubmitOnce
  BY DEF SubmitOnce
<1> DEFINE S == {k \in ListReq : listReq[k].what = "submit"}
<1>1. \A x, y \in S : x = y
  BY DEF ListInv, OneSubmit, Submitted
<1> HIDE DEF S
<1>2. Cardinality(S) <= 1
  BY <1>1, AtMostOne
<1> QED
  BY <1>2 DEF ListInv, OneSubmit, Submitted, SubmitOnce, S

----------------------------------------------------------------------------
(* A step of the dashboard is one of the part that is visited.             *)

LEMMA StepOfPart ==
  ASSUME [Next]_vars
  PROVE  /\ [SessionNext]_sessionVars /\ [ConnNext]_connVars
         /\ [RepoNext]_repoVars /\ [PoolNext]_poolVars /\ [ListNext]_listVars
BY DEF Next, vars, SessionPart, ConnPart, RepoPart, PoolPart, ListPart

\* The console opens for superadmins only.
THEOREM DashboardAdminsOnly == Spec => []AdminsOnly
<1>1. Init => SessionInv
  BY SessionInitInv DEF Init
<1>2. SessionInv /\ [Next]_vars => SessionInv'
  BY StepOfPart, SessionNextInv
<1>3. SessionInv => AdminsOnly
  BY DEF SessionInv, AsksForItself, AdminsOnly
<1> QED
  BY <1>1, <1>2, <1>3, PTL DEF Spec

\* A button of the configuration is inert only while its request is under way.
THEOREM DashboardButtonsComeBack == Spec => []ButtonsComeBack
<1> DEFINE I == ConnInv /\ RepoInv /\ PwInv
<1>1. Init => I
  BY ConnInitInv, RepoInitInv, PwInitInv DEF Init
<1>2. I /\ [Next]_vars => I'
  BY StepOfPart, ConnNextInv, RepoNextInv, PwNextInv
<1>3. I => ButtonsComeBack
  BY DEF ConnInv, RepoInv, PwInv, ButtonsComeBack
<1> HIDE DEF I
<1> QED
  BY <1>1, <1>2, <1>3, PTL DEF Spec

\* A code connection is stored only with a token its provider accepted.
THEOREM DashboardCodeHasToken == Spec => CodeHasToken
<1> DEFINE P == \A r \in conns' \ conns : FormOf[r.card] = "git" => r.tok \in GoodCred
<1>1. Init => ConnInv
  BY ConnInitInv DEF Init
<1>2. ConnInv /\ [Next]_vars => ConnInv'
  BY StepOfPart, ConnNextInv
<1>3. ConnInv /\ [Next]_vars => [P]_conns
  BY StepOfPart, ConnTokens
<1> QED
  BY <1>1, <1>2, <1>3, PTL DEF Spec, CodeHasToken

\* A row of the repositories appears only because a POST was answered.
THEOREM DashboardRemovedStays == Spec => RemovedStays
<1>1. Init => RepoInv
  BY RepoInitInv DEF Init
<1>2. RepoInv /\ [Next]_vars => RepoInv'
  BY StepOfPart, RepoNextInv
<1>3. RepoInv /\ [Next]_vars => [NewRowsPosted]_repos
  BY StepOfPart, RepoRowsStay DEF NewRowsPosted
<1> QED
  BY <1>1, <1>2, <1>3, PTL DEF Spec, RemovedStays

\* No dialog of a list page submits twice, none stays locked.
THEOREM DashboardSubmitOnce == Spec => []SubmitOnce
<1>1. Init => ListInv
  BY ListInitInv DEF Init
<1>2. ListInv /\ [Next]_vars => ListInv'
  BY StepOfPart, ListNextInv
<1> QED
  BY <1>1, <1>2, SubmitOnceFromInv, PTL DEF Spec
=============================================================================
