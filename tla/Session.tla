------------------------------ MODULE Session ------------------------------
(***************************************************************************)
(* Who is signed in: the tabs of one browser, which share the token in     *)
(* localStorage, the gates of the two shells (Page of ui.tsx, AdminShell   *)
(* of superadmin/shell.tsx), the login page and the token check of the     *)
(* cerebro with RequireAuth on (httpapi/middleware.go, api.go).            *)
(*                                                                         *)
(* A call carries the token of the moment it is sent.  Any tab that gets   *)
(* a 401 removes the token of the moment the answer arrives.               *)
(***************************************************************************)
EXTENDS Naturals, Sequences

CONSTANTS
  Tab,
  User,
  SuperAdmin,  \* users whose e-mail is in SuperAdminEmails
  MaxLogins    \* bound: tokens issued

ASSUME LoginsAssumption == MaxLogins \in Nat

VARIABLES
  issued,      \* the users tokens were issued to: token n is issued[n]'s
  expired,     \* tokens past their lifetime
  token,       \* localStorage "apifor_token", 0: none
  tab          \* what each tab shows and waits for

sessionVars == <<issued, expired, token, tab>>

Shells == {"app", "admin"}
Token  == 1..MaxLogins

\* as: the token the shell asked about itself with (/v1/me)
AtLogin == [at |-> "login", gate |-> "checking", next |-> "app", as |-> 0,
            calls |-> {}]

SessionTypeOK ==
  /\ issued \in Seq(User) /\ Len(issued) <= MaxLogins
  /\ expired \subseteq 1..Len(issued)
  /\ token \in 0..Len(issued)
  /\ \A t \in Tab :
       /\ tab[t].at \in Shells \cup {"login"}
       /\ tab[t].gate \in {"checking", "ok"}
       /\ tab[t].next \in Shells
       /\ tab[t].as \in 0..Len(issued)
       /\ tab[t].calls \subseteq {"me", "poll"} \X (0..Len(issued))

SessionInit ==
  /\ issued = <<>>
  /\ expired = {}
  /\ token = 0
  /\ tab = [t \in Tab |-> AtLogin]

----------------------------------------------------------------------------
\* authz: what the cerebro makes of the Authorization header
Accepts(n) == n # 0 /\ n \notin expired
IsSuperAdmin(n) == issued[n] \in SuperAdmin

\* A document opens and its shell asks who is there.  Without a token it goes
\* to the login page, which is told where from -- unless a poll of the page is
\* answered first and goes there without that
Opened(n, place) ==
  IF n = 0 THEN {[AtLogin EXCEPT !.next = p] : p \in {place, "app"}}
  ELSE {[at |-> place, gate |-> "checking", next |-> "app", as |-> n,
         calls |-> {<<"me", n>>}]}

Show(t, views) == \E v \in views : tab' = [tab EXCEPT ![t] = v]

\* an address typed, or a link; a link inside the dashboard leaves the calls
\* under way alive
Visit(t, place) ==
  /\ \/ Show(t, Opened(token, place))
     \/ /\ tab[t].at = "app" /\ place = "app" /\ token # 0
        /\ Show(t, {[v EXCEPT !.calls = @ \cup tab[t].calls] :
                      v \in Opened(token, place)})
  /\ UNCHANGED <<issued, expired, token>>

\* The answer to /v1/me: superadmins belong to the console, others to the
\* dashboard.  The answer is made when it arrives
MeAnswered(t, n) ==
  /\ <<"me", n>> \in tab[t].calls
  /\ Accepts(n)
  /\ IF IsSuperAdmin(n) = (tab[t].at = "admin")
     THEN tab' = [tab EXCEPT ![t].gate = "ok",
                             ![t].calls = @ \ {<<"me", n>>}]
     ELSE Show(t, Opened(token, IF IsSuperAdmin(n) THEN "admin" ELSE "app"))
  /\ UNCHANGED <<issued, expired, token>>

\* Mutant: the console opens when /v1/me fails, as the dashboard does
MeFailsOpen(t, n) ==
  /\ <<"me", n>> \in tab[t].calls
  /\ tab' = [tab EXCEPT ![t].gate = "ok", ![t].calls = @ \ {<<"me", n>>}]
  /\ UNCHANGED <<issued, expired, token>>

\* no role in the answer (429, 5xx, not JSON) or no answer: the dashboard
\* opens, for whomever; the console sends to the dashboard
MeFails(t, n) ==
  /\ <<"me", n>> \in tab[t].calls
  /\ IF tab[t].at = "app"
     THEN tab' = [tab EXCEPT ![t].gate = "ok",
                             ![t].calls = @ \ {<<"me", n>>}]
     ELSE Show(t, Opened(token, "app"))
  /\ UNCHANGED <<issued, expired, token>>

\* Every page of the dashboard polls (the counts of the sidebar); a page of
\* the console calls when somebody does something
Call(t) ==
  /\ tab[t].at # "login" /\ tab[t].gate = "ok"
  /\ \A c \in tab[t].calls : c[1] # "poll"   \* bound: one at a time
  /\ tab' = [tab EXCEPT ![t].calls = @ \cup {<<"poll", token>>}]
  /\ UNCHANGED <<issued, expired, token>>

\* an answer, an error of another kind, or none
CallReturns(t, n) ==
  /\ <<"poll", n>> \in tab[t].calls
  /\ tab' = [tab EXCEPT ![t].calls = @ \ {<<"poll", n>>}]
  /\ UNCHANGED <<issued, expired, token>>

\* Mutant: safeJson treats a 401 as any other error
UnauthorizedIgnored(t, c) ==
  /\ c \in tab[t].calls /\ ~Accepts(c[2])
  /\ tab' = [tab EXCEPT ![t].gate = "ok", ![t].calls = @ \ {c}]
  /\ UNCHANGED <<issued, expired, token>>

\* safeJson: a 401 removes whatever token there is and goes to the login page
Unauthorized(t, c) ==
  /\ c \in tab[t].calls /\ ~Accepts(c[2])
  /\ token' = 0
  /\ tab' = [tab EXCEPT ![t] = AtLogin]
  /\ UNCHANGED <<issued, expired>>

----------------------------------------------------------------------------
\* login and register: a token, and the page that was asked for
LogIn(t, u) ==
  LET n == Len(issued) + 1 IN
  /\ tab[t].at = "login"
  /\ n <= MaxLogins
  /\ issued' = Append(issued, u)
  /\ token' = n
  /\ Show(t, Opened(n, IF u \in SuperAdmin /\ tab[t].next = "app"
                       THEN "admin" ELSE tab[t].next))
  /\ UNCHANGED expired

\* a wrong password is a 401, too: it signs the other tabs out
WrongPassword(t) ==
  /\ tab[t].at = "login"
  /\ token' = 0
  /\ UNCHANGED <<issued, expired, tab>>

SignOut(t) ==
  /\ tab[t].at # "login" /\ tab[t].gate = "ok"
  /\ token' = 0
  /\ tab' = [tab EXCEPT ![t] = AtLogin]
  /\ UNCHANGED <<issued, expired>>

\* tokenTTL
Expire(n) ==
  /\ n \in 1..Len(issued) /\ n \notin expired
  /\ expired' = expired \cup {n}
  /\ UNCHANGED <<issued, token, tab>>

----------------------------------------------------------------------------
Answered401(t) == \E c \in tab[t].calls : Unauthorized(t, c)

Answer(t) ==
  \/ \E n \in 0..MaxLogins :
       MeAnswered(t, n) \/ MeFails(t, n) \/ CallReturns(t, n)
  \/ Answered401(t)

SessionNext ==
  \/ \E t \in Tab : \/ \E place \in Shells : Visit(t, place)
                    \/ Call(t) \/ Answer(t)
                    \/ \E u \in User : LogIn(t, u)
                    \/ WrongPassword(t) \/ SignOut(t)
  \/ \E n \in Token : Expire(n)

----------------------------------------------------------------------------
(* Properties.                                                             *)

\* The console is shown only in a tab whose own question to /v1/me was asked
\* with a superadmin's token, whatever happens in the other tabs and whichever
\* calls fail (AdminShell).
AdminsOnly ==
  \A t \in Tab :
    tab[t].at = "admin" /\ tab[t].gate = "ok" => IsSuperAdmin(tab[t].as)

\* A dashboard whose session has ended -- expired, or signed out in another
\* tab -- does not stay open: it ends at the login page, unless somebody signs
\* in again or moves that tab to the console (safeJson's 401).
SessionEnds ==
  \A t \in Tab :
    tab[t].at = "app" /\ ~Accepts(token) ~>
      tab[t].at # "app" \/ Accepts(token)
=============================================================================
