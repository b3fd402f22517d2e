---------------------------- MODULE Connections ----------------------------
(***************************************************************************)
(* The connections tab of the configuration page (config/page.tsx) and the *)
(* handlers it calls (httpapi/api.go, db/db.go).                           *)
(*                                                                         *)
(* Every card of the tab is one provider in one role.  Its dialog tests a  *)
(* credential, stores it, and the card can be disconnected or connected by *)
(* reusing another card of the same provider.  The four kinds of dialog    *)
(* (code, tasks, CI/observability/docs, AI engine) share no state; the     *)
(* authorisation at GitHub is the subject of GithubFlow.                   *)
(*                                                                         *)
(* A dialog is not tied to its requests: it may be closed and opened again *)
(* while a test or a connection is under way, and the late answer is then  *)
(* applied to whatever the dialog shows.                                   *)
(***************************************************************************)
EXTENDS Naturals, FiniteSets

CONSTANTS
  Card,      \* the cards of the tab, "sub" and "api" among them
  FormOf,    \* the dialog of a card: "git", "task", "int" or "ia"
  FamilyOf,  \* github, gitlab, bitbucket, or "none" where nothing is shared
  Decks,     \* bound: sets of cards used together (cards of one dialog or
             \* one family matter to each other, no others)
  Untested,  \* cards whose dialog offers no test (noTest)
  ConnReq,   \* POST and DELETE requests that may be under way at once
  ConnGet    \* GET requests that may be under way at once

Form     == {"git", "task", "int", "ia"}
GoodCred == {"good"}
Cred     == GoodCred \cup {"bad"}

ASSUME CardAssumption ==
  /\ FormOf \in [Card -> Form]
  /\ \A c \in Card : c \in {"sub", "api"} => FormOf[c] = "ia"
  /\ "none" \notin Card
  /\ Untested \in SUBSET Card
  /\ DOMAIN FamilyOf = Card
  /\ Decks \subseteq SUBSET Card

VARIABLES
  deck,      \* the cards used in this behaviour
  conns,     \* rows of table connection: a card and the token stored with it
  dialog,    \* React state of each kind of dialog
  connReq,   \* requests of the dialogs and cards
  connShown, \* the cards the page believes connected
  connGets   \* polls of /v1/connections under way

connVars == <<deck, conns, dialog, connReq, connShown, connGets>>

Row == [card : Card, tok : Cred \cup {"none"}]

\* what a request asks for, on behalf of which card and with which credential;
\* seen: the rows its transaction deletes
ConnOp == {"test", "start", "connect", "disconnect", "reuse"}
NoOp == [what |-> "none", card |-> "none", tok |-> "none", st |-> "free",
         seen |-> {}]

Closed == [card |-> "none", tok |-> "none", busy |-> FALSE,
           testing |-> FALSE, verdict |-> "none", step |-> "idle"]

ConnTypeOK ==
  /\ deck \in Decks
  /\ conns \in SUBSET Row
  /\ dialog \in [Form -> [card : Card \cup {"none"}, tok : Cred \cup {"none"},
                          busy : BOOLEAN, testing : BOOLEAN,
                          verdict : {"none", "ok", "bad"},
                          step : {"idle", "await_code"}]]
  /\ \A k \in ConnReq :
       /\ connReq[k].what \in ConnOp \cup {"none"}
       /\ connReq[k].st \in {"free", "sent", "checked", "writing", "ok",
                             "refused", "lost"}
       /\ (connReq[k] = NoOp) <=> (connReq[k].st = "free")
       /\ connReq[k].seen \subseteq Row
  /\ connShown \in SUBSET Card

Cards(R) == {r.card : r \in R}
Engine(c) == FormOf[c] = "ia"

ConnPoll == INSTANCE UsePoll WITH Get <- ConnGet, server <- Cards(conns),
                                  data <- connShown, gets <- connGets

\* what a tab may find: connections made long ago, one engine at most
ConnInit ==
  /\ deck \in Decks
  /\ conns \in SUBSET {[card |-> c, tok |-> IF FormOf[c] = "git" THEN "good"
                                            ELSE "none"] : c \in deck}
  /\ Cardinality({r \in conns : Engine(r.card)}) <= 1
  /\ dialog = [f \in Form |-> Closed]
  /\ connReq = [k \in ConnReq |-> NoOp]
  /\ ConnPoll!PollInit({})

----------------------------------------------------------------------------
(* The page.  A dialog covers the page: one at a time is open.             *)

NoDialog == \A f \in Form : dialog[f].card = "none"

Set(f, d) == dialog' = [dialog EXCEPT ![f] = d]

\* a late answer to a closed dialog; only that of the AI engine shows it later
Late(f, d) ==
  Set(f, IF dialog[f].card = "none" /\ f # "ia" THEN Closed ELSE d)

\* resetGit, resetTask, resetInt, resetIA; their GitHub part is in GithubFlow
Reset(f) == Set(f, Closed)

\* "Connect" and "Reconnect" reset the dialog first, those of the AI engine
\* only its step
OpenDialog(c) ==
  LET f == FormOf[c] IN
  /\ NoDialog
  /\ Set(f, IF Engine(c) THEN [dialog[f] EXCEPT !.card = c, !.step = "idle"]
                         ELSE [Closed EXCEPT !.card = c])
  /\ UNCHANGED <<deck, conns, connReq, connShown, connGets>>

CloseDialog(f) ==
  /\ dialog[f].card # "none"
  /\ Reset(f)
  /\ UNCHANGED <<deck, conns, connReq, connShown, connGets>>

\* every change of a field takes the verdict away
Type(f, t) ==
  /\ dialog[f].card # "none" /\ dialog[f].tok # t
  /\ dialog[f].card = "sub" => dialog[f].step = "await_code"
  /\ Set(f, [dialog[f] EXCEPT !.tok = t, !.verdict = "none"])
  /\ UNCHANGED <<deck, conns, connReq, connShown, connGets>>

Send(k, what, c, t) ==
  /\ connReq[k] = NoOp
  /\ connReq' = [connReq EXCEPT ![k] = [what |-> what, card |-> c, tok |-> t,
                                        st |-> "sent", seen |-> {}]]
  /\ UNCHANGED <<deck, conns, connShown, connGets>>

\* when "Testar" and "Conectar" of a dialog work.  Enter sends a code of the
\* subscription while busy, too
CanTest(d) ==
  /\ d.card \notin {"none", "sub"} \cup Untested
  /\ d.tok # "none" /\ ~d.testing

CanConnect(d) ==
  /\ d.card # "none" /\ d.tok # "none"
  /\ ~d.busy \/ d.card = "sub"
  /\ d.card = "sub" => d.step = "await_code"

\* testApiKey, testGit, testTask, testInt
SendTest(f, k) ==
  LET d == dialog[f] IN
  /\ CanTest(d)
  /\ Set(f, [d EXCEPT !.testing = TRUE, !.verdict = "none"])
  /\ Send(k, "test", d.card, d.tok)

\* claudeStart: asks for the address to authorise at
ClaudeStart(k) ==
  LET d == dialog["ia"] IN
  /\ d.card = "sub" /\ d.step = "idle" /\ ~d.busy
  /\ Set("ia", [d EXCEPT !.busy = TRUE])
  /\ Send(k, "start", "sub", "none")

\* connectGit, connectTask, connectInt, claudeSubmitCode, and connectApiKey,
\* whose request does not carry the key
SendConnect(f, k) ==
  LET d == dialog[f] IN
  /\ CanConnect(d)
  /\ Set(f, [d EXCEPT !.busy = TRUE])
  /\ Send(k, "connect", d.card, IF d.card = "api" THEN "none" ELSE d.tok)

\* disconnectGit, disconnectTask, disconnectInt; an engine has no such button
SendDisconnect(c, k) ==
  /\ NoDialog /\ c \in connShown /\ ~Engine(c)
  /\ Send(k, "disconnect", c, "none")
  /\ UNCHANGED dialog

\* reuseBtn: shown where another card of the family is
SendReuse(c, k) ==
  /\ NoDialog /\ c \notin connShown
  /\ FamilyOf[c] # "none"
  /\ \E d \in connShown : FamilyOf[d] = FamilyOf[c]
  /\ Send(k, "reuse", c, "none")
  /\ UNCHANGED dialog

\* connectApiKey looks at no answer
Accepted(r) == r.st = "ok" \/ (r.card = "api" /\ r.st = "refused")

Answered(k) == connReq[k].st \in {"ok", "refused", "lost"}

\* Mutant: the early return of a refused connection skips setBusy(false)
FinishConnectNoFinally(k) ==
  LET r == connReq[k]
      f == FormOf[r.card]
  IN
  /\ r.what = "connect" /\ Answered(k)
  /\ \/ Accepted(r) /\ Reset(f)
     \/ ~Accepted(r) /\ Late(f, [dialog[f] EXCEPT !.verdict = "bad"])
  /\ connReq' = [connReq EXCEPT ![k] = NoOp]
  /\ UNCHANGED <<deck, conns, connShown, connGets>>

FinishTest(k) ==
  LET r == connReq[k]
      f == FormOf[r.card]
  IN
  /\ r.what = "test" /\ Answered(k)
  /\ Late(f, [dialog[f] EXCEPT !.testing = FALSE,
                               !.verdict = IF r.st = "ok" THEN "ok" ELSE "bad"])
  /\ connReq' = [connReq EXCEPT ![k] = NoOp]
  /\ UNCHANGED <<deck, conns, connShown, connGets>>

FinishStart(k) ==
  /\ connReq[k].what = "start" /\ Answered(k)
  /\ Set("ia", [dialog["ia"] EXCEPT
                  !.busy = FALSE,
                  !.step = IF connReq[k].st = "ok" THEN "await_code" ELSE @])
  /\ connReq' = [connReq EXCEPT ![k] = NoOp]
  /\ UNCHANGED <<deck, conns, connShown, connGets>>

\* a stored connection closes the dialog, whichever card it shows by now; the
\* dialogs of the AI engine show a text of their own instead of a verdict
FinishConnect(k) ==
  LET r == connReq[k]
      f == FormOf[r.card]
  IN
  /\ r.what = "connect" /\ Answered(k)
  /\ \/ Accepted(r) /\ Reset(f)
     \/ /\ ~Accepted(r)
        /\ Late(f, [dialog[f] EXCEPT !.busy = FALSE,
                      !.verdict = IF Engine(r.card) THEN @ ELSE "bad"])
  /\ connReq' = [connReq EXCEPT ![k] = NoOp]
  /\ UNCHANGED <<deck, conns, connShown, connGets>>

\* disconnectX and reuseConn only ask for the list again
FinishCard(k) ==
  /\ connReq[k].what \in {"disconnect", "reuse"} /\ Answered(k)
  /\ connReq' = [connReq EXCEPT ![k] = NoOp]
  /\ UNCHANGED <<deck, conns, dialog, connShown, connGets>>

----------------------------------------------------------------------------
(* The cerebro.                                                            *)

Reply(k, st) ==
  connReq' = [connReq EXCEPT ![k].st = st, ![k].tok = "none", ![k].seen = {}]

\* the provider is asked whether it accepts the credential
TestCred(k) ==
  /\ connReq[k].what = "test" /\ connReq[k].st = "sent"
  /\ \/ connReq[k].tok \in GoodCred /\ Reply(k, "ok")
     \/ Reply(k, "refused")
  /\ UNCHANGED <<deck, conns, dialog, connShown, connGets>>

\* the sidecar starts `claude setup-token' and hands out its address
StartClaude(k) ==
  /\ connReq[k].what = "start" /\ connReq[k].st = "sent"
  /\ Reply(k, "ok")
  /\ UNCHANGED <<deck, conns, dialog, connShown, connGets>>

\* the rows SetCodeProviderToken, SetTaskSource, SetTypedConnection and
\* SetAIEngine delete: those of the card, or every engine
Replaces(c) == {r \in conns : r.card = c \/ (Engine(c) /\ Engine(r.card))}

\* the handler holds a credential it may store, and goes on to store it
Check(k, t) == connReq' = [connReq EXCEPT ![k].tok = t, ![k].st = "checked"]

\* gitConnect, tasksConnect, integrationConnect, claudeAuth and the POST of
\* connections, which asks nobody
Validate(k) ==
  LET r == connReq[k] IN
  /\ r.what = "connect" /\ r.st = "sent"
  /\ \/ (r.tok \in GoodCred \/ r.card = "api") /\ Check(k, r.tok)
     \/ r.card # "api" /\ Reply(k, "refused")
  /\ UNCHANGED <<deck, conns, dialog, connShown, connGets>>

\* Mutant: a code connection is reused without its token
FindReusableAny(k) ==
  LET r   == connReq[k]
      kin == {s \in conns : FamilyOf[s.card] = FamilyOf[r.card]}
  IN
  /\ r.what = "reuse" /\ r.st = "sent"
  /\ \/ \E s \in kin : Check(k, s.tok)
     \/ kin = {} /\ Reply(k, "refused")
  /\ UNCHANGED <<deck, conns, dialog, connShown, connGets>>

\* reuseConnection: a code connection needs a token of the family, any other
\* only its label; the connection it was read from may be gone when it is stored
FindReusable(k) ==
  LET r   == connReq[k]
      kin == {s \in conns : FamilyOf[s.card] = FamilyOf[r.card]
                            /\ (FormOf[r.card] = "git" => s.tok # "none")}
  IN
  /\ r.what = "reuse" /\ r.st = "sent"
  /\ \/ \E s \in kin : Check(k, s.tok)
     \/ kin = {} /\ Reply(k, "refused")
  /\ UNCHANGED <<deck, conns, dialog, connShown, connGets>>

\* The transaction opens: its DELETE sees what is committed.  The rows of two
\* transactions of one card do not exclude each other: where the first waited
\* for a row of the second it goes on without seeing the new one
Begin(k) ==
  /\ connReq[k].st = "checked"
  /\ connReq' = [connReq EXCEPT ![k].st = "writing",
                                ![k].seen = Replaces(connReq[k].card)]
  /\ UNCHANGED <<deck, conns, dialog, connShown, connGets>>

\* only a code connection keeps the token in its settings
Commit(k) ==
  LET r == connReq[k] IN
  /\ r.st = "writing"
  /\ conns' = (conns \ r.seen)
         \cup {[card |-> r.card,
                tok  |-> IF FormOf[r.card] = "git" THEN r.tok ELSE "none"]}
  /\ Reply(k, "ok")
  /\ UNCHANGED <<deck, dialog, connShown, connGets>>

\* the transaction does not open or is rolled back; claudeAuth answers what the
\* sidecar said
RollBack(k) ==
  /\ connReq[k].st \in {"checked", "writing"}
  /\ Reply(k, IF connReq[k].card = "sub" THEN "ok" ELSE "refused")
  /\ UNCHANGED <<deck, conns, dialog, connShown, connGets>>

\* DeleteCodeProvider, DeleteTaskSource, DeleteTypedConnection
Disconnect(k) ==
  /\ connReq[k].what = "disconnect" /\ connReq[k].st = "sent"
  /\ conns' = {r \in conns : r.card # connReq[k].card}
  /\ Reply(k, "ok")
  /\ UNCHANGED <<deck, dialog, connShown, connGets>>

\* no role for it, rate limit, a database error before anything was written
Reject(k) ==
  /\ connReq[k].st = "sent"
  /\ Reply(k, "refused")
  /\ UNCHANGED <<deck, conns, dialog, connShown, connGets>>

\* the request, or its answer, is lost
Lose(k) ==
  /\ connReq[k].st \in {"sent", "ok", "refused"}
  /\ Reply(k, "lost")
  /\ UNCHANGED <<deck, conns, dialog, connShown, connGets>>

----------------------------------------------------------------------------
ConnUser ==
  \/ \E c \in deck : OpenDialog(c)
  \/ \E f \in Form : CloseDialog(f) \/ \E t \in Cred : Type(f, t)
  \/ \E k \in ConnReq :
       \/ \E f \in Form : SendTest(f, k) \/ SendConnect(f, k)
       \/ ClaudeStart(k)
       \/ \E c \in deck : SendDisconnect(c, k) \/ SendReuse(c, k)

ConnFinish(k) ==
  FinishTest(k) \/ FinishStart(k) \/ FinishConnect(k) \/ FinishCard(k)

ConnServe(k) ==
  \/ TestCred(k) \/ StartClaude(k) \/ Validate(k) \/ FindReusable(k)
  \/ Begin(k) \/ Commit(k) \/ RollBack(k) \/ Disconnect(k) \/ Reject(k) \/ Lose(k)

ConnNext ==
  \/ ConnUser
  \/ \E k \in ConnReq : ConnFinish(k) \/ ConnServe(k)
  \/ ConnPoll!Poll /\ UNCHANGED <<deck, conns, dialog, connReq>>

----------------------------------------------------------------------------
(* Properties.                                                             *)

\* A dialog whose button is inert has a request under way: however dialogs
\* are closed, opened for another card and overtaken by late answers, no path
\* of the handlers leaves `busy' or `testing' behind (the finally blocks).
BusyIsReal ==
  \A f \in Form :
    /\ dialog[f].busy =>
         \E k \in ConnReq : /\ connReq[k].what \in {"connect", "start"}
                            /\ FormOf[connReq[k].card] = f
    /\ dialog[f].testing =>
         \E k \in ConnReq : /\ connReq[k].what = "test"
                            /\ FormOf[connReq[k].card] = f

\* A code connection appears only with a token its provider accepted, also
\* when it is reused from another card while connections come and go
\* (validateGitToken before SetCodeProviderToken, FindProviderToken in
\* reuseConnection).
CodeHasToken ==
  [][\A r \in conns' \ conns :
       FormOf[r.card] = "git" => r.tok \in GoodCred]_conns
=============================================================================
