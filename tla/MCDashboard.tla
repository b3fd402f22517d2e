---------------------------- MODULE MCDashboard ----------------------------
(* Small instances of Dashboard for TLC. *)
EXTENDS Dashboard, TLC

\* One code and one task connection of the same provider, and the two kinds
\* of AI engine.
Kinds == "github" :> "git" @@ "issues" :> "task" @@ "sub" :> "ia" @@ "api" :> "ia"
Families == [c \in Card |-> IF c \in {"github", "issues"} THEN "gh" ELSE "none"]
TwoDecks == {{"github", "issues"}, {"sub", "api"}}

\* Requests of the connections tab are interchangeable.
Alike == Permutations(ConnReq)
=============================================================================
