----------------------------- MODULE MCServices -----------------------------
(* A small instance of Services for TLC. *)
EXTENDS Services, TLC

SmallRpm == "free" :> 1 @@ "enterprise" :> 0
=============================================================================
