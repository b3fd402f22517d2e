----------------------------- MODULE MCBilling -----------------------------
(* Small instances of Billing for TLC. *)
EXTENDS Billing, TLC

\* Rows and requests are interchangeable.
Alike == Permutations(SubId) \cup Permutations(Hook)
=============================================================================
