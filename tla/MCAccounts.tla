----------------------------- MODULE MCAccounts -------------------------------
(***************************************************************************)
(* Two processes; the factory's administrator and one more name.           *)
(***************************************************************************)
EXTENDS Accounts, TLC

MCFactory ==
  [n \in Names |-> IF n = "admin"
                   THEN [bypass |-> TRUE, password |-> "changeme"] ELSE Absent]
=============================================================================
