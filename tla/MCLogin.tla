------------------------------- MODULE MCLogin -------------------------------
(***************************************************************************)
(* Two accounts, one created with a first password and one with a secret   *)
(* enrolled, a name that is no account, and a password the policy refuses. *)
(***************************************************************************)
EXTENDS Login, TLC

First == [runes |-> 4, bytes |-> 4, kinds |-> {"lower"}]
Own == [runes |-> 5, bytes |-> 6, kinds |-> {"lower", "uppercase"}]
Long == [runes |-> 6, bytes |-> 6, kinds |-> {"uppercase"}]
MCPasswords == {First, Own, Long}

Placeholder ==
  [password |-> [id |-> "6", of |-> First], secret |-> NoSecret,
   last |-> 0, must |-> TRUE]
Enrolled ==
  [password |-> [id |-> "0", of |-> Own], secret |-> "s1",
   last |-> 0, must |-> FALSE]
Unreadable == [Enrolled EXCEPT !.password.id = "?"]

MCFiles ==
  {[op |-> Placeholder, admin |-> Enrolled],
   [op |-> Unreadable, admin |-> [Enrolled EXCEPT !.must = TRUE]]}

\* A login with and without a limiter and a second factor, the host's
\* account with and without one, both, and no authentication at all.
Setting(required, host, cli, totp, limited) ==
  [required |-> required, host |-> host, cli |-> cli, totp |-> totp,
   limited |-> limited]
MCConfigs ==
  {Setting(TRUE, FALSE, TRUE, TRUE, TRUE),
   Setting(TRUE, FALSE, TRUE, FALSE, FALSE),
   Setting(TRUE, TRUE, TRUE, TRUE, FALSE),
   Setting(TRUE, TRUE, FALSE, TRUE, FALSE),
   Setting(TRUE, TRUE, FALSE, FALSE, FALSE),
   Setting(FALSE, FALSE, TRUE, TRUE, FALSE)}
=============================================================================
