------------------------------ MODULE MCRunLoop -------------------------------
(***************************************************************************)
(* Part of the shipped manifest: the base level, exec and admin with their *)
(* passwords, config and the two kinds of mode, on exec and on the base.   *)
(***************************************************************************)
EXTENDS RunLoop, TLC

MCLevels == {"base", "exec", "admin", "config", "config-if", "user"}

MCParent ==
  [exec |-> "base", admin |-> "exec", config |-> "exec", user |-> "base"]
    @@ ("config-if" :> "config")

MCEnterCmd ==
  [exec |-> "enable", admin |-> "admin", config |-> "configure terminal",
   user |-> "user"] @@ ("config-if" :> "interface")

MCExitCmd == [exec |-> "disable", admin |-> "return admin"]

MCOwn ==
  [base |-> {"enable", "user"},
   exec |-> {"disable", "admin", "configure terminal",
             "audit-log enable", "audit-log disable"},
   admin |-> {"return admin", "reboot"},
   config |-> {"interface", "password manager"},
   user |-> {}] @@ ("config-if" :> {})

MCCommon == {"exit", "end", "other"}

MCScripted ==
  {"enable", "configure terminal", "interface", "user", "exit", "end",
   "disable", "password manager", "other"}
=============================================================================
