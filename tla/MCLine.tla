------------------------------- MODULE MCLine --------------------------------
(***************************************************************************)
(* Three levels: exec, config below it and if below that, both inheriting. *)
(* The entries are those of the shipped tree files that differ in how they *)
(* are found or gated, with a vendor's secret, a gated and a password      *)
(* protected command added.                                                *)
(***************************************************************************)
EXTENDS CommandLine, TLC

Plain ==
  [run |-> "", alias |-> "", hidden |-> FALSE, negatable |-> FALSE,
   hash |-> "", vendor |-> "", settable |-> "", min |-> 0, max |-> Unbounded,
   maxlen |-> 0, requires |-> "", roles |-> {}, pageable |-> FALSE, text |-> "words"]
Runs(h) == [run |-> h, max |-> 0]
Takes(h, n) == [run |-> h, min |-> n, max |-> n]

\* What the YAML of each entry sets.
Set ==
  [show |-> <<>>,
   version |-> [run |-> "show.version", max |-> 0, pageable |-> TRUE],
   vault |-> [run |-> "show.vault", max |-> 0, pageable |-> TRUE, roles |-> {"admin"}],
   users |-> [run |-> "show.users", max |-> 0, requires |-> "daemon"],
   configure |-> <<>>,
   terminal |-> Runs("configure.terminal"),
   totp |-> [requires |-> "totp"],
   enable |-> [run |-> "totp.enable", max |-> 1],
   qr |-> Runs("totp.enable.qr"),
   disable |-> Runs("totp.disable"),
   erase |-> [run |-> "erase", max |-> 0, hash |-> "h1"],
   debug |-> [run |-> "debug", max |-> 0, vendor |-> "h2", hidden |-> TRUE],
   reboot |-> [run |-> "reboot", max |-> 1, negatable |-> TRUE, requires |-> "power"],
   reload |-> [alias |-> "reboot"],
   hostname |-> [run |-> "hostname", min |-> 1, max |-> 1, maxlen |-> 3, negatable |-> TRUE],
   interface |-> Takes("interface", 1),
   password |-> <<>>,
   manager |-> [run |-> "password-manager", max |-> 0, negatable |-> TRUE, hash |-> "h3"],
   hash |-> Takes("password-manager.hash", 1),
   alias |-> [run |-> "alias", min |-> 2, negatable |-> TRUE],
   help |-> [run |-> "help", pageable |-> TRUE],
   query |-> [alias |-> "help", hidden |-> TRUE],
   exit |-> Runs("exit"),
   end |-> Runs("end"),
   leak |-> [run |-> "debug", max |-> 0, vendor |-> "h2"],
   typo |-> [run |-> "erase", max |-> 0, requires |-> "totp_typo"],
   escape |-> [run |-> "erase", max |-> 0, text |-> "^["]]
MCAttr == [c \in DOMAIN Set |-> Set[c] @@ Plain]
MCCmd == DOMAIN Set

Names == (MCCmd \ {"query"}) \cup {"?"}
MCBegins ==
  [w \in Names |-> {w}] @@
  [w \in {""} |-> Names] @@
  ("s" :> {"show"} @@ "sh" :> {"show"} @@ "v" :> {"version", "vault"} @@ "va" :> {"vault"} @@
   "ver" :> {"version"} @@ "conf" :> {"configure"} @@ "t" :> {"terminal", "totp"} @@
   "e" :> {"erase", "exit", "end", "enable"} @@ "er" :> {"erase"} @@
   "en" :> {"end", "enable"} @@ "deb" :> {"debug"} @@ "rel" :> {"reload"} @@
   "int" :> {"interface"} @@ "pass" :> {"password"} @@ "man" :> {"manager"} @@
   "h" :> {"help", "hostname", "hash"} @@ "q" :> {"qr"}) @@
  [w \in {"zz", "x", "abc", "abcd", "no", "|", "include", "^[", "'"} |-> {}]
MCRunes == [w \in DOMAIN MCBegins |-> IF w = "abcd" THEN 4 ELSE 1]

At(names) == [n \in names |-> n]
Common == [n \in {"alias", "help", "?", "exit", "end"} |-> IF n = "?" THEN "query" ELSE n]
MCKids ==
  [c \in MCCmd |->
     CASE c = "show" -> At({"version", "vault", "users"})
       [] c = "configure" -> At({"terminal"})
       [] c = "totp" -> At({"enable", "disable"})
       [] c = "enable" -> At({"qr"})
       [] c = "password" -> At({"manager"})
       [] c = "manager" -> At({"hash"})
       [] OTHER -> NoTree]

Exec == At({"show", "configure", "totp", "erase", "debug", "reboot", "reload"})
Config == At({"hostname", "interface", "password"})

OfLevel == [enter |-> "", exit |-> "", inherit |-> TRUE, skip |-> FALSE,
            hidden |-> FALSE, restricted |-> FALSE, hash |-> "", vendor |-> "",
            settable |-> "", roles |-> {}]
Levels ==
  [exec |-> OfLevel,
   config |-> [OfLevel EXCEPT !.enter = "configure.terminal", !.hidden = TRUE,
                              !.restricted = TRUE, !.vendor = "h2"],
   if |-> [OfLevel EXCEPT !.enter = "interface"]]
MCParent == [config |-> "exec", if |-> "config"]

\* Everything on; the second factor off, and a role that passes every gate;
\* no flag on, so the target of "reload" is gone.  The rest have one thing wrong.
Own == [exec |-> Exec, config |-> Config, if |-> NoTree]
Good ==
  [own |-> Own,
   common |-> Common, kids |-> MCKids,
   registered |-> {MCAttr[c].run : c \in MCCmd} \ {""},
   flags |-> [daemon |-> TRUE, totp |-> TRUE, power |-> TRUE],
   roles |-> {"admin", "root"}, bypass |-> {}, required |-> TRUE, level |-> Levels]
Differs ==
  [good |-> <<>>,
   noSecondFactor |-> [flags |-> [daemon |-> TRUE, totp |-> FALSE, power |-> TRUE],
                       bypass |-> {"root"},
                       level |-> [Levels EXCEPT !.if.inherit = FALSE]],
   noPower |-> [flags |-> [daemon |-> FALSE, totp |-> TRUE, power |-> FALSE],
                required |-> FALSE, level |-> [Levels EXCEPT !.if.skip = TRUE]],
   missing |-> [registered |-> {"exit"}],
   dead |-> [registered |-> ({MCAttr[c].run : c \in MCCmd} \cup {"dead"}) \ {""}],
   clash |-> [own |-> [Own EXCEPT !.if = At({"show"})]],
   control |-> [own |-> [Own EXCEPT !.exec = At({"escape"})]],
   flag |-> [own |-> [Own EXCEPT !.exec = @ @@ At({"typo"})]],
   secret |-> [own |-> [Own EXCEPT !.exec = @ @@ At({"leak"})]],
   exit |-> [level |-> [Levels EXCEPT !.if.exit = "quit"]],
   hidden |-> [level |-> [Levels EXCEPT !.config.hidden = FALSE]],
   role |-> [roles |-> {"root"}],
   bypass |-> [bypass |-> {"admin", "root"}]]
MCDisk == [x \in DOMAIN Differs |-> Differs[x] @@ Good]
MCDeployments == DOMAIN Differs

MCLines ==
  {<<"show", "version">>, <<"sh", "ver">>, <<"s">>, <<"show", "v">>, <<"show", "va">>, <<"show", "vault">>,
   <<"show", "vault", "x">>, <<"show", "x">>, <<"show", "users">>,
   <<"show", "version", "|", "include", "x">>, <<"erase", "|", "include", "x">>,
   <<"show", "version", "|">>,
   <<"show", "version", "|", "include", "x", "|", "include", "x">>,
   <<"configure", "terminal">>, <<"conf">>, <<"no", "configure", "terminal">>,
   <<"t", "e">>, <<"totp", "en">>, <<"totp", "enable", "q">>, <<"erase">>, <<"e">>,
   <<"er", "x">>, <<"debug">>, <<"deb">>, <<"rel">>, <<"reload", "x">>,
   <<"no", "reboot">>, <<"no", "no", "reboot">>, <<"no">>, <<"rel", "?">>,
   <<"alias", "int", "interface">>, <<"alias", "int", "show">>,
   <<"alias", "zz", "show", "vault">>, <<"alias", "e", "erase">>,
   <<"alias", "no", "show">>, <<"alias", "rel", "reload">>,
   <<"alias", "zz">>, <<"no", "alias", "zz">>, <<"no", "alias">>, <<"zz">>, <<"zz", "x">>,
   <<"int", "x">>, <<"int">>, <<"hostname", "abc">>, <<"hostname", "abcd">>,
   <<"no", "hostname">>, <<"h", "abc">>, <<"pass", "man">>, <<"pass", "man", "x">>,
   <<"password", "manager", "hash", "x">>, <<"no", "pass", "manager">>,
   <<"exit">>, <<"end">>, <<"help", "sh", "ver">>, <<"help", "debug">>, <<"?">>, <<"show", "?">>,
   <<"x">>, <<"^[">>, <<"'">>}

MCScripts ==
  {<<>>,
   <<<<"configure", "terminal">>, <<"hostname", "abc">>, <<"alias", "int", "interface">>>>,
   <<<<"alias", "zz", "show", "vault">>, <<"alias", "zz", "erase">>>>,
   <<<<"alias", "zz", "erase">>, <<"no", "alias", "zz">>, <<"reload">>>>,
   <<<<"'">>>>, <<<<"show", "v">>>>}
=============================================================================
