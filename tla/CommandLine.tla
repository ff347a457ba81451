----------------------------- MODULE CommandLine -----------------------------
(***************************************************************************)
(* From tree files to commands run: loadCommandLevels builds, prunes and   *)
(* verifies the trees, startup-config is replayed, somebody logs in, and   *)
(* every line goes through the filters, the aliases, Resolve and the gates *)
(* of runLoop to its handler.                                              *)
(***************************************************************************)
EXTENDS CommandTree

CONSTANTS
  Level, Base, Parent,
  Deployments, Disk,  \* what each has on disk and in its configuration
  Accounts,           \* the roles an account may hold
  Lines,              \* lines typed, as their words
  Scripts,            \* startup-configs, as sequences of lines
  Control,            \* words with a control character or a bad byte
  OpenQuote,          \* words with a quote that is not closed
  MaxFilterChainDepth,
  MaxAliases,         \* bound on the aliases there are
  MaxLocked           \* and on the entries that refuse an attempt at once

\* Every level but the base one has a parent, and (verifyLevelHierarchy) a
\* level is never above itself.
LevelsRank ==
  \E rank \in [Level -> 0..Cardinality(Level)] :
    \A l \in Level \ {Base} : Parent[l] \in Level /\ rank[Parent[l]] < rank[l]

\* What YAML can make of tree files: finite, of known words, and none of its
\* commands is called "no", which the alias handler relies on.
DiskTree(t) == IsTree(t) /\ "no" \notin DOMAIN t
WellFormed(disk) ==
  /\ \A l \in Level : DiskTree(disk.own[l])
  /\ DiskTree(disk.common)
  /\ DOMAIN disk.kids = Cmd /\ \A c \in Cmd : IsTree(disk.kids[c])

ASSUME CommandLineAssumption ==
  /\ IsFiniteSet(Cmd) /\ NoCmd \notin Cmd
  /\ IsFiniteSet(Level) /\ Base \in Level /\ LevelsRank
  /\ IsFiniteSet(DOMAIN Begins) /\ "" \in DOMAIN Begins
  /\ \A x \in Deployments : WellFormed(Disk[x])
  /\ Lines \subseteq Seq(DOMAIN Begins)
  /\ Scripts \subseteq Seq(Seq(DOMAIN Begins))
  /\ MaxFilterChainDepth \in Nat

VARIABLES
  d,        \* the deployment
  stage,    \* of loadCommandLevels, "replay", "reading", "secret", or an end
  trees,    \* the tree of each level
  kids,     \* Subcommands of each entry
  limited,  \* entries with a PasswordRateLimiter
  locked,   \* of those, the ones that refuse an attempt now
  script,   \* lines of startup-config still to replay
  who,      \* what Authorized knows of the session
  level,    \* the level of the frame on top
  aliases,  \* Aliases of each level
  asked,    \* the line waiting for a command's password
  ran       \* history: the handler the last line ran, and how it came to run

built == <<trees, kids, limited>>
session == <<who, level, aliases>>
vars == <<d, stage, built, locked, script, session, asked, ran>>

Entries(tree) == {tree[n] : n \in DOMAIN tree}
Below(k, cs) == cs \cup UNION {Entries(k[c]) : c \in cs}
Under(k, tree) ==
  LET reach[i \in 0..Cardinality(Cmd)] ==
        IF i = 0 THEN Entries(tree) ELSE Below(k, reach[i - 1])
  IN reach[Cardinality(Cmd)]
InTrees == UNION {Under(kids, trees[l]) : l \in Level}

Hashed(c) == Attr[c].hash # "" \/ Attr[c].vendor # ""
NoRun == [cmd |-> NoCmd]
Nobody == [required |-> Disk[d].required, roles |-> {}, bypass |-> Disk[d].bypass]

Init ==
  /\ d \in Deployments
  /\ stage = "load"
  /\ trees = [l \in Level |-> NoTree] /\ kids = Disk[d].kids /\ limited = {}
  /\ locked = {}
  /\ script \in Scripts
  /\ who = Nobody /\ level = Base
  /\ aliases = [l \in Level |-> NoTree]
  /\ asked = NoRun /\ ran = NoRun

-----------------------------------------------------------------------------
(* loadCommandLevels, in its order.  Any problem ends the program.         *)

Proceed(ok, next) ==
  /\ stage' = IF ok THEN next ELSE "failed"
  /\ UNCHANGED <<d, locked, script, session, asked, ran>>

\* LoadTree: every handler is registered and every text is clean.
Loadable(disk, tree) ==
  /\ \A c \in Under(disk.kids, tree) :
       /\ Attr[c].run \in disk.registered \cup {""}
       /\ Attr[c].text \notin Control
       /\ DOMAIN disk.kids[c] \cap Control = {}
  /\ DOMAIN tree \cap Control = {}

\* A command that switches levels is not inherited, nor is a container of
\* nothing else.  A container that mixes the two would be copied with fewer
\* subcommands; the trees modelled have none below a level that is inherited.
SwitchNames(disk) ==
  {disk.level[l].enter : l \in Level} \cup {disk.level[l].exit : l \in Level}
Stripped(disk, tree) ==
  LET gone[c \in Cmd] ==
        \/ Attr[c].run # "" /\ Attr[c].run \in SwitchNames(disk)
        \/ /\ Attr[c].run = "" /\ disk.kids[c] # NoTree
           /\ \A k \in Entries(disk.kids[c]) : gone[k]
  IN [n \in {m \in DOMAIN tree : ~gone[tree[m]]} |-> tree[n]]

Clash(a, b) == DOMAIN a \cap DOMAIN b # {}
MergeTrees(a, b) ==
  [n \in DOMAIN a \cup DOMAIN b |-> IF n \in DOMAIN b THEN b[n] ELSE a[n]]

Inherits(disk, l) == l # Base /\ disk.level[l].inherit
RawTrees(disk) ==
  LET raw[l \in Level] ==
        IF Inherits(disk, l)
        THEN MergeTrees(Stripped(disk, raw[Parent[l]]), disk.own[l])
        ELSE disk.own[l]
  IN raw
Mergeable(disk, raw) ==
  \A l \in Level :
    /\ Inherits(disk, l) => ~Clash(Stripped(disk, raw[Parent[l]]), disk.own[l])
    /\ disk.level[l].skip \/ ~Clash(raw[l], disk.common)

\* What LoadTreeStructure makes of each deployment.
Loaded ==
  [x \in Deployments |->
     LET disk == Disk[x]
         raw == RawTrees(disk)
     IN [trees |-> [l \in Level |-> IF disk.level[l].skip THEN raw[l]
                                    ELSE MergeTrees(raw[l], disk.common)],
         ok |-> /\ \A l \in Level : Loadable(disk, disk.own[l])
                /\ Loadable(disk, disk.common)
                /\ Mergeable(disk, raw)]]

LoadTreeStructure ==
  /\ stage = "load"
  /\ trees' = Loaded[d].trees
  /\ Proceed(Loaded[d].ok, "reachable")
  /\ UNCHANGED <<kids, limited>>

VerifyRegisteredCommandsAreReachable ==
  /\ stage = "reachable"
  /\ Proceed(Disk[d].registered \subseteq SwitchNames(Disk[d]) \cup {Attr[c].run : c \in InTrees}, "prune")
  /\ UNCHANGED built

\* A flag nobody knows is an error where the walk comes to it: not below a
\* command it removes.
Enabled(c) == Attr[c].requires = "" \/ Disk[d].flags[Attr[c].requires]
KnownFlag(c) == Attr[c].requires \in {""} \cup DOMAIN Disk[d].flags
Pruned(tree) ==
  [n \in {m \in DOMAIN tree : KnownFlag(tree[m]) => Enabled(tree[m])} |-> tree[n]]
\* Mutant of PruneDisabledCommands: what is below a kept command stays.
PruneTop ==
  /\ stage = "prune"
  /\ trees' = [l \in Level |-> Pruned(trees[l])]
  /\ Proceed(\A c \in UNION {Under(kids, trees'[l]) : l \in Level} : KnownFlag(c), "limit")
  /\ UNCHANGED <<kids, limited>>

PruneDisabledCommands ==
  /\ stage = "prune"
  /\ trees' = [l \in Level |-> Pruned(trees[l])]
  /\ kids' = [c \in Cmd |-> Pruned(kids[c])]
  /\ Proceed(\A c \in UNION {Under(kids', trees'[l]) : l \in Level} : KnownFlag(c), "limit")
  /\ UNCHANGED limited

\* Mutant of AttachPasswordRateLimiters: the walk does not go down.
LimitTop ==
  /\ stage = "limit"
  /\ limited' = {c \in UNION {Entries(trees[l]) : l \in Level} : Hashed(c)}
  /\ Proceed(TRUE, "levels")
  /\ UNCHANGED <<trees, kids>>

AttachPasswordRateLimiters ==
  /\ stage = "limit"
  /\ limited' = {c \in InTrees : Hashed(c)}
  /\ Proceed(TRUE, "levels")
  /\ UNCHANGED <<trees, kids>>

VerifyCommandLevels ==
  /\ stage = "levels"
  /\ Proceed(\A l \in Level \ {Base} :
               /\ Disk[d].level[l].enter \in Disk[d].registered
               /\ Disk[d].level[l].exit \in Disk[d].registered \cup {""},
             "vendor")
  /\ UNCHANGED built

\* Mutant of SecretIsVendors: a vendor's secret may be listed.
MayBeListed(x) == x.vendor # "" => x.hash = "" /\ x.settable # "true"

SecretIsVendors(x) ==
  x.vendor # "" => x.hash = "" /\ x.settable # "true" /\ x.hidden
VendorLevel(x) ==
  /\ x.restricted => x.hidden
  /\ x.vendor # "" => x.restricted
VerifyVendorDefinedSecrets ==
  /\ stage = "vendor"
  /\ Proceed(/\ \A l \in Level : SecretIsVendors(Disk[d].level[l]) /\ VendorLevel(Disk[d].level[l])
             /\ \A c \in InTrees : SecretIsVendors(Attr[c]),
             "roles")
  /\ UNCHANGED built

VerifyRoles ==
  /\ stage = "roles"
  /\ Proceed(/\ Cardinality(Disk[d].bypass) <= 1
             /\ \A l \in Level : Disk[d].level[l].roles \subseteq Disk[d].roles
             /\ \A c \in InTrees : Attr[c].roles \subseteq Disk[d].roles,
             "replay")
  /\ UNCHANGED built

-----------------------------------------------------------------------------
(* Handlers.  Where one that moves the session leaves it is RunLoop's      *)
(* subject; here it may be any of the levels it can lead to.               *)

Found(toks) == Resolve(kids, trees[level], toks)

Above(l) == LET up[k \in Level] == IF k = Base THEN {} ELSE {Parent[k]} \cup up[Parent[k]]
            IN up[l]
MayLeaveAt(h) ==
  {level} \cup {l \in Level \ {Base} : Disk[d].level[l].enter = h /\ Parent[l] = level}
          \cup (IF h \in {"exit", "end"} \cup {Disk[d].level[l].exit : l \in Level}
                THEN Above(level) ELSE {})

\* In the actions below, r is what Resolve finds for a line, and w what it
\* finds for the word the line would make an alias.
DefinesAlias(r) == Attr[r.cmd].run = "alias" /\ ~r.negated /\ r.args # <<>>
Word(r) == IF DefinesAlias(r) THEN Found(<<r.args[1]>>) ELSE r

\* Mutant of Redirects: a word that is only ambiguous is free.
TakesCommand(w, words) == w.cmd # NoCmd /\ words # w.full

\* An alias may take a word a command already has only to mean the same.
Redirects(w, words) == (w.cmd # NoCmd \/ w.amb # {}) /\ words # w.full

MayDefine(w, name, words) ==
  /\ name # "no"
  /\ ~Redirects(w, words)
  /\ name \in DOMAIN aliases[level] => stage = "replay"

Aliased(name, words) ==
  [n \in DOMAIN aliases[level] \cup {name} |->
     IF n = name THEN words ELSE aliases[level][n]]
Unaliased(name) ==
  [n \in DOMAIN aliases[level] \ {name} |-> aliases[level][n]]

AliasSet(r, w) ==
  /\ Attr[r.cmd].run = "alias" /\ ~r.negated
  /\ Len(r.args) >= 2
  /\ MayDefine(w, r.args[1], Tail(r.args))
  /\ r.args[1] \in DOMAIN aliases[level]
       \/ Cardinality(UNION {{l} \X DOMAIN aliases[l] : l \in Level}) < MaxAliases
  /\ aliases' = [aliases EXCEPT ![level] = Aliased(r.args[1], Tail(r.args))]
  /\ UNCHANGED level

AliasRemoved(r) ==
  /\ Attr[r.cmd].run = "alias" /\ r.negated
  /\ r.args # <<>> /\ r.args[1] \in DOMAIN aliases[level]
  /\ aliases' = [aliases EXCEPT ![level] = Unaliased(r.args[1])]
  /\ UNCHANGED level

Moved(r) ==
  /\ Attr[r.cmd].run # "alias"
  /\ level' \in MayLeaveAt(Attr[r.cmd].run)
  /\ UNCHANGED aliases

Succeeds(r, w) == AliasSet(r, w) \/ AliasRemoved(r) \/ Moved(r)

\* An alias handler fails when it must, any other when it likes.
MustFail(r, w) ==
  IF r.negated THEN r.args # <<>> => r.args[1] \notin DOMAIN aliases[level]
  ELSE Len(r.args) >= 2 => ~MayDefine(w, r.args[1], Tail(r.args))
MayFail(r, w) == Attr[r.cmd].run = "alias" => MustFail(r, w)

\* Resolve ends the program on an alias of a tree file that leads nowhere:
\* the nil pointer, or the endless loop.
Broken(r) == r.at = "broken"

-----------------------------------------------------------------------------
(* LoadStartupConfig: no alias is expanded, nobody is asked for anything,  *)
(* and the first line that fails ends the program.                         *)

\* What is wrong with a line as such.
Has(line, words) == \E i \in DOMAIN line : line[i] \in words
ValidInput(line) == ~Has(line, Control)
Tokenizes(line) == ~Has(line, OpenQuote)

Replayable(r) ==
  /\ ~Broken(r)
  /\ r.cmd # NoCmd /\ Attr[r.cmd].run # ""
  /\ r.negated \/ ValidArgs(r.cmd, r.args)

ReplayLine ==
  /\ stage = "replay" /\ script # <<>>
  /\ Tokenizes(Head(script))
  /\ \E r \in {Found(Head(script))} :
       /\ Replayable(r)
       /\ \E w \in {Word(r)} : ~Broken(w) /\ Succeeds(r, w)
  /\ script' = Tail(script)
  /\ UNCHANGED <<d, stage, built, locked, who, asked, ran>>

ReplayFails ==
  /\ stage = "replay" /\ script # <<>>
  /\ \/ ~Tokenizes(Head(script))
     \/ \E r \in {Found(Head(script))} :
          Replayable(r) => \E w \in {Word(r)} : Broken(w) \/ MayFail(r, w)
  /\ stage' = "failed"
  /\ UNCHANGED <<d, built, locked, script, session, asked, ran>>

\* The session starts at the base level, as one of the accounts.
LogIn ==
  /\ stage = "replay" /\ script = <<>>
  /\ stage' = "reading"
  /\ level' = Base
  /\ \E held \in IF Disk[d].required THEN Accounts ELSE {{}} :
       who' = [who EXCEPT !.roles = held]
  /\ UNCHANGED <<d, built, locked, script, aliases, asked, ran>>

-----------------------------------------------------------------------------
(* runLoop, up to the command a line stands for.                           *)

\* SplitPipeline and ParseStages.
Bars(line) == {i \in DOMAIN line : line[i] = "|"}
CommandPart(line) ==
  IF Bars(line) = {} THEN line
  ELSE SubSeq(line, 1, (CHOOSE i \in Bars(line) : \A j \in Bars(line) : i <= j) - 1)
FiltersParse(line) ==
  Bars(line) # {} =>
    /\ Cardinality(Bars(line)) <= MaxFilterChainDepth
    /\ \A i \in Bars(line) :
         /\ i + 2 <= Len(line) /\ {i + 1, i + 2} \cap Bars(line) = {}
         /\ line[i + 1] \in {"include", "exclude", "begin"}
Malformed(line) ==
  CASE ~ValidInput(line) -> "control character"
    [] ~Tokenizes(line) -> "open quote"
    [] ~FiltersParse(line) -> "bad filter"
    [] OTHER -> ""
Split ==
  [line \in Lines |-> [words |-> CommandPart(line), stages |-> Cardinality(Bars(line)),
                       problem |-> Malformed(line)]]

Expanded(line) == ExpandAlias(aliases[level], Split[line].words)
AsksFor(toks) == toks # <<>> /\ toks[Len(toks)] = "?"
AsksHelp(line) == AsksFor(Expanded(line))
HelpPath(toks) == IF Len(toks) = 1 THEN <<"">> ELSE SubSeq(toks, 1, Len(toks) - 1)

ReportResolveProblem(r) ==
  CASE r.amb # {} -> "ambiguous"
    [] r.cmd = NoCmd -> "invalid input"
    [] Attr[r.cmd].run = "" /\ r.args # <<>> -> "invalid input"
    [] Attr[r.cmd].run = "" -> "incomplete command"
    [] r.negated /\ ~Attr[r.cmd].negatable -> "not negatable"
    [] OTHER -> ""

\* The gates before the password's, and after it.
Barred(r, line) ==
  CASE Split[line].stages > 0 /\ ~Attr[r.cmd].pageable -> "not pageable"
    [] ~Authorized(who, r.cmd) -> "access denied"
    [] Hashed(r.cmd) /\ r.cmd \in locked -> "too many attempts"
    [] OTHER -> ""
\* Mutant of ArgsFit: the length of an argument goes unchecked.
CountFits(r) == r.negated \/ EnoughFor(r.cmd, Len(r.args))

ArgsFit(r) == r.negated \/ ValidArgs(r.cmd, r.args)

\* The line runs nothing; the next one is read.
NothingRuns ==
  /\ stage' = "reading" /\ asked' = NoRun /\ ran' = NoRun
  /\ UNCHANGED <<d, built, script, session>>

Typed(line) == stage = "reading" /\ Split[line].problem = "" /\ ~AsksHelp(line)
Runnable(line, r) == Typed(line) /\ ~Broken(r) /\ ReportResolveProblem(r) = ""

TurnedAway(line) ==
  /\ stage = "reading" /\ Split[line].problem # ""
  /\ NothingRuns
  /\ UNCHANGED locked

Crashes ==
  /\ stage' = "crashed"
  /\ UNCHANGED <<d, built, locked, script, session, asked, ran>>

Help(line) ==
  /\ stage = "reading" /\ Split[line].problem = "" /\ AsksHelp(line)
  /\ \E r \in {Found(HelpPath(Expanded(line)))} :
       \/ Broken(r) /\ Crashes
       \/ ~Broken(r) /\ NothingRuns /\ UNCHANGED locked

Crash(line, r) == Typed(line) /\ Broken(r) /\ Crashes

NotACommand(line, r) ==
  /\ Typed(line) /\ ~Broken(r) /\ ReportResolveProblem(r) # ""
  /\ NothingRuns
  /\ UNCHANGED locked

Refused(line, r) ==
  /\ Runnable(line, r) /\ Barred(r, line) # ""
  /\ NothingRuns
  /\ UNCHANGED locked

AskPassword(line, r) ==
  /\ Runnable(line, r) /\ Barred(r, line) = "" /\ Hashed(r.cmd)
  /\ stage' = "secret"
  /\ asked' = [cmd |-> r.cmd, line |-> line]
  /\ ran' = NoRun
  /\ UNCHANGED <<d, built, locked, script, session>>

\* A wrong password counts in the command's limiter, which may lock.
WrongPassword ==
  /\ stage = "secret"
  /\ \/ UNCHANGED locked
     \/ /\ asked.cmd \in limited /\ Cardinality(locked) < MaxLocked
        /\ locked' = locked \cup {asked.cmd}
  /\ NothingRuns

LockoutEnds(c) ==
  /\ c \in locked
  /\ locked' = locked \ {c}
  /\ UNCHANGED <<d, stage, built, script, session, asked, ran>>

-----------------------------------------------------------------------------
(* dispatchCommand, for a line without a password or after the right one.  *)

Ready(line, r) ==
  \/ Runnable(line, r) /\ Barred(r, line) = "" /\ ~Hashed(r.cmd)
  \/ stage = "secret" /\ asked.line = line

BadArgs(line, r) ==
  /\ Ready(line, r) /\ ~ArgsFit(r)
  /\ NothingRuns
  /\ UNCHANGED locked

HandlerReturns(r, w) ==
  \/ stage' = "ran" /\ Succeeds(r, w)
  \/ stage' = "ran" /\ MayFail(r, w) /\ UNCHANGED <<level, aliases>>
  \/ /\ Attr[r.cmd].run \in {"exit", "reboot"} /\ stage' = "ended"
     /\ UNCHANGED <<level, aliases>>

Dispatch(line, r) ==
  /\ Ready(line, r) /\ ArgsFit(r)
  /\ \E w \in {Word(r)} :
       \/ Broken(w) /\ Crashes
       \/ /\ ~Broken(w) /\ HandlerReturns(r, w)
          /\ ran' = [cmd |-> r.cmd, negated |-> r.negated, args |-> r.args,
                     stages |-> Split[line].stages, typed |-> asked.cmd]
          /\ asked' = NoRun
          /\ UNCHANGED <<d, built, locked, script, who>>

\* The prompt of the level the handler left the session at.
Prompt ==
  /\ stage = "ran"
  /\ stage' = "reading" /\ ran' = NoRun
  /\ UNCHANGED <<d, built, locked, script, session, asked>>

Startup ==
  \/ LoadTreeStructure \/ VerifyRegisteredCommandsAreReachable
  \/ PruneDisabledCommands \/ AttachPasswordRateLimiters
  \/ VerifyCommandLevels \/ VerifyVendorDefinedSecrets \/ VerifyRoles

Entered(line) ==
  \E r \in {Found(Expanded(line))} :
    \/ Crash(line, r) \/ NotACommand(line, r) \/ Refused(line, r)
    \/ AskPassword(line, r) \/ BadArgs(line, r) \/ Dispatch(line, r)

Next ==
  \/ Startup
  \/ ReplayLine \/ ReplayFails \/ LogIn
  \/ stage = "reading" /\ \E line \in Lines :
       TurnedAway(line) \/ Help(line) \/ Entered(line)
  \/ stage = "secret" /\ Entered(asked.line)
  \/ WrongPassword \/ Prompt
  \/ \E c \in Cmd : LockoutEnds(c)

Spec == Init /\ [][Next]_vars

-----------------------------------------------------------------------------
(* Properties.                                                             *)

Startups ==
  {"load", "reachable", "prune", "limit", "levels", "vendor", "roles", "failed"}

\* Whatever abbreviation, alias or wait for a password a line went through, the
\* session's roles and the entry's own password let the handler run, and its
\* arguments, negation and filters are ones the entry takes.
GatesHold ==
  ran # NoRun =>
    /\ Authorized(who, ran.cmd)
    /\ Hashed(ran.cmd) => ran.typed = ran.cmd
    /\ ran.negated => Attr[ran.cmd].negatable
    /\ ~ran.negated => ValidArgs(ran.cmd, ran.args)
    /\ ran.stages > 0 => Attr[ran.cmd].pageable

\* Whatever aliases were defined, replayed and removed, a line that means
\* something without them, a command or an ambiguity, means the same with them.
SameMeaning(a, b) ==
  /\ a.cmd = b.cmd /\ a.args = b.args /\ a.full = b.full
  /\ a.amb = b.amb /\ a.negated = b.negated
AliasNeverRedirects ==
  stage = "reading" =>
    \A line \in Lines :
      \E r \in {Found(Split[line].words)} :
        r.cmd # NoCmd \/ r.amb # {} => SameMeaning(Found(Expanded(line)), r)

\* Once the trees are built, no level has a command of a feature that is off,
\* of its own, inherited or below another, and only commands of theirs run.
FeatureOffIsGone ==
  stage \notin Startups =>
    /\ \A c \in InTrees : Enabled(c)
    /\ ran # NoRun => ran.cmd \in InTrees

\* A password is only asked for an entry that counts wrong ones, however deep
\* in whichever tree it is.
PromptsAreLimited == stage = "secret" => asked.cmd \in limited

\* The next two are about the trees as built, which no later step changes: it
\* is enough to look once, when startup-config has been replayed.
Built == stage = "replay" /\ script = <<>>
Says(l, toks) == Resolve(kids, trees[l], toks)
WithoutBlank(toks) == IF Blank(toks) THEN SubSeq(toks, 1, Len(toks) - 1) ELSE toks
Completable ==
  {line \in Lines : /\ Split[line].problem = "" /\ Split[line].stages = 0
                    /\ ~AsksFor(line) /\ Noes(line) <= 1}

\* Tab on a line that runs as it stands, at its end or after a space, leaves
\* one that runs the same command in the same way.  (After a command that must
\* be followed by a subcommand Tab adds that; "help" is followed by a line.)
Finished(r) ==
  ~Broken(r) /\ ReportResolveProblem(r) = "" /\ (r.at = "words" => r.runnable)
RunsTheSame(t, r) ==
  /\ t.cmd = r.cmd /\ t.args = r.args /\ t.negated = r.negated /\ t.amb = {}
TabKeepsMeaning ==
  Built =>
    \A l \in Level, line \in Completable :
      \E r \in {Says(l, line)} :
        Finished(r) /\ ~Blank(line) /\ ~IsHelp(trees[l], r.cmd) =>
          \A toks \in {line, Append(line, "")} :
            RunsTheSame(Says(l, WithoutBlank(TabLine(kids, trees[l], toks))), r)

\* What is named to a session, at level l, for the words toks; u are the words
\* left of them when "help" is taken off.  Argument hints name nothing.
\*  - "help", "?" at the keyboard and from a pipe, and Tab list entries;
\*  - "help" describes one, its page, whose head is the last name spelled;
\*  - Tab and that head spell in full what was abbreviated;
\*  - for an ambiguous line runLoop prints the candidates.
Offered(me, l, toks, u) ==
  Listing(trees[l], HelpText(me, trees[l]), FALSE).entries
    \cup HelpForPath(kids, me, toks, Says(l, toks)).entries
    \cup HelpForPath(kids, me, u, Says(l, u)).entries
    \cup DetailedHelp(kids, me, Says(l, toks)).entries
    \cup TabList(me, Says(l, u)).entries
Completions(l, toks, u) ==
  {s.entry : s \in {x \in Spelled(kids, trees[l], toks) \cup Spelled(kids, trees[l], u) :
                     x.name # x.typed}}
Candidates(r) == {r.tree[n] : n \in r.amb}
Secret(c) == Attr[c].hidden \/ Attr[c].vendor # ""
MayBeNamed(me, c) == ~Secret(c) /\ Authorized(me, c)
As(held) == [Nobody EXCEPT !.roles = held]
Inner(l, toks) == Unwrap(kids, trees[l], toks).toks

\* A listing of "help", "?" or Tab names no entry that is hidden, that has a
\* vendor's password, or that the session's roles do not let it run.  Of those
\* first two kinds nothing is spelled in full or proposed for an ambiguous line
\* either: they are named, and have a page of "help" under their names, only to
\* who has typed the names in full.  (An alias is an entry of its own; its page
\* describes what it leads to.  Roles are GatedStayUnnamed's subject.)
SecretsStayUnnamed ==
  Built =>
    \A l \in Level, line \in Completable :
      \A toks \in {line, Append(line, "")} :
        \E u \in {Inner(l, toks)} :
          /\ \A held \in Accounts :
               \A c \in Offered(As(held), l, toks, u) : MayBeNamed(As(held), c)
          /\ \A c \in Completions(l, toks, u) \cup Candidates(Says(l, toks)) : ~Secret(c)

\* "A role gated command must not advertise itself to a session that cannot run
\* it, whichever way that session asked" (command/help.go:39): what it may not
\* run is neither named nor described to it.  The code does not keep this: its
\* listings look at roles, the rest does not.
Described(r) == {DetailedHelp(kids, Nobody, r).page} \ {NoCmd}
GatedStayUnnamed ==
  Built =>
    \A l \in Level, line \in Completable, held \in Accounts :
      \E u \in {Inner(l, line)}, r \in {Says(l, line)} :
        ~Broken(r) =>
          \A c \in UNION {Offered(As(held), l, line, u), Completions(l, line, u),
                          Candidates(r), Described(r)} :
            Authorized(As(held), c)
=============================================================================
