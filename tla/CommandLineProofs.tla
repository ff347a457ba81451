-------------------------- MODULE CommandLineProofs ---------------------------
(***************************************************************************)
(* What loading, the gates, the alias handler, Resolve and the listings    *)
(* promise, for every tree, every deployment and every line.  The model's  *)
(* recursive functions are shown to exist, by induction over numbers and   *)
(* along the parents of the levels.                                        *)
(***************************************************************************)
EXTENDS CommandLine, CommonLemmas

-----------------------------------------------------------------------------
(* Gates.                                                                  *)

\* Gates a line has passed before its command's password is asked for.
Cleared(line, r) ==
  /\ ReportResolveProblem(r) = ""
  /\ Authorized(who, r.cmd)
  /\ Split[line].stages > 0 => Attr[r.cmd].pageable

\* While the password is awaited the line still means what it was cleared for;
\* otherwise nothing is awaited, and only a handler's return leaves a trace.
Awaited ==
  /\ stage = "secret" =>
       /\ asked.cmd = Found(Expanded(asked.line)).cmd
       /\ Cleared(asked.line, Found(Expanded(asked.line)))
  /\ stage \notin {"secret", "crashed"} => asked = NoRun
  /\ stage \notin {"ran", "ended"} => ran = NoRun

GatesInv == Awaited /\ GatesHold

LEMMA NegatedIsBoolean ==
  ASSUME NEW k, NEW t, NEW toks
  PROVE  Resolve(k, t, toks).negated \in BOOLEAN
  BY DEF Resolve, ResolveResult

LEMMA ProblemFree ==
  ASSUME NEW r, ReportResolveProblem(r) = "", r.negated \in BOOLEAN
  PROVE  r.negated => Attr[r.cmd].negatable
  BY DEF ReportResolveProblem

\* A line that is asked about, or runs at once, is cleared.
LEMMA UnbarredIsCleared ==
  ASSUME NEW line, NEW r, Runnable(line, r), Barred(r, line) = ""
  PROVE  Cleared(line, r)
  BY DEF Runnable, Barred, Cleared

LEMMA GatesInit == Init => GatesInv
  BY DEF Init, GatesInv, Awaited, GatesHold, NoRun

\* A step that leaves the session's account and the last run alone, and starts
\* no wait, keeps the invariant.
LEMMA QuietSteps ==
  ASSUME GatesInv, stage' # "secret", stage' \notin {"secret", "crashed"} => asked' = NoRun,
         \/ ran' = NoRun
         \/ UNCHANGED <<ran, who>> /\ (stage' \in {"ran", "ended"} \/ stage \notin {"ran", "ended"})
  PROVE  GatesInv'
  BY DEF GatesInv, Awaited, GatesHold, Authorized, NoRun

\* The line is looked up again after the password: nothing it depends on moved.
LEMMA DispatchHolds ==
  ASSUME GatesInv, NEW line, NEW STATE r, r = Found(Expanded(line)), Dispatch(line, r)
  PROVE  GatesInv'
<1>1. Cleared(line, r) /\ (Hashed(r.cmd) => asked.cmd = r.cmd)
  <2>1. CASE stage = "secret" /\ asked.line = line
    BY <2>1 DEF GatesInv, Awaited
  <2>2. CASE Runnable(line, r) /\ Barred(r, line) = "" /\ ~Hashed(r.cmd)
    BY <2>2, UnbarredIsCleared
  <2> QED BY <2>1, <2>2 DEF Dispatch, Ready
<1>2. CASE Crashes /\ stage \in {"reading", "secret"}
  BY <1>2, QuietSteps DEF Crashes, GatesInv, Awaited
<1>3. CASE \E w : /\ HandlerReturns(r, w)
                  /\ ran' = [cmd |-> r.cmd, negated |-> r.negated, args |-> r.args,
                             stages |-> Split[line].stages, typed |-> asked.cmd]
                  /\ asked' = NoRun
                  /\ who' = who
  <2>1. stage' \in {"ran", "ended"} /\ asked' = NoRun
    BY <1>3 DEF HandlerReturns
  <2>2. r.negated \in BOOLEAN
    BY NegatedIsBoolean DEF Found
  <2>3. GatesHold'
    <3>1. r.negated => Attr[r.cmd].negatable
      BY <1>1, <2>2, ProblemFree DEF Cleared
    <3>2. ~r.negated => ValidArgs(r.cmd, r.args)
      BY DEF Dispatch, ArgsFit
    <3>3. /\ ran'.cmd = r.cmd /\ ran'.negated = r.negated /\ ran'.args = r.args
          /\ ran'.stages = Split[line].stages /\ ran'.typed = asked.cmd
      BY <1>3
    <3>4. Authorized(who', r.cmd)
      BY <1>1, <1>3 DEF Cleared
    <3>5. Authorized(who', ran'.cmd) /\ (Hashed(ran'.cmd) => ran'.typed = ran'.cmd)
      BY <1>1, <3>3, <3>4
    <3>6. ran'.stages > 0 => Attr[ran'.cmd].pageable
      BY <1>1, <3>3 DEF Cleared
    <3>7. ran'.negated => Attr[ran'.cmd].negatable
      BY <3>1, <3>3
    <3>8. ~ran'.negated => ValidArgs(ran'.cmd, ran'.args)
      BY <3>2, <3>3
    <3> QED BY <3>5, <3>6, <3>7, <3>8 DEF GatesHold
  <2> QED BY <2>1, <2>3 DEF GatesInv, Awaited
<1>4. stage \in {"reading", "secret"}
  BY DEF Dispatch, Ready, Runnable, Typed
<1> QED BY <1>2, <1>3, <1>4 DEF Dispatch

LEMMA EnteredHolds ==
  ASSUME GatesInv, NEW line, Entered(line)
  PROVE  GatesInv'
<1> DEFINE r == Found(Expanded(line))
<1>1. CASE Crash(line, r)
  BY <1>1, QuietSteps DEF Crash, Typed, Crashes, GatesInv, Awaited
<1>2. CASE NotACommand(line, r)
  BY <1>2, QuietSteps DEF NotACommand, NothingRuns
<1>3. CASE Refused(line, r)
  BY <1>3, QuietSteps DEF Refused, NothingRuns
<1>4. CASE BadArgs(line, r)
  BY <1>4, QuietSteps DEF BadArgs, NothingRuns
<1>5. CASE Dispatch(line, r)
  BY <1>5, DispatchHolds
<1>6. CASE AskPassword(line, r)
  <2>1. Cleared(line, r)
    BY <1>6, UnbarredIsCleared DEF AskPassword
  <2>2. Cleared(line, r)'
    BY <1>6, <2>1 DEF AskPassword, Cleared, session, built, Found, Expanded, Authorized
  <2>3. r' = r
    BY <1>6 DEF AskPassword, session, built, Found, Expanded
  <2>4. asked'.line = line /\ asked'.cmd = r.cmd /\ stage' = "secret" /\ ran' = NoRun
    BY <1>6 DEF AskPassword
  <2> QED BY <2>2, <2>3, <2>4 DEF GatesInv, Awaited, GatesHold
<1> QED BY <1>1, <1>2, <1>3, <1>4, <1>5, <1>6 DEF Entered

LEMMA GatesStep ==
  ASSUME GatesInv, [Next]_vars
  PROVE  GatesInv'
<1>1. CASE UNCHANGED vars
  BY <1>1 DEF vars, built, session, GatesInv, Awaited, GatesHold, Cleared, Authorized, Found, Expanded
<1>2. CASE Startup
  <2>1. stage' \notin {"secret", "crashed", "ran", "ended"} /\ UNCHANGED <<asked, ran, who>>
    BY <1>2 DEF Startup, LoadTreeStructure, VerifyRegisteredCommandsAreReachable,
         PruneDisabledCommands, AttachPasswordRateLimiters, VerifyCommandLevels,
         VerifyVendorDefinedSecrets, VerifyRoles, Proceed, session
  <2>2. stage \notin {"secret", "crashed", "ran", "ended"}
    BY <1>2 DEF Startup, LoadTreeStructure, VerifyRegisteredCommandsAreReachable,
         PruneDisabledCommands, AttachPasswordRateLimiters, VerifyCommandLevels,
         VerifyVendorDefinedSecrets, VerifyRoles
  <2> QED BY <2>1, <2>2, QuietSteps DEF GatesInv, Awaited
<1>3. CASE ReplayLine \/ ReplayFails \/ LogIn
  BY <1>3, QuietSteps DEF ReplayLine, ReplayFails, LogIn, session, GatesInv, Awaited
<1>4. CASE \E line \in Lines : TurnedAway(line)
  BY <1>4, QuietSteps DEF TurnedAway, NothingRuns
<1>5. CASE \E line \in Lines : Help(line)
  BY <1>5, QuietSteps DEF Help, NothingRuns, Crashes, session, GatesInv, Awaited
<1>6. CASE \E line : Entered(line)
  BY <1>6, EnteredHolds
<1>7. CASE WrongPassword
  BY <1>7, QuietSteps DEF WrongPassword, NothingRuns
<1>8. CASE Prompt
  BY <1>8, QuietSteps DEF Prompt, GatesInv, Awaited
<1>9. CASE \E c \in Cmd : LockoutEnds(c)
  BY <1>9 DEF LockoutEnds, session, built, GatesInv, Awaited, GatesHold, Cleared, Authorized, Found, Expanded
<1> QED BY <1>1, <1>2, <1>3, <1>4, <1>5, <1>6, <1>7, <1>8, <1>9 DEF Next

\* Whoever is logged in, whatever was typed, abbreviated or made an alias, and
\* however long a password took: a handler only runs past every gate of runLoop.
THEOREM GatesAreKept == Spec => []GatesHold
<1>1. Init => GatesInv
  BY GatesInit
<1>2. GatesInv /\ [Next]_vars => GatesInv'
  BY GatesStep
<1>3. GatesInv => GatesHold
  BY DEF GatesInv
<1> QED BY <1>1, <1>2, <1>3, PTL DEF Spec

-----------------------------------------------------------------------------
(* Aliases.                                                                *)

\* In every level an alias is a word no command there answers to, alone or with
\* others, unless it stands for that very command.
AliasesLeaveCommandsAlone ==
  \A l \in Level : \A n \in DOMAIN aliases[l] :
    /\ n # "no"
    /\ ~Redirects(Resolve(kids, trees[l], <<n>>), aliases[l][n])

BuildingTrees == {"load", "reachable", "prune", "limit", "levels", "vendor", "roles"}

\* There are none before the trees are final.
AliasInv ==
  /\ DOMAIN aliases = Level
  /\ stage \in BuildingTrees => \A l \in Level : aliases[l] = NoTree
  /\ AliasesLeaveCommandsAlone

LEMMA AliasInit == Init => AliasInv
<1> SUFFICES ASSUME Init PROVE AliasInv
  OBVIOUS
<1>1. \A l \in Level : aliases[l] = NoTree /\ DOMAIN NoTree = {}
  BY DEF Init, NoTree
<1> QED BY <1>1 DEF Init, AliasInv, AliasesLeaveCommandsAlone

LEMMA AliasSetHolds ==
  ASSUME AliasInv, NEW r, AliasSet(r, Word(r)), UNCHANGED <<trees, kids>>
  PROVE  DOMAIN aliases' = Level /\ AliasesLeaveCommandsAlone'
<1> DEFINE name == r.args[1]
           words == Tail(r.args)
<1>1. /\ aliases' = [aliases EXCEPT ![level] = Aliased(name, words)]
      /\ MayDefine(Word(r), name, words)
  BY DEF AliasSet
<1>2. Word(r) = Resolve(kids, trees[level], <<name>>)
  <2>1. r.args # <<>>
    BY DEF AliasSet
  <2> QED BY <2>1 DEF AliasSet, Word, DefinesAlias, Found
<1>3. name # "no" /\ ~Redirects(Resolve(kids, trees[level], <<name>>), words)
  BY <1>1, <1>2 DEF MayDefine
<1>4. DOMAIN aliases' = Level
  BY <1>1 DEF AliasInv
<1>5. ASSUME NEW l \in Level, NEW n \in DOMAIN aliases'[l]
      PROVE  n # "no" /\ ~Redirects(Resolve(kids, trees[l], <<n>>), aliases'[l][n])
  <2>1. CASE l # level
    <3>1. aliases'[l] = aliases[l]
      BY <1>1, <2>1 DEF AliasInv
    <3> QED BY <3>1 DEF AliasInv, AliasesLeaveCommandsAlone
  <2>2. CASE l = level
    <3>1. aliases'[l] = Aliased(name, words)
      BY <1>1, <2>2 DEF AliasInv
    <3>2. CASE n = name
      <4>1. aliases'[l][n] = words
        BY <3>1, <3>2 DEF Aliased
      <4> QED BY <1>3, <2>2, <3>2, <4>1
    <3>3. CASE n # name
      <4>1. n \in DOMAIN aliases[l] /\ aliases'[l][n] = aliases[l][n]
        BY <2>2, <3>1, <3>3 DEF Aliased
      <4> QED BY <4>1 DEF AliasInv, AliasesLeaveCommandsAlone
    <3> QED BY <3>2, <3>3
  <2> QED BY <2>1, <2>2
<1> QED BY <1>4, <1>5 DEF AliasesLeaveCommandsAlone

LEMMA AliasRemovedHolds ==
  ASSUME AliasInv, NEW r, AliasRemoved(r), UNCHANGED <<trees, kids>>
  PROVE  DOMAIN aliases' = Level /\ AliasesLeaveCommandsAlone'
<1>1. aliases' = [aliases EXCEPT ![level] = Unaliased(r.args[1])]
  BY DEF AliasRemoved
<1>2. ASSUME NEW l \in Level, NEW n \in DOMAIN aliases'[l]
      PROVE  n \in DOMAIN aliases[l] /\ aliases'[l][n] = aliases[l][n]
  BY <1>1, <1>2 DEF AliasInv, Unaliased
<1> QED BY <1>1, <1>2 DEF AliasInv, AliasesLeaveCommandsAlone

LEMMA SucceedsHolds ==
  ASSUME AliasInv, NEW r, Succeeds(r, Word(r)), UNCHANGED <<trees, kids>>
  PROVE  DOMAIN aliases' = Level /\ AliasesLeaveCommandsAlone'
<1>1. CASE Moved(r)
  BY <1>1 DEF Moved, AliasInv, AliasesLeaveCommandsAlone
<1> QED BY <1>1, AliasSetHolds, AliasRemovedHolds DEF Succeeds

LEMMA AliasStep ==
  ASSUME AliasInv, [Next]_vars
  PROVE  AliasInv'
<1>1. ASSUME UNCHANGED aliases, UNCHANGED <<trees, kids>>,
             stage' \in BuildingTrees => stage \in BuildingTrees
      PROVE  AliasInv'
  BY <1>1 DEF AliasInv, AliasesLeaveCommandsAlone
<1>2. CASE Startup
  <2>1. stage \in BuildingTrees /\ UNCHANGED aliases
    BY <1>2 DEF Startup, LoadTreeStructure, VerifyRegisteredCommandsAreReachable,
         PruneDisabledCommands, AttachPasswordRateLimiters, VerifyCommandLevels,
         VerifyVendorDefinedSecrets, VerifyRoles, Proceed, session, BuildingTrees
  <2>2. \A l \in Level : aliases'[l] = NoTree /\ DOMAIN NoTree = {}
    BY <2>1 DEF AliasInv, NoTree
  <2> QED BY <2>1, <2>2 DEF AliasInv, AliasesLeaveCommandsAlone
<1>3. CASE ReplayLine
  <2>1. PICK r : Succeeds(r, Word(r))
    BY <1>3 DEF ReplayLine
  <2>2. stage' = "replay" /\ UNCHANGED <<trees, kids>>
    BY <1>3 DEF ReplayLine, built
  <2> QED BY <2>1, <2>2, SucceedsHolds DEF AliasInv, BuildingTrees
<1>4. CASE ReplayFails \/ LogIn
  BY <1>1, <1>4 DEF ReplayFails, LogIn, session, built, BuildingTrees
<1>5. CASE \E line : TurnedAway(line) \/ Help(line)
  BY <1>1, <1>5 DEF TurnedAway, Help, NothingRuns, Crashes, session, built, BuildingTrees
<1>6. ASSUME NEW line, Entered(line)
      PROVE  AliasInv'
  <2> DEFINE r == Found(Expanded(line))
  <2>1. CASE Crash(line, r) \/ NotACommand(line, r) \/ Refused(line, r) \/ BadArgs(line, r)
    BY <1>1, <2>1 DEF Crash, NotACommand, Refused, BadArgs, NothingRuns, Crashes, session,
         built, BuildingTrees
  <2>2. CASE AskPassword(line, r)
    BY <1>1, <2>2 DEF AskPassword, session, built, BuildingTrees
  <2>3. CASE Dispatch(line, r)
    <3>1. CASE Crashes
      BY <1>1, <3>1 DEF Crashes, session, built, BuildingTrees
    <3>2. CASE HandlerReturns(r, Word(r)) /\ UNCHANGED <<trees, kids>>
      <4>1. stage' \notin BuildingTrees
        BY <3>2 DEF HandlerReturns, BuildingTrees
      <4>2. CASE Succeeds(r, Word(r))
        BY <3>2, <4>1, <4>2, SucceedsHolds DEF AliasInv
      <4>3. CASE UNCHANGED aliases
        BY <1>1, <3>2, <4>1, <4>3
      <4> QED BY <3>2, <4>2, <4>3 DEF HandlerReturns
    <3> QED BY <2>3, <3>1, <3>2 DEF Dispatch, built
  <2> QED BY <1>6, <2>1, <2>2, <2>3 DEF Entered
<1>7. CASE WrongPassword \/ Prompt \/ \E c \in Cmd : LockoutEnds(c)
  BY <1>1, <1>7 DEF WrongPassword, NothingRuns, Prompt, LockoutEnds, session, built, BuildingTrees
<1>8. CASE UNCHANGED vars
  BY <1>1, <1>8 DEF vars, session, built
<1> QED BY <1>2, <1>3, <1>4, <1>5, <1>6, <1>7, <1>8 DEF Next

\* However aliases are defined, replaced by startup-config and removed, none
\* ever takes a word that a command of its level answers to.
THEOREM AliasesAreApart == Spec => []AliasesLeaveCommandsAlone
<1>1. Init => AliasInv
  BY AliasInit
<1>2. AliasInv /\ [Next]_vars => AliasInv'
  BY AliasStep
<1>3. AliasInv => AliasesLeaveCommandsAlone
  BY DEF AliasInv
<1> QED BY <1>1, <1>2, <1>3, PTL DEF Spec

-----------------------------------------------------------------------------
(* Trees, and what is below them.                                          *)

Words == DOMAIN Begins

LEMMA TreeIsFinite ==
  ASSUME NEW tree, IsTree(tree)
  PROVE  IsFiniteSet(DOMAIN tree) /\ Cardinality(DOMAIN tree) \in Nat
<1>1. DOMAIN tree \in SUBSET Words /\ IsFiniteSet(Words)
  BY CommandLineAssumption DEF IsTree, Words
<1> QED BY <1>1, FS_Subset, FS_CardinalityType

LEMMA ChaseStays ==
  ASSUME NEW tree, IsTree(tree), NEW c \in Entries(tree)
  PROVE  Chase(tree, c) \in Entries(tree) \cup {NoCmd}
<1> DEFINE n == Cardinality(DOMAIN tree)
           V == Entries(tree) \cup {NoCmd}
           chain[k \in 0..n] == IF k = 0 THEN c ELSE Target(tree, chain[k - 1])
<1>1. n \in Nat
  BY TreeIsFinite
<1>2. ASSUME NEW v \in V PROVE Target(tree, v) \in V
  BY DEF Target, Entries
<1>3. chain = [k \in 0..n |-> IF k = 0 THEN c ELSE Target(tree, chain[k - 1])]
  <2> DEFINE G == [p \in V \X (1..n) |-> Target(tree, p[1])]
             F(g) == [k \in 0..n |-> IF k = 0 THEN c ELSE Target(tree, g[k - 1])]
  <2>1. G \in [V \X (1..n) -> V]
    BY <1>2
  <2>2. c \in V
    OBVIOUS
  <2>3. PICK g \in [0..n -> V] : Stepwise(g, n, c, G)
    <3> HIDE DEF G, V, n
    <3> QED BY <1>1, <2>1, <2>2, Steps
  <2>4. g[0] = c /\ \A k \in 1..n : g[k] = G[<<g[k - 1], k>>]
    <3> HIDE DEF G
    <3> QED BY <2>3 DEF Stepwise
  <2>5. ASSUME NEW k \in 1..n PROVE G[<<g[k - 1], k>>] = Target(tree, g[k - 1])
    <3>1. g[k - 1] \in V
      BY <1>1
    <3>2. <<g[k - 1], k>> \in V \X (1..n)
      BY <3>1
    <3> QED BY <3>2
  <2>6. g[0] = c /\ \A k \in 1..n : g[k] = Target(tree, g[k - 1])
    <3> HIDE DEF G
    <3> QED BY <2>4, <2>5
  <2>7. g = F(g)
    <3>1. \A k \in 0..n : g[k] = IF k = 0 THEN c ELSE Target(tree, g[k - 1])
      BY <1>1, <2>6
    <3> HIDE DEF V, n
    <3> QED BY <3>1
  <2> QED BY <2>7
<1> HIDE DEF chain
<1>4. chain[0] = c /\ \A k \in 1..n : chain[k] = Target(tree, chain[k - 1])
  BY <1>1, <1>3
<1>5. n \in {k \in 0..n : chain[k] \in V}
  <2> DEFINE S == {k \in 0..n : chain[k] \in V}
  <2>1. 0 \in S
    BY <1>1, <1>4
  <2>2. ASSUME NEW i \in 0..(n - 1), i \in S PROVE i + 1 \in S
    <3>1. i + 1 \in 1..n /\ (i + 1) - 1 = i
      BY <1>1
    <3> QED BY <1>2, <1>4, <2>2, <3>1
  <2>3. 0..n \subseteq S
    <3> HIDE DEF S, n
    <3> QED BY <1>1, <2>1, <2>2, Induct
  <2> QED BY <1>1, <2>3
<1>6. Chase(tree, c) = IF Attr[c].alias = "" THEN c ELSE chain[n]
  BY DEF Chase, chain
<1> QED BY <1>5, <1>6

LEMMA EntriesAreCommands ==
  ASSUME NEW tree, IsTree(tree)
  PROVE  Entries(tree) \subseteq Cmd
  BY DEF IsTree, Entries

\* U holds what is in a tree and below it.
Family(k, tree, U) ==
  /\ IsTree(tree) /\ U \subseteq Cmd /\ Entries(tree) \subseteq U
  /\ \A c \in U : IsTree(k[c]) /\ Entries(k[c]) \subseteq U

Forest(k) == \A c \in Cmd : IsTree(k[c])

LEMMA BelowStays ==
  ASSUME NEW k, Forest(k), NEW cs \in SUBSET Cmd
  PROVE  Below(k, cs) \in SUBSET Cmd /\ cs \subseteq Below(k, cs)
<1>1. \A c \in cs : Entries(k[c]) \subseteq Cmd
  BY EntriesAreCommands DEF Forest
<1> QED BY <1>1 DEF Below

\* reach goes on growing until nothing is left to add, and there are no more
\* commands than steps.
LEMMA UnderIsAll ==
  ASSUME NEW k, Forest(k), NEW tree, IsTree(tree)
  PROVE  /\ Family(k, tree, Under(k, tree))
         /\ \A c \in Under(k, tree) :
              c \in Entries(tree) \/ \E p \in Cmd : c \in Entries(k[p])
<1> DEFINE n == Cardinality(Cmd)
           V == SUBSET Cmd
           a == Entries(tree)
           reach[i \in 0..n] == IF i = 0 THEN a ELSE Below(k, reach[i - 1])
<1>1. n \in Nat /\ IsFiniteSet(Cmd)
  BY CommandLineAssumption, FS_CardinalityType
<1>2. a \in V
  BY EntriesAreCommands
<1>3. reach = [i \in 0..n |-> IF i = 0 THEN a ELSE Below(k, reach[i - 1])]
  <2> DEFINE G == [p \in V \X (1..n) |-> Below(k, p[1])]
             F(g) == [i \in 0..n |-> IF i = 0 THEN a ELSE Below(k, g[i - 1])]
  <2>1. G \in [V \X (1..n) -> V]
    BY BelowStays
  <2>2. PICK g \in [0..n -> V] : Stepwise(g, n, a, G)
    <3> HIDE DEF G, V, n, a
    <3> QED BY <1>1, <1>2, <2>1, Steps
  <2>3. g[0] = a /\ \A i \in 1..n : g[i] = G[<<g[i - 1], i>>]
    <3> HIDE DEF G
    <3> QED BY <2>2 DEF Stepwise
  <2>4. ASSUME NEW i \in 1..n PROVE G[<<g[i - 1], i>>] = Below(k, g[i - 1])
    <3>1. g[i - 1] \in V
      BY <1>1
    <3>2. <<g[i - 1], i>> \in V \X (1..n)
      BY <3>1
    <3> QED BY <3>2
  <2>5. g = F(g)
    <3>1. \A i \in 1..n : g[i] = Below(k, g[i - 1])
      <4> HIDE DEF G
      <4> QED BY <2>3, <2>4
    <3>2. \A i \in 0..n : g[i] = IF i = 0 THEN a ELSE Below(k, g[i - 1])
      BY <1>1, <2>3, <3>1
    <3> HIDE DEF V, n, a
    <3> QED BY <3>2
  <2> QED BY <2>5
<1> HIDE DEF reach
<1>4. reach[0] = a /\ \A i \in 1..n : reach[i] = Below(k, reach[i - 1])
  BY <1>1, <1>3
<1>5. Under(k, tree) = reach[n]
  BY DEF Under, reach
<1> DEFINE Filled(X) == \A c \in X : c \in a \/ \E p \in Cmd : c \in Entries(k[p])
           S == {i \in 0..n : /\ reach[i] \in V /\ a \subseteq reach[i] /\ Filled(reach[i])
                              /\ Below(k, reach[i]) = reach[i] \/ Cardinality(reach[i]) >= i}
<1>6. 0 \in S
  <2>1. IsFiniteSet(a)
    BY <1>1, <1>2, FS_Subset
  <2>2. Cardinality(a) \in Nat
    BY <2>1, FS_CardinalityType
  <2> QED BY <1>1, <1>2, <1>4, <2>2
<1>7. ASSUME NEW i \in 0..(n - 1), i \in S PROVE i + 1 \in S
  <2> DEFINE X == reach[i]
             Y == reach[i + 1]
  <2>1. i + 1 \in 1..n /\ (i + 1) - 1 = i /\ i \in Nat
    BY <1>1
  <2>2. Y = Below(k, X)
    BY <1>4, <2>1
  <2>3. /\ X \in V /\ a \subseteq X /\ Filled(X)
        /\ Below(k, X) = X \/ Cardinality(X) >= i
    BY <1>7
  <2> HIDE DEF X
  <2>4. Y \in V /\ X \subseteq Y
    BY <2>2, <2>3, BelowStays
  <2>5. Filled(Y)
    BY <2>2, <2>3 DEF Below
  <2>6. CASE Y = X
    <3>1. Below(k, Y) = Y
      BY <2>2, <2>6
    <3> QED BY <2>1, <2>3, <2>4, <2>5, <2>6, <3>1
  <2>7. CASE Y # X
    <3>1. Cardinality(X) >= i
      BY <2>2, <2>3, <2>7
    <3>2. IsFiniteSet(Y)
      BY <1>1, <2>4, FS_Subset
    <3>3. Cardinality(X) <= Cardinality(Y) /\ Cardinality(X) # Cardinality(Y) /\ IsFiniteSet(X)
      BY <2>4, <2>7, <3>2, FS_Subset
    <3>4. Cardinality(X) \in Nat /\ Cardinality(Y) \in Nat
      BY <3>2, <3>3, FS_CardinalityType
    <3>5. Cardinality(Y) >= i + 1
      BY <2>1, <3>1, <3>3, <3>4
    <3> QED BY <2>1, <2>3, <2>4, <2>5, <3>5
  <2> QED BY <2>6, <2>7
<1>8. 0..n \subseteq S
  <2> HIDE DEF S, n
  <2> QED BY <1>1, <1>6, <1>7, Induct
<1> DEFINE U == reach[n]
<1>9. /\ U \in V /\ a \subseteq U /\ Filled(U)
      /\ Below(k, U) = U \/ Cardinality(U) >= n
  <2>1. n \in 0..n
    BY <1>1
  <2> QED BY <1>8, <2>1
<1>10. Below(k, U) = U
  <2> HIDE DEF U
  <2> SUFFICES ASSUME Cardinality(U) >= n PROVE Below(k, U) = U
    BY <1>9
  <2>1. Cardinality(U) <= n /\ (n = Cardinality(U) => Cmd = U) /\ IsFiniteSet(U)
    BY <1>1, <1>9, FS_Subset
  <2>2. Cardinality(U) \in Nat
    BY <2>1, FS_CardinalityType
  <2>3. U = Cmd
    BY <1>1, <2>1, <2>2
  <2> QED BY <1>9, <2>3, BelowStays
<1>11. \A c \in U : IsTree(k[c]) /\ Entries(k[c]) \subseteq U
  BY <1>9, <1>10 DEF Below, Forest
<1> QED BY <1>5, <1>9, <1>11 DEF Family

-----------------------------------------------------------------------------
(* Resolve and Tab.                                                        *)

\* Where a walk through such a tree can be.
Start(tree) ==
  [at |-> "words", cmd |-> NoCmd, tree |-> tree, full |-> <<>>, args |-> <<>>, amb |-> {}]
TreesOf(k, tree, U) == {tree} \cup {k[c] : c \in U}
Records(k, tree, U) ==
  [at : {"words", "arguments", "ambiguous", "broken"}, cmd : U \cup {NoCmd},
   tree : TreesOf(k, tree, U), full : Seq(Words), args : Seq(Words), amb : SUBSET Words]
Apart(w) ==
  /\ w.at # "ambiguous" => w.amb = {}
  /\ \A n \in w.amb : n \in DOMAIN w.tree /\ ~Attr[w.tree[n]].hidden
Places(k, tree, U) == {w \in Records(k, tree, U) : Apart(w)}

LEMMA TreesOfAreTrees ==
  ASSUME NEW k, NEW tree, NEW U, Family(k, tree, U), NEW t \in TreesOf(k, tree, U)
  PROVE  IsTree(t) /\ Entries(t) \subseteq U /\ DOMAIN t \subseteq Words \ {""}
  BY DEF Family, TreesOf, IsTree, Words

LEMMA FollowStays ==
  ASSUME NEW k, NEW tree, NEW U, Family(k, tree, U),
         NEW w \in Places(k, tree, U), w.at = "words", NEW n \in DOMAIN w.tree
  PROVE  FollowName(k, w, n) \in Places(k, tree, U)
<1> DEFINE c == Chase(w.tree, w.tree[n])
<1>1. w \in Records(k, tree, U) /\ w.amb = {}
  BY DEF Places, Apart
<1>2. w.tree \in TreesOf(k, tree, U) /\ w.full \in Seq(Words)
  BY <1>1 DEF Records
<1>3. IsTree(w.tree) /\ Entries(w.tree) \subseteq U /\ n \in Words
  BY <1>2, TreesOfAreTrees
<1>4. c \in U \cup {NoCmd}
  <2>1. w.tree[n] \in Entries(w.tree)
    BY DEF Entries
  <2> QED BY <1>3, <2>1, ChaseStays
<1> HIDE DEF c
<1>5. CASE Dangling(c)
  <2>1. FollowName(k, w, n) = [w EXCEPT !.at = "broken"]
    BY <1>5 DEF FollowName, Follow, c
  <2>2. [w EXCEPT !.at = "broken"] \in Records(k, tree, U)
    BY <1>1 DEF Records
  <2>3. Apart([w EXCEPT !.at = "broken"])
    BY <1>1 DEF Apart, Records
  <2> QED BY <2>1, <2>2, <2>3 DEF Places
<1>6. CASE ~Dangling(c)
  <2> DEFINE v == [w EXCEPT !.cmd = c, !.full = Append(@, n),
                   !.tree = IF k[c] = NoTree THEN @ ELSE k[c],
                   !.at = IF k[c] = NoTree THEN "arguments" ELSE "words"]
  <2>1. FollowName(k, w, n) = v
    BY <1>6 DEF FollowName, Follow, c
  <2>2. c \in U /\ k[c] \in TreesOf(k, tree, U)
    BY <1>4, <1>6 DEF Dangling, TreesOf
  <2>3. Append(w.full, n) \in Seq(Words)
    BY <1>2, <1>3
  <2>4. v \in Records(k, tree, U)
    BY <1>1, <2>2, <2>3 DEF Records
  <2>5. v.amb = {}
    BY <1>1 DEF Records
  <2> QED BY <2>1, <2>4, <2>5 DEF Places, Apart
<1> QED BY <1>5, <1>6

LEMMA StepStays ==
  ASSUME NEW k, NEW tree, NEW U, Family(k, tree, U),
         NEW w \in Places(k, tree, U), NEW tok \in Words
  PROVE  Step(k, w, tok) \in Places(k, tree, U)
<1>1. w \in Records(k, tree, U) /\ Apart(w)
  BY DEF Places
<1>2. w.at \in {"words", "arguments", "ambiguous", "broken"} /\ Append(w.args, tok) \in Seq(Words)
  BY <1>1 DEF Records
<1>3. CASE w.at = "arguments"
  <2> DEFINE v == [w EXCEPT !.args = Append(@, tok)]
  <2>1. Step(k, w, tok) = v
    BY <1>3 DEF Step
  <2>2. v \in Records(k, tree, U) /\ v.at = w.at /\ v.amb = w.amb /\ v.tree = w.tree
    BY <1>1, <1>2 DEF Records
  <2> QED BY <1>1, <2>1, <2>2 DEF Places, Apart
<1>4. CASE w.at \in {"ambiguous", "broken"}
  <2>1. Step(k, w, tok) = w
    BY <1>4 DEF Step
  <2> QED BY <2>1
<1>5. CASE w.at = "words"
  <2> DEFINE names == StandsFor(w, tok)
  <2>1. Step(k, w, tok) = Choose(k, w, tok, names)
    BY <1>5 DEF Step
  <2>2. names \subseteq DOMAIN w.tree
    BY DEF StandsFor, Visible
  <2> HIDE DEF names
  <2>3. CASE names # {}
    <3>1. (CHOOSE n \in names : TRUE) \in DOMAIN w.tree
      BY <2>2, <2>3
    <3>2. Choose(k, w, tok, names) = FollowName(k, w, CHOOSE n \in names : TRUE)
      BY <2>3 DEF Choose
    <3> QED BY <1>5, <2>1, <3>1, <3>2, FollowStays
  <2>4. CASE names = {} /\ Visible(w.tree, tok) = {}
    <3> DEFINE v == [w EXCEPT !.args = Append(@, tok), !.at = "arguments"]
    <3>1. Step(k, w, tok) = v
      BY <2>1, <2>4 DEF Choose
    <3>2. v \in Records(k, tree, U) /\ v.amb = w.amb
      BY <1>1, <1>2 DEF Records
    <3>3. w.amb = {}
      BY <1>1, <1>5 DEF Apart
    <3> QED BY <3>1, <3>2, <3>3 DEF Places, Apart
  <2>5. CASE names = {} /\ Visible(w.tree, tok) # {}
    <3> DEFINE vis == Visible(w.tree, tok)
               v == [w EXCEPT !.amb = vis, !.at = "ambiguous"]
    <3>1. Step(k, w, tok) = v
      BY <2>1, <2>5 DEF Choose
    <3>2. w.tree \in TreesOf(k, tree, U)
      BY <1>1 DEF Records
    <3>3. vis \subseteq Words
      BY <3>2, TreesOfAreTrees DEF Visible
    <3>4. \A n \in vis : n \in DOMAIN w.tree /\ ~Attr[w.tree[n]].hidden
      BY DEF Visible
    <3> HIDE DEF vis
    <3>5. v \in Records(k, tree, U) /\ v.amb = vis /\ v.tree = w.tree /\ v.at = "ambiguous"
      BY <1>1, <3>3 DEF Records
    <3> QED BY <3>1, <3>4, <3>5 DEF Places, Apart
  <2> QED BY <2>3, <2>4, <2>5
<1> QED BY <1>2, <1>3, <1>4, <1>5

Walked(g, k, tree, toks) ==
  /\ g[0] = Start(tree)
  /\ \A i \in 1..Len(toks) : g[i] = Step(k, g[i - 1], toks[i])

LEMMA WalkStays ==
  ASSUME NEW k, NEW tree, NEW U, Family(k, tree, U), NEW toks \in Seq(Words)
  PROVE  \E g \in [0..Len(toks) -> Places(k, tree, U)] :
           Walked(g, k, tree, toks) /\ Walk(k, tree, toks) = g[Len(toks)]
<1> DEFINE n == Len(toks)
           V == Places(k, tree, U)
           walked[i \in 0..n] ==
             IF i = 0
             THEN [at |-> "words", cmd |-> NoCmd, tree |-> tree,
                   full |-> <<>>, args |-> <<>>, amb |-> {}]
             ELSE Step(k, walked[i - 1], toks[i])
           F(g) == [i \in 0..n |->
                      IF i = 0
                      THEN [at |-> "words", cmd |-> NoCmd, tree |-> tree,
                            full |-> <<>>, args |-> <<>>, amb |-> {}]
                      ELSE Step(k, g[i - 1], toks[i])]
           G == [p \in V \X (1..n) |-> Step(k, p[1], toks[p[2]])]
<1>1. n \in Nat /\ \A i \in 1..n : toks[i] \in Words
  OBVIOUS
<1>2. Start(tree) \in V
  <2>1. Start(tree) \in Records(k, tree, U)
    BY DEF Start, Records, TreesOf
  <2>2. Apart(Start(tree))
    BY DEF Start, Apart
  <2> QED BY <2>1, <2>2 DEF Places
<1>3. \A p \in V \X (1..n) : Step(k, p[1], toks[p[2]]) \in V
  <2> SUFFICES ASSUME NEW p \in V \X (1..n) PROVE Step(k, p[1], toks[p[2]]) \in V
    OBVIOUS
  <2>1. p[1] \in V /\ toks[p[2]] \in Words
    BY <1>1
  <2> QED BY <2>1, StepStays
<1>4. PICK g \in [0..n -> V] : Stepwise(g, n, Start(tree), G)
  <2>1. G \in [V \X (1..n) -> V]
    BY <1>3
  <2> HIDE DEF G, V, n
  <2> QED BY <1>1, <1>2, <2>1, Steps
<1>5. g[0] = Start(tree) /\ \A i \in 1..n : g[i] = Step(k, g[i - 1], toks[i])
  <2>1. g[0] = Start(tree) /\ \A i \in 1..n : g[i] = G[<<g[i - 1], i>>]
    <3> HIDE DEF G
    <3> QED BY <1>4 DEF Stepwise
  <2>2. ASSUME NEW i \in 1..n PROVE G[<<g[i - 1], i>>] = Step(k, g[i - 1], toks[i])
    <3>1. g[i - 1] \in V
      BY <1>1
    <3>2. <<g[i - 1], i>> \in V \X (1..n)
      BY <3>1
    <3> QED BY <3>2
  <2> HIDE DEF G
  <2> QED BY <2>1, <2>2
<1>6. g = F(g)
  <2>1. \A i \in 0..n : g[i] = IF i = 0
                               THEN [at |-> "words", cmd |-> NoCmd, tree |-> tree,
                                     full |-> <<>>, args |-> <<>>, amb |-> {}]
                               ELSE Step(k, g[i - 1], toks[i])
    BY <1>1, <1>5 DEF Start
  <2> HIDE DEF V, n
  <2> QED BY <2>1
<1>7. walked = F(walked)
  BY <1>6
<1> HIDE DEF walked
<1>8. Walk(k, tree, toks) = walked[n]
  BY DEF Walk, walked
<1>9. walked[0] = Start(tree) /\ \A i \in 1..n : walked[i] = Step(k, walked[i - 1], toks[i])
  <2>1. walked = [i \in 0..n |-> IF i = 0 THEN Start(tree) ELSE Step(k, walked[i - 1], toks[i])]
    BY <1>7 DEF Start
  <2>2. \A i \in 0..n : walked[i] = IF i = 0 THEN Start(tree) ELSE Step(k, walked[i - 1], toks[i])
    BY <2>1
  <2>3. 0 \in 0..n /\ \A i \in 1..n : i \in 0..n /\ i # 0
    BY <1>1
  <2> HIDE DEF n, V, F
  <2> QED BY <2>2, <2>3
<1>10. \A i \in 0..n : walked[i] = g[i]
  <2> DEFINE S == {i \in 0..n : walked[i] = g[i]}
  <2>1. 0 \in S
    BY <1>1, <1>5, <1>9
  <2>2. ASSUME NEW i \in 0..(n - 1), i \in S PROVE i + 1 \in S
    <3>1. i + 1 \in 1..n /\ (i + 1) - 1 = i
      BY <1>1
    <3>2. walked[i + 1] = Step(k, walked[i], toks[i + 1])
      BY <1>9, <3>1
    <3>3. g[i + 1] = Step(k, g[i], toks[i + 1])
      BY <1>5, <3>1
    <3> QED BY <2>2, <3>1, <3>2, <3>3
  <2>3. 0..n \subseteq S
    <3> HIDE DEF S, n
    <3> QED BY <1>1, <2>1, <2>2, Induct
  <2> QED BY <2>3
<1>11. Walk(k, tree, toks) = g[n]
  BY <1>1, <1>8, <1>10
<1> QED BY <1>5, <1>11 DEF Walked

LEMMA NoesAreLeading ==
  ASSUME NEW toks \in Seq(Words)
  PROVE  /\ Noes(toks) \in 0..Len(toks)
         /\ \A i \in 1..Noes(toks) : toks[i] = "no"
         /\ Noes(toks) < Len(toks) => toks[Noes(toks) + 1] # "no"
<1> DEFINE T == {j \in 0..Len(toks) : j < Len(toks) => toks[j + 1] # "no"}
<1>1. Len(toks) \in T /\ T \subseteq Nat
  OBVIOUS
<1>2. PICK m \in T : \A j \in T : m <= j
  BY <1>1, Least
<1>3. ASSUME NEW i \in 1..m PROVE toks[i] = "no"
  <2>1. i - 1 \in 0..Len(toks) /\ i - 1 < Len(toks) /\ (i - 1) + 1 = i /\ ~(m <= i - 1)
    OBVIOUS
  <2>2. i - 1 \notin T
    BY <1>2, <2>1
  <2> QED BY <2>1, <2>2
<1> QED BY <1>3 DEF Noes

LEMMA ResolveStays ==
  ASSUME NEW k, NEW tree, NEW U, Family(k, tree, U), NEW toks \in Seq(Words)
  PROVE  LET r == Resolve(k, tree, toks)
         IN /\ r.cmd \in U \cup {NoCmd} /\ r.tree \in TreesOf(k, tree, U)
            /\ r.full \in Seq(Words) /\ r.args \in Seq(Words)
            /\ \A n \in r.amb : n \in DOMAIN r.tree /\ ~Attr[r.tree[n]].hidden
<1> DEFINE rest == WithoutNo(toks, Noes(toks))
           w == Walk(k, tree, rest)
           r == Resolve(k, tree, toks)
<1>1. rest \in Seq(Words)
  BY NoesAreLeading DEF WithoutNo
<1> HIDE DEF rest
<1>2. w \in Places(k, tree, U)
  <2>1. PICK g \in [0..Len(rest) -> Places(k, tree, U)] : w = g[Len(rest)]
    BY <1>1, WalkStays
  <2> QED BY <1>1, <2>1
<1>3. r.cmd = w.cmd /\ r.tree = w.tree /\ r.full = w.full /\ r.args = w.args /\ r.amb = w.amb
  BY DEF Resolve, ResolveResult, rest
<1> HIDE DEF r, w
<1>4. /\ w.cmd \in U \cup {NoCmd} /\ w.tree \in TreesOf(k, tree, U)
      /\ w.full \in Seq(Words) /\ w.args \in Seq(Words)
  BY <1>2 DEF Places, Records
<1>5. \A n \in w.amb : n \in DOMAIN w.tree /\ ~Attr[w.tree[n]].hidden
  BY <1>2 DEF Places, Apart
<1>6. /\ r.cmd \in U \cup {NoCmd} /\ r.tree \in TreesOf(k, tree, U)
      /\ r.full \in Seq(Words) /\ r.args \in Seq(Words)
      /\ \A n \in r.amb : n \in DOMAIN r.tree /\ ~Attr[r.tree[n]].hidden
  BY <1>3, <1>4, <1>5
<1> QED BY <1>6 DEF r

LEMMA UnwrapStays ==
  ASSUME NEW k, NEW tree, NEW U, Family(k, tree, U), NEW toks \in Seq(Words)
  PROVE  Unwrap(k, tree, toks).toks \in Seq(Words)
<1> DEFINE n == Len(toks)
           V == [prefix : Seq(Words), toks : Seq(Words)]
           a == [prefix |-> <<>>, toks |-> toks]
           Turn(p) == Unwrapped(tree, p, Resolve(k, tree, p.toks))
           inner[i \in 0..n] ==
             IF i = 0 THEN [prefix |-> <<>>, toks |-> toks]
             ELSE Unwrapped(tree, inner[i - 1], Resolve(k, tree, inner[i - 1].toks))
           F(g) == [i \in 0..n |->
                      IF i = 0 THEN [prefix |-> <<>>, toks |-> toks]
                      ELSE Unwrapped(tree, g[i - 1], Resolve(k, tree, g[i - 1].toks))]
           G == [p \in V \X (1..n) |-> Turn(p[1])]
<1>1. n \in Nat /\ a \in V
  OBVIOUS
<1>2. ASSUME NEW p \in V PROVE Turn(p) \in V
  <2> DEFINE r == Resolve(k, tree, p.toks)
  <2>1. r.full \in Seq(Words) /\ r.args \in Seq(Words)
    BY ResolveStays
  <2> HIDE DEF r
  <2>2. p.prefix \o r.full \in Seq(Words)
    BY <2>1
  <2>3. Unwrapped(tree, p, r) \in V
    BY <2>1, <2>2 DEF Unwrapped
  <2> QED BY <2>3 DEF r
<1>3. PICK g \in [0..n -> V] : Stepwise(g, n, a, G)
  <2>1. G \in [V \X (1..n) -> V]
    BY <1>2
  <2> HIDE DEF G, V, n, a
  <2> QED BY <1>1, <2>1, Steps
<1>4. g[0] = a /\ \A i \in 1..n : g[i] = Turn(g[i - 1])
  <2>1. g[0] = a /\ \A i \in 1..n : g[i] = G[<<g[i - 1], i>>]
    <3> HIDE DEF G
    <3> QED BY <1>3 DEF Stepwise
  <2>2. ASSUME NEW i \in 1..n PROVE G[<<g[i - 1], i>>] = Turn(g[i - 1])
    <3> HIDE DEF V, Turn
    <3>1. g[i - 1] \in V
      BY <1>1
    <3>2. <<g[i - 1], i>> \in V \X (1..n)
      BY <3>1
    <3> QED BY <3>2
  <2> HIDE DEF G, Turn
  <2> QED BY <2>1, <2>2
<1>5. g = F(g)
  <2>1. \A i \in 0..n : g[i] = IF i = 0 THEN a ELSE Turn(g[i - 1])
    <3> HIDE DEF Turn, V, a
    <3> QED BY <1>1, <1>4
  <2> HIDE DEF V, n
  <2> QED BY <2>1
<1>6. inner = F(inner)
  BY <1>5
<1> HIDE DEF inner
<1>7. Unwrap(k, tree, toks) = inner[n]
  BY DEF Unwrap, inner
<1>8. \A i \in 0..n : inner[i] = IF i = 0 THEN a ELSE Turn(inner[i - 1])
  BY <1>6
<1>9. 0..n \subseteq {i \in 0..n : inner[i] \in V}
  <2> DEFINE S == {i \in 0..n : inner[i] \in V}
  <2> HIDE DEF V, Turn, a
  <2>1. 0 \in S
    BY <1>1, <1>8
  <2>2. ASSUME NEW i \in 0..(n - 1), i \in S PROVE i + 1 \in S
    <3>1. i + 1 \in 0..n /\ (i + 1) - 1 = i /\ i + 1 # 0
      BY <1>1
    <3>2. inner[i + 1] = Turn(inner[i])
      BY <1>8, <3>1
    <3> QED BY <1>2, <2>2, <3>1, <3>2
  <2> HIDE DEF S, n
  <2> QED BY <1>1, <2>1, <2>2, Induct DEF S
<1>10. inner[n] \in V
  <2> HIDE DEF V
  <2> QED BY <1>1, <1>9
<1> QED BY <1>7, <1>10

-----------------------------------------------------------------------------
(* The levels.                                                             *)

LEMMA LevelRank ==
  /\ Cardinality(Level) \in Nat
  /\ \E rank \in [Level -> 0..Cardinality(Level)] : Ranked(rank, Level, Parent, {Base})
  BY CommandLineAssumption, FS_CardinalityType DEF LevelsRank, Ranked

LEMMA AboveIsLevels ==
  ASSUME NEW l \in Level
  PROVE  Above(l) \subseteq Level
<1> DEFINE n == Cardinality(Level)
           V == SUBSET Level
           Over(k, s) == {Parent[k]} \cup s
           up[k \in Level] == IF k = Base THEN {} ELSE {Parent[k]} \cup up[Parent[k]]
           F(g) == [k \in Level |-> IF k = Base THEN {} ELSE {Parent[k]} \cup g[Parent[k]]]
           a == [k \in Level |-> {}]
           G == [p \in Level \X V |-> ({Parent[p[1]]} \cap Level) \cup p[2]]
<1>1. n \in Nat
  BY LevelRank
<1>2. PICK rank \in [Level -> 0..n] : Ranked(rank, Level, Parent, {Base})
  BY LevelRank
<1>3. a \in [Level -> V] /\ G \in [Level \X V -> V]
  OBVIOUS
<1>4. PICK f \in [Level -> V] : ByParents(f, Level, Parent, {Base}, a, G)
  <2> HIDE DEF n, V, a, G
  <2> QED BY <1>1, <1>2, <1>3, Descent
<1>5. \A k \in Level : f[k] = IF k = Base THEN {} ELSE {Parent[k]} \cup f[Parent[k]]
  <2>1. \A k \in Level : f[k] = IF k \in {Base} THEN a[k] ELSE G[<<k, f[Parent[k]]>>]
    <3> HIDE DEF a, G
    <3> QED BY <1>4 DEF ByParents
  <2>2. ASSUME NEW k \in Level \ {Base}
        PROVE  G[<<k, f[Parent[k]]>>] = {Parent[k]} \cup f[Parent[k]]
    <3>1. Parent[k] \in Level /\ f[Parent[k]] \in V
      BY <1>2 DEF Ranked
    <3>2. <<k, f[Parent[k]]>> \in Level \X V
      BY <3>1
    <3> HIDE DEF V
    <3>3. G[<<k, f[Parent[k]]>>] = ({Parent[k]} \cap Level) \cup f[Parent[k]]
      BY <3>2
    <3> QED BY <3>1, <3>3
  <2>3. \A k \in Level : a[k] = {}
    OBVIOUS
  <2> HIDE DEF a, G
  <2> QED BY <2>1, <2>2, <2>3
<1>6. f = F(f)
  <2> HIDE DEF V
  <2> QED BY <1>5
<1>7. up = F(up)
  BY <1>6
<1> HIDE DEF up
<1>8. Above(l) = up[l]
  BY DEF Above, up
<1>9. Level \subseteq {k \in Level : up[k] \in V}
  <2> DEFINE S == {k \in Level : up[k] \in V}
  <2>1. \A k \in Level : up[k] = IF k = Base THEN {} ELSE {Parent[k]} \cup up[Parent[k]]
    BY <1>7
  <2>2. Level \cap {Base} \subseteq S
    BY <2>1
  <2>3. ASSUME NEW k \in Level \ {Base}, Parent[k] \in S PROVE k \in S
    BY <2>1, <2>3
  <2>4. HandedDown(S, Level, Parent, {Base})
    BY <2>2, <2>3 DEF HandedDown
  <2> HIDE DEF S, n
  <2>5. Level \subseteq S
    BY <1>1, <1>2, <2>4, AlongParents
  <2> QED BY <2>5 DEF S
<1> QED BY <1>8, <1>9

LEMMA LeavesAtALevel ==
  ASSUME level \in Level, NEW h
  PROVE  MayLeaveAt(h) \subseteq Level
  BY AboveIsLevels DEF MayLeaveAt

-----------------------------------------------------------------------------
(* The trees of the levels.                                                *)

DiskTrees == UNION {[N -> Cmd] : N \in SUBSET (Words \ {"", "no"})}

LEMMA DiskTreeInSet ==
  ASSUME NEW t
  PROVE  DiskTree(t) <=> t \in DiskTrees
<1>1. ASSUME DiskTree(t) PROVE t \in DiskTrees
  <2>1. DOMAIN t \in SUBSET (Words \ {"", "no"}) /\ t \in [DOMAIN t -> Cmd]
    BY <1>1 DEF DiskTree, IsTree, Words
  <2> QED BY <2>1 DEF DiskTrees
<1>2. ASSUME t \in DiskTrees PROVE DiskTree(t)
  <2>1. PICK N \in SUBSET (Words \ {"", "no"}) : t \in [N -> Cmd]
    BY <1>2 DEF DiskTrees
  <2>2. DOMAIN t = N
    BY <2>1
  <2> QED BY <2>1, <2>2 DEF DiskTree, IsTree, Words
<1> QED BY <1>1, <1>2

LEMMA PartIsTree ==
  ASSUME NEW t, IsTree(t), NEW N \in SUBSET DOMAIN t
  PROVE  IsTree([n \in N |-> t[n]])
  BY DEF IsTree

LEMMA StrippedIsTree ==
  ASSUME NEW disk, NEW t, DiskTree(t)
  PROVE  DiskTree(Stripped(disk, t))
<1> DEFINE gone[c \in Cmd] ==
             \/ Attr[c].run # "" /\ Attr[c].run \in SwitchNames(disk)
             \/ /\ Attr[c].run = "" /\ disk.kids[c] # NoTree
                /\ \A k \in Entries(disk.kids[c]) : gone[k]
<1> DEFINE N == {m \in DOMAIN t : ~gone[t[m]]}
<1>1. Stripped(disk, t) = [n \in N |-> t[n]]
  BY DEF Stripped
<1> HIDE DEF gone
<1>2. N \in SUBSET DOMAIN t
  OBVIOUS
<1> HIDE DEF N
<1> QED BY <1>1, <1>2, PartIsTree DEF DiskTree

LEMMA MergedIsTree ==
  ASSUME NEW s, NEW t, DiskTree(s), DiskTree(t)
  PROVE  DiskTree(MergeTrees(s, t))
<1> DEFINE N == DOMAIN s \cup DOMAIN t
<1>1. N \subseteq Words \ {""} /\ "no" \notin N
  BY DEF DiskTree, IsTree, Words
<1>2. \A n \in N : (IF n \in DOMAIN t THEN t[n] ELSE s[n]) \in Cmd
  BY DEF DiskTree, IsTree
<1>3. MergeTrees(s, t) \in [N -> Cmd]
  BY <1>2 DEF MergeTrees
<1> HIDE DEF N
<1> QED BY <1>1, <1>3 DEF DiskTree, IsTree, Words

LEMMA PrunedIsTree ==
  ASSUME NEW t, IsTree(t)
  PROVE  IsTree(Pruned(t)) /\ DOMAIN Pruned(t) \subseteq DOMAIN t
<1> DEFINE N == {m \in DOMAIN t : KnownFlag(t[m]) => Enabled(t[m])}
<1>1. Pruned(t) = [n \in N |-> t[n]]
  BY DEF Pruned
<1>2. N \in SUBSET DOMAIN t
  OBVIOUS
<1> HIDE DEF N
<1> QED BY <1>1, <1>2, PartIsTree

LEMMA RawAreTrees ==
  ASSUME NEW disk, WellFormed(disk), NEW l \in Level
  PROVE  DiskTree(RawTrees(disk)[l])
<1> DEFINE n == Cardinality(Level)
           V == DiskTrees
           Stop == {k \in Level : ~Inherits(disk, k)}
           Merged(k, t) == MergeTrees(Stripped(disk, t), disk.own[k])
           raw[k \in Level] ==
             IF Inherits(disk, k)
             THEN MergeTrees(Stripped(disk, raw[Parent[k]]), disk.own[k])
             ELSE disk.own[k]
           F(g) == [k \in Level |-> IF Inherits(disk, k)
                                    THEN MergeTrees(Stripped(disk, g[Parent[k]]), disk.own[k])
                                    ELSE disk.own[k]]
           a == [k \in Level |-> disk.own[k]]
           G == [p \in Level \X V |-> Merged(p[1], p[2])]
<1>1. n \in Nat
  BY LevelRank
<1>2. PICK rank \in [Level -> 0..n] : Ranked(rank, Level, Parent, Stop)
  <2>1. PICK rank \in [Level -> 0..n] : Ranked(rank, Level, Parent, {Base})
    BY LevelRank
  <2>2. Level \ Stop \subseteq Level \ {Base}
    BY DEF Inherits
  <2> HIDE DEF Stop
  <2> QED BY <2>1, <2>2 DEF Ranked
<1>3. \A k \in Level : disk.own[k] \in V
  BY DiskTreeInSet DEF WellFormed
<1>4. ASSUME NEW k \in Level, NEW t \in V PROVE Merged(k, t) \in V
  <2>1. DiskTree(t) /\ DiskTree(disk.own[k])
    BY <1>3, DiskTreeInSet
  <2>2. DiskTree(Stripped(disk, t))
    BY <2>1, StrippedIsTree
  <2>3. DiskTree(Merged(k, t))
    BY <2>1, <2>2, MergedIsTree
  <2> QED BY <2>3, DiskTreeInSet
<1>5. a \in [Level -> V] /\ G \in [Level \X V -> V]
  <2> HIDE DEF Merged, V
  <2> QED BY <1>3, <1>4
<1>6. PICK f \in [Level -> V] : ByParents(f, Level, Parent, Stop, a, G)
  <2> HIDE DEF n, V, a, G, Stop
  <2> QED BY <1>1, <1>2, <1>5, Descent
<1>7. \A k \in Level : f[k] = IF Inherits(disk, k) THEN Merged(k, f[Parent[k]]) ELSE disk.own[k]
  <2>1. \A k \in Level : f[k] = IF k \in Stop THEN a[k] ELSE G[<<k, f[Parent[k]]>>]
    <3> HIDE DEF a, G, Stop
    <3> QED BY <1>6 DEF ByParents
  <2>2. ASSUME NEW k \in Level \ Stop
        PROVE  G[<<k, f[Parent[k]]>>] = Merged(k, f[Parent[k]])
    <3> HIDE DEF Merged, V, Stop
    <3>1. <<k, f[Parent[k]]>> \in Level \X V
      BY <1>2 DEF Ranked
    <3> QED BY <3>1
  <2>3. \A k \in Level : a[k] = disk.own[k] /\ (k \in Stop <=> ~Inherits(disk, k))
    OBVIOUS
  <2> HIDE DEF a, G, Merged, Stop
  <2> QED BY <2>1, <2>2, <2>3
<1>8. f = F(f)
  <2> HIDE DEF V
  <2> QED BY <1>7
<1>9. raw = F(raw)
  BY <1>8
<1> HIDE DEF raw
<1>10. RawTrees(disk) = raw
  BY DEF RawTrees, raw
<1>11. Level \subseteq {k \in Level : raw[k] \in V}
  <2> DEFINE S == {k \in Level : raw[k] \in V}
  <2>1. \A k \in Level : raw[k] = IF Inherits(disk, k) THEN Merged(k, raw[Parent[k]]) ELSE disk.own[k]
    BY <1>9
  <2>2. \A k \in Level : k \in Stop <=> ~Inherits(disk, k)
    OBVIOUS
  <2> HIDE DEF Merged, V, Stop
  <2>3. Level \cap Stop \subseteq S
    BY <1>3, <2>1, <2>2
  <2>4. ASSUME NEW k \in Level \ Stop, Parent[k] \in S PROVE k \in S
    BY <1>4, <2>1, <2>2, <2>4
  <2>5. HandedDown(S, Level, Parent, Stop)
    BY <2>3, <2>4 DEF HandedDown
  <2> HIDE DEF S, n
  <2>6. Level \subseteq S
    BY <1>1, <1>2, <2>5, AlongParents
  <2> QED BY <2>6 DEF S
<1>12. raw[l] \in V
  <2> HIDE DEF V
  <2> QED BY <1>11
<1> QED BY <1>10, <1>12, DiskTreeInSet

LEMMA LoadedAreTrees ==
  ASSUME NEW x \in Deployments
  PROVE  DOMAIN Loaded[x].trees = Level /\ \A l \in Level : DiskTree(Loaded[x].trees[l])
<1> DEFINE disk == Disk[x]
           made(l) == IF disk.level[l].skip THEN RawTrees(disk)[l]
                      ELSE MergeTrees(RawTrees(disk)[l], disk.common)
<1>1. Loaded[x].trees = [l \in Level |-> made(l)]
  BY DEF Loaded
<1>2. ASSUME NEW l \in Level PROVE DiskTree(made(l))
  <2>1. WellFormed(disk)
    BY CommandLineAssumption
  <2>2. DiskTree(RawTrees(disk)[l]) /\ DiskTree(disk.common)
    BY <2>1, RawAreTrees DEF WellFormed
  <2> QED BY <2>2, MergedIsTree
<1> HIDE DEF made
<1> QED BY <1>1, <1>2

-----------------------------------------------------------------------------
(* The trees in memory.                                                    *)

\* What the steps of loadCommandLevels establish, each for the later ones.
Unpruned == {"load", "reachable", "prune", "failed"}
Unlimited == Unpruned \cup {"limit"}
Unvetted == Unlimited \cup {"levels", "vendor"}

TreesInv ==
  /\ d \in Deployments /\ level \in Level
  /\ DOMAIN trees = Level /\ \A l \in Level : DiskTree(trees[l])
  /\ DOMAIN kids = Cmd /\ Forest(kids)
  /\ stage \notin Unpruned => \A c \in InTrees : Enabled(c)
  /\ stage \notin Unlimited => limited = {c \in InTrees : Hashed(c)}
  /\ stage \notin Unvetted => \A c \in InTrees : SecretIsVendors(Attr[c])

\* Lines, replayed ones and aliases are made of known words; a password is
\* asked for what counts wrong ones; what ran was in a tree.
LinesInv ==
  /\ script \in Seq(Seq(Words))
  /\ \A l \in Level : \A n \in DOMAIN aliases[l] : aliases[l][n] \in Seq(Words) \ {<<>>}
  /\ stage = "secret" => asked.line \in Lines /\ asked.cmd \in limited
  /\ ran # NoRun => ran.cmd \in InTrees

LEMMA UnderIsInTrees ==
  ASSUME TreesInv, NEW l \in Level
  PROVE  /\ Family(kids, trees[l], Under(kids, trees[l]))
         /\ Under(kids, trees[l]) \subseteq InTrees
         /\ \A t \in TreesOf(kids, trees[l], Under(kids, trees[l])) :
              Entries(t) \subseteq InTrees
<1>1. IsTree(trees[l]) /\ Forest(kids)
  BY DEF TreesInv, DiskTree
<1>2. Family(kids, trees[l], Under(kids, trees[l]))
  BY <1>1, UnderIsAll
<1>3. Under(kids, trees[l]) \subseteq InTrees
  BY DEF InTrees
<1> QED BY <1>2, <1>3, TreesOfAreTrees

\* Resolve only finds what is in the trees.
LEMMA SaysIsInTrees ==
  ASSUME TreesInv, NEW l \in Level, NEW toks \in Seq(Words)
  PROVE  LET r == Resolve(kids, trees[l], toks)
         IN /\ r.cmd \in InTrees \cup {NoCmd}
            /\ Entries(r.tree) \subseteq InTrees
            /\ r.cmd # NoCmd => Entries(kids[r.cmd]) \subseteq InTrees
            /\ r.args \in Seq(Words)
            /\ \A n \in r.amb : n \in DOMAIN r.tree /\ ~Attr[r.tree[n]].hidden
<1> DEFINE r == Resolve(kids, trees[l], toks)
           U == Under(kids, trees[l])
<1>1. Family(kids, trees[l], U) /\ U \subseteq InTrees
  BY UnderIsInTrees
<1>2. \A t \in TreesOf(kids, trees[l], U) : Entries(t) \subseteq InTrees
  BY UnderIsInTrees
<1> HIDE DEF U
<1>3. /\ r.cmd \in U \cup {NoCmd} /\ r.tree \in TreesOf(kids, trees[l], U)
      /\ r.args \in Seq(Words)
      /\ \A n \in r.amb : n \in DOMAIN r.tree /\ ~Attr[r.tree[n]].hidden
  BY <1>1, ResolveStays
<1> HIDE DEF r
<1>4. r.cmd # NoCmd => Entries(kids[r.cmd]) \subseteq InTrees
  BY <1>1, <1>3 DEF Family
<1>5. /\ r.cmd \in InTrees \cup {NoCmd}
      /\ Entries(r.tree) \subseteq InTrees
      /\ r.cmd # NoCmd => Entries(kids[r.cmd]) \subseteq InTrees
      /\ r.args \in Seq(Words)
      /\ \A n \in r.amb : n \in DOMAIN r.tree /\ ~Attr[r.tree[n]].hidden
  BY <1>1, <1>2, <1>3, <1>4
<1> QED BY <1>5 DEF r

LEMMA SplitWords ==
  ASSUME NEW line \in Lines
  PROVE  line \in Seq(Words) /\ Split[line].words \in Seq(Words)
<1>1. line \in Seq(Words)
  BY CommandLineAssumption DEF Words
<1>2. CommandPart(line) \in Seq(Words)
  <2>1. CASE Bars(line) = {}
    BY <1>1, <2>1 DEF CommandPart
  <2>2. CASE Bars(line) # {}
    <3> DEFINE b == CHOOSE i \in Bars(line) : \A j \in Bars(line) : i <= j
    <3>1. Bars(line) \subseteq 1..Len(line) /\ Bars(line) \subseteq Nat
      BY <1>1 DEF Bars
    <3>2. b \in 1..Len(line)
      BY <2>2, <3>1, Least
    <3>3. CommandPart(line) = SubSeq(line, 1, b - 1)
      BY <2>2 DEF CommandPart
    <3> HIDE DEF b
    <3> QED BY <1>1, <3>2, <3>3
  <2> QED BY <2>1, <2>2
<1>3. Split[line].words = CommandPart(line)
  BY DEF Split
<1> QED BY <1>1, <1>2, <1>3

LEMMA ExpandedWords ==
  ASSUME TreesInv, LinesInv, NEW line \in Lines
  PROVE  Expanded(line) \in Seq(Words)
<1> DEFINE toks == Split[line].words
<1>1. toks \in Seq(Words)
  BY SplitWords
<1> HIDE DEF toks
<1>2. CASE toks # <<>> /\ toks[1] \in DOMAIN aliases[level]
  <2>1. aliases[level][toks[1]] \in Seq(Words) /\ Tail(toks) \in Seq(Words)
    BY <1>1, <1>2 DEF LinesInv, TreesInv
  <2>2. Expanded(line) = aliases[level][toks[1]] \o Tail(toks)
    BY <1>2 DEF Expanded, ExpandAlias, toks
  <2> QED BY <2>1, <2>2
<1>3. CASE ~(toks # <<>> /\ toks[1] \in DOMAIN aliases[level])
  BY <1>1, <1>3 DEF Expanded, ExpandAlias, toks
<1> QED BY <1>2, <1>3

LEMMA FoundIsInTrees ==
  ASSUME TreesInv, NEW toks \in Seq(Words)
  PROVE  Found(toks).cmd \in InTrees \cup {NoCmd} /\ Found(toks).args \in Seq(Words)
  BY SaysIsInTrees DEF Found, TreesInv

\* The steps of loadCommandLevels.
LEMMA TreesInit == Init => TreesInv /\ LinesInv
<1> SUFFICES ASSUME Init PROVE TreesInv /\ LinesInv
  OBVIOUS
<1>1. NoTree \in [{} -> Cmd] /\ DOMAIN NoTree = {}
  BY DEF NoTree
<1>2. DiskTree(NoTree)
  BY <1>1 DEF DiskTree, IsTree
<1>3. WellFormed(Disk[d])
  BY CommandLineAssumption DEF Init
<1>4. DOMAIN kids = Cmd /\ Forest(kids)
  BY <1>3 DEF Init, WellFormed, Forest
<1>5. level \in Level /\ DOMAIN trees = Level /\ \A l \in Level : DiskTree(trees[l])
  BY <1>2, CommandLineAssumption DEF Init
<1>6. script \in Seq(Seq(Words))
  BY CommandLineAssumption DEF Init, Words
<1>7. \A l \in Level : DOMAIN aliases[l] = {}
  BY <1>1 DEF Init
<1> QED BY <1>4, <1>5, <1>6, <1>7 DEF Init, TreesInv, LinesInv, Unpruned, Unlimited, Unvetted

\* Trees that stay as they are keep what is known of them.
LEMMA TreesKept ==
  ASSUME TreesInv, UNCHANGED <<d, trees, kids, limited>>, level' \in Level,
         stage \in Unpruned => stage' \in Unpruned,
         stage \in Unlimited => stage' \in Unlimited,
         stage \in Unvetted => stage' \in Unvetted
  PROVE  TreesInv'
<1>1. InTrees' = InTrees
  BY DEF InTrees
<1>2. \A c : Enabled(c)' = Enabled(c)
  BY DEF Enabled
<1> QED BY <1>1, <1>2 DEF TreesInv

LEMMA LoadHolds ==
  ASSUME TreesInv, LoadTreeStructure
  PROVE  TreesInv'
<1>1. stage' \in Unpruned /\ UNCHANGED <<d, kids, level>> /\ trees' = Loaded[d].trees
  BY DEF LoadTreeStructure, Proceed, Unpruned, session
<1>2. d \in Deployments
  BY DEF TreesInv
<1>3. DOMAIN trees' = Level /\ \A l \in Level : DiskTree(trees'[l])
  BY <1>1, <1>2, LoadedAreTrees
<1> QED BY <1>1, <1>3 DEF TreesInv, Unlimited, Unvetted

LEMMA PruneHolds ==
  ASSUME TreesInv, PruneDisabledCommands
  PROVE  TreesInv'
<1>1. /\ UNCHANGED <<d, level>>
      /\ trees' = [l \in Level |-> Pruned(trees[l])]
      /\ kids' = [c \in Cmd |-> Pruned(kids[c])]
  BY DEF PruneDisabledCommands, Proceed, session
<1>2. /\ stage' \in {"limit", "failed"}
      /\ stage' = "limit" => \A c \in UNION {Under(kids', trees'[l]) : l \in Level} : KnownFlag(c)
  BY DEF PruneDisabledCommands, Proceed
<1>3. DOMAIN trees' = Level /\ \A l \in Level : DiskTree(trees'[l])
  BY <1>1, PrunedIsTree DEF TreesInv, DiskTree
<1>4. DOMAIN kids' = Cmd /\ Forest(kids')
  BY <1>1, PrunedIsTree DEF TreesInv, Forest
<1>5. ASSUME NEW t, NEW c \in Entries(Pruned(t)), KnownFlag(c) PROVE Enabled(c)
  BY <1>5 DEF Pruned, Entries
<1>6. ASSUME NEW l \in Level, NEW c \in Under(kids', trees'[l]), KnownFlag(c)
      PROVE  Enabled(c)
  <2>1. c \in Entries(trees'[l]) \/ \E p \in Cmd : c \in Entries(kids'[p])
    BY <1>3, <1>4, UnderIsAll DEF DiskTree
  <2>2. CASE c \in Entries(trees'[l])
    BY <1>1, <1>5, <1>6, <2>2
  <2>3. CASE \E p \in Cmd : c \in Entries(kids'[p])
    BY <1>1, <1>5, <1>6, <2>3
  <2> QED BY <2>1, <2>2, <2>3
<1>7. \A c : Enabled(c)' = Enabled(c)
  BY <1>1 DEF Enabled
<1>8. stage' = "limit" => \A c \in InTrees' : Enabled(c)'
  BY <1>2, <1>6, <1>7 DEF InTrees
<1> QED BY <1>1, <1>2, <1>3, <1>4, <1>8 DEF TreesInv, Unpruned, Unlimited, Unvetted

LEMMA LimitHolds ==
  ASSUME TreesInv, AttachPasswordRateLimiters
  PROVE  TreesInv'
<1>1. /\ UNCHANGED <<d, level, trees, kids>> /\ stage = "limit" /\ stage' = "levels"
      /\ limited' = {c \in InTrees : Hashed(c)}
  BY DEF AttachPasswordRateLimiters, Proceed, session
<1>2. InTrees' = InTrees
  BY <1>1 DEF InTrees
<1>3. \A c : Enabled(c)' = Enabled(c)
  BY <1>1 DEF Enabled
<1> QED BY <1>1, <1>2, <1>3 DEF TreesInv, Unpruned, Unlimited, Unvetted

LEMMA VendorHolds ==
  ASSUME TreesInv, VerifyVendorDefinedSecrets
  PROVE  TreesInv'
<1>1. /\ UNCHANGED <<d, level, trees, kids, limited>> /\ stage = "vendor"
      /\ stage' \in {"roles", "failed"}
      /\ stage' = "roles" => \A c \in InTrees : SecretIsVendors(Attr[c])
  BY DEF VerifyVendorDefinedSecrets, Proceed, session, built
<1>2. InTrees' = InTrees
  BY <1>1 DEF InTrees
<1>3. \A c : Enabled(c)' = Enabled(c)
  BY <1>1 DEF Enabled
<1> QED BY <1>1, <1>2, <1>3 DEF TreesInv, Unpruned, Unlimited, Unvetted

LEMMA StartupHolds ==
  ASSUME TreesInv, Startup
  PROVE  TreesInv'
<1>1. CASE VerifyRegisteredCommandsAreReachable
  <2>1. stage = "reachable" /\ stage' \in {"prune", "failed"} /\ UNCHANGED <<d, trees, kids, limited, level>>
    BY <1>1 DEF VerifyRegisteredCommandsAreReachable, Proceed, built, session
  <2>2. level \in Level
    BY DEF TreesInv
  <2> QED BY <2>1, <2>2, TreesKept DEF Unpruned, Unlimited, Unvetted
<1>2. CASE VerifyCommandLevels
  <2>1. stage = "levels" /\ stage' \in {"vendor", "failed"} /\ UNCHANGED <<d, trees, kids, limited, level>>
    BY <1>2 DEF VerifyCommandLevels, Proceed, built, session
  <2>2. level \in Level
    BY DEF TreesInv
  <2> QED BY <2>1, <2>2, TreesKept DEF Unpruned, Unlimited, Unvetted
<1>3. CASE VerifyRoles
  <2>1. stage = "roles" /\ stage' \in {"replay", "failed"} /\ UNCHANGED <<d, trees, kids, limited, level>>
    BY <1>3 DEF VerifyRoles, Proceed, built, session
  <2>2. level \in Level
    BY DEF TreesInv
  <2> QED BY <2>1, <2>2, TreesKept DEF Unpruned, Unlimited, Unvetted
<1> QED BY <1>1, <1>2, <1>3, LoadHolds, PruneHolds, LimitHolds, VendorHolds DEF Startup

-----------------------------------------------------------------------------
(* A session.                                                              *)

AliasWords ==
  \A l \in Level : \A n \in DOMAIN aliases[l] : aliases[l][n] \in Seq(Words) \ {<<>>}

\* All of it together is inductive.
LineInv == GatesInv /\ AliasInv /\ TreesInv /\ LinesInv

LEMMA SucceedsWords ==
  ASSUME LineInv, NEW r, NEW w, r.args \in Seq(Words), Succeeds(r, w)
  PROVE  level' \in Level /\ AliasWords'
<1>1. level \in Level /\ DOMAIN aliases = Level /\ AliasWords
  BY DEF LineInv, TreesInv, LinesInv, AliasInv, AliasWords
<1>2. CASE Moved(r)
  BY <1>1, <1>2, LeavesAtALevel DEF Moved, AliasWords
<1>3. CASE AliasRemoved(r)
  <2>1. aliases' = [aliases EXCEPT ![level] = Unaliased(r.args[1])] /\ level' = level
    BY <1>3 DEF AliasRemoved
  <2>2. ASSUME NEW l \in Level, NEW n \in DOMAIN aliases'[l]
        PROVE  n \in DOMAIN aliases[l] /\ aliases'[l][n] = aliases[l][n]
    BY <1>1, <2>1 DEF Unaliased
  <2> QED BY <1>1, <2>1, <2>2 DEF AliasWords
<1>4. CASE AliasSet(r, w)
  <2> DEFINE name == r.args[1]
             words == Tail(r.args)
  <2>1. aliases' = [aliases EXCEPT ![level] = Aliased(name, words)] /\ level' = level
    BY <1>4 DEF AliasSet
  <2>2. words \in Seq(Words) \ {<<>>}
    <3>1. Len(r.args) >= 2
      BY <1>4 DEF AliasSet
    <3>2. words \in Seq(Words) /\ Len(words) >= 1
      BY <3>1
    <3> HIDE DEF words
    <3>3. words # <<>>
      BY <3>2
    <3> QED BY <3>2, <3>3
  <2> HIDE DEF name, words
  <2>3. ASSUME NEW l \in Level, NEW n \in DOMAIN aliases'[l]
        PROVE  aliases'[l][n] \in Seq(Words) \ {<<>>}
    <3>1. CASE l # level
      BY <1>1, <2>1, <3>1 DEF AliasWords
    <3>2. CASE l = level
      <4>1. aliases'[l] = Aliased(name, words)
        BY <1>1, <2>1, <3>2
      <4>2. n = name \/ (n # name /\ n \in DOMAIN aliases[l] /\ aliases'[l][n] = aliases[l][n])
        BY <3>2, <4>1 DEF Aliased
      <4>3. n = name => aliases'[l][n] = words
        BY <4>1 DEF Aliased
      <4> QED BY <1>1, <2>2, <4>2, <4>3 DEF AliasWords
    <3> QED BY <3>1, <3>2
  <2> QED BY <1>1, <2>1, <2>3 DEF AliasWords
<1> QED BY <1>2, <1>3, <1>4 DEF Succeeds

LEMMA WordsOfResolve ==
  ASSUME LineInv, NEW toks \in Seq(Words)
  PROVE  Found(toks).args \in Seq(Words)
  BY FoundIsInTrees DEF LineInv

\* A step of a session: the trees stay, what it may change is given.
LEMMA SessionStep ==
  ASSUME LineInv, UNCHANGED <<d, trees, kids, limited>>,
         stage \notin {"load", "reachable", "prune", "limit", "levels", "vendor"},
         level' \in Level, AliasWords',
         script' \in Seq(Seq(Words)),
         stage' = "secret" => asked'.line \in Lines /\ asked'.cmd \in limited,
         stage' \in {"failed", "crashed", "replay", "reading", "secret", "ran", "ended"},
         stage = "failed" => stage' = "failed",
         ran' # NoRun => ran'.cmd \in InTrees
  PROVE  TreesInv' /\ LinesInv'
<1>1. InTrees' = InTrees
  BY DEF InTrees
<1>2. TreesInv'
  BY TreesKept DEF LineInv, Unpruned, Unlimited, Unvetted
<1> QED BY <1>1, <1>2 DEF LinesInv, AliasWords

LEMMA QuietSession ==
  ASSUME LineInv, UNCHANGED <<d, trees, kids, limited, level, aliases>>,
         stage \notin {"load", "reachable", "prune", "limit", "levels", "vendor", "failed"},
         script' = script,
         stage' \in {"failed", "crashed", "replay", "reading", "ran", "ended"},
         ran' = ran \/ ran' = NoRun
  PROVE  TreesInv' /\ LinesInv'
<1>1. level' \in Level /\ AliasWords' /\ script' \in Seq(Seq(Words))
  BY DEF LineInv, TreesInv, LinesInv, AliasWords
<1>2. ran' # NoRun => ran'.cmd \in InTrees
  BY DEF LineInv, LinesInv
<1> QED BY <1>1, <1>2, SessionStep

LEMMA DispatchKeeps ==
  ASSUME LineInv, NEW line \in Lines, Dispatch(line, Found(Expanded(line)))
  PROVE  TreesInv' /\ LinesInv'
<1> DEFINE r == Found(Expanded(line))
<1>1. stage \in {"reading", "secret"}
  BY DEF Dispatch, Ready, Runnable, Typed
<1>2. CASE Crashes
  BY <1>1, <1>2, QuietSession DEF Crashes, built, session
<1>3. CASE ~Crashes
  <2>1. PICK w : /\ HandlerReturns(r, w)
                 /\ ran' = [cmd |-> r.cmd, negated |-> r.negated, args |-> r.args,
                            stages |-> Split[line].stages, typed |-> asked.cmd]
                 /\ UNCHANGED <<d, built, script>>
    BY <1>3 DEF Dispatch
  <2>2. Expanded(line) \in Seq(Words)
    BY ExpandedWords DEF LineInv
  <2>3. r.cmd \in InTrees \cup {NoCmd} /\ r.args \in Seq(Words)
    BY <2>2, FoundIsInTrees DEF LineInv
  <2>4. r.cmd # NoCmd
    <3>1. ReportResolveProblem(r) = ""
      <4>1. CASE stage = "secret" /\ asked.line = line
        BY <4>1 DEF LineInv, GatesInv, Awaited, Cleared
      <4>2. CASE Runnable(line, r)
        BY <4>2 DEF Runnable
      <4> QED BY <4>1, <4>2 DEF Dispatch, Ready
    <3> HIDE DEF r
    <3> QED BY <3>1 DEF ReportResolveProblem
  <2>5. ran'.cmd = r.cmd
    BY <2>1
  <2> HIDE DEF r
  <2>6. level' \in Level /\ AliasWords'
    <3>1. CASE Succeeds(r, w)
      BY <2>3, <3>1, SucceedsWords
    <3>2. CASE UNCHANGED <<level, aliases>>
      BY <3>2 DEF LineInv, TreesInv, LinesInv, AliasWords
    <3> QED BY <2>1, <3>1, <3>2 DEF HandlerReturns
  <2>7. stage' \in {"ran", "ended"}
    BY <2>1 DEF HandlerReturns
  <2>8. script' \in Seq(Seq(Words))
    BY <2>1 DEF LineInv, LinesInv
  <2>9. UNCHANGED <<d, trees, kids, limited>>
    BY <2>1 DEF built
  <2> QED BY <1>1, <2>3, <2>4, <2>5, <2>6, <2>7, <2>8, <2>9, SessionStep
<1> QED BY <1>2, <1>3

LEMMA AskKeeps ==
  ASSUME LineInv, NEW line \in Lines, AskPassword(line, Found(Expanded(line)))
  PROVE  TreesInv' /\ LinesInv'
<1> DEFINE r == Found(Expanded(line))
<1>1. /\ stage = "reading" /\ ReportResolveProblem(r) = "" /\ Hashed(r.cmd)
      /\ stage' = "secret" /\ asked' = [cmd |-> r.cmd, line |-> line] /\ ran' = NoRun
      /\ UNCHANGED <<d, trees, kids, limited, level, aliases, script>>
  BY DEF AskPassword, Runnable, Typed, built, session
<1>2. r.cmd \in InTrees \cup {NoCmd}
  <2>1. Expanded(line) \in Seq(Words)
    BY ExpandedWords DEF LineInv
  <2> QED BY <2>1, FoundIsInTrees DEF LineInv
<1> HIDE DEF r
<1>3. r.cmd # NoCmd
  BY <1>1 DEF ReportResolveProblem
<1>4. limited = {c \in InTrees : Hashed(c)}
  BY <1>1 DEF LineInv, TreesInv, Unpruned, Unlimited
<1>5. asked'.line \in Lines /\ asked'.cmd \in limited
  BY <1>1, <1>2, <1>3, <1>4
<1>6. level' \in Level /\ AliasWords' /\ script' \in Seq(Seq(Words))
  BY <1>1 DEF LineInv, TreesInv, LinesInv, AliasWords
<1> QED BY <1>1, <1>5, <1>6, SessionStep

LEMMA ReplayKeeps ==
  ASSUME LineInv, ReplayLine
  PROVE  TreesInv' /\ LinesInv'
<1>1. /\ stage = "replay" /\ script # <<>> /\ script' = Tail(script)
      /\ UNCHANGED <<d, stage, trees, kids, limited, ran>>
  BY DEF ReplayLine, built
<1>2. PICK w : Succeeds(Found(Head(script)), w)
  BY DEF ReplayLine
<1>3. script \in Seq(Seq(Words))
  BY DEF LineInv, LinesInv
<1>4. Head(script) \in Seq(Words) /\ Tail(script) \in Seq(Seq(Words))
  BY <1>1, <1>3
<1>5. Found(Head(script)).args \in Seq(Words)
  BY <1>4, WordsOfResolve
<1>6. level' \in Level /\ AliasWords'
  BY <1>2, <1>5, SucceedsWords
<1>7. ran' # NoRun => ran'.cmd \in InTrees
  BY <1>1 DEF LineInv, LinesInv
<1> QED BY <1>1, <1>4, <1>6, <1>7, SessionStep

LEMMA EnteredKeeps ==
  ASSUME LineInv, NEW line \in Lines, Entered(line), stage \in {"reading", "secret"}
  PROVE  TreesInv' /\ LinesInv'
<1> DEFINE r == Found(Expanded(line))
<1>1. CASE Crash(line, r)
  BY <1>1, QuietSession DEF Crash, Crashes, built, session
<1>2. CASE NotACommand(line, r) \/ Refused(line, r) \/ BadArgs(line, r)
  <2>1. NothingRuns
    BY <1>2 DEF NotACommand, Refused, BadArgs
  <2> QED BY <2>1, QuietSession DEF NothingRuns, built, session
<1> QED BY <1>1, <1>2, AskKeeps, DispatchKeeps DEF Entered

LEMMA LineStep ==
  ASSUME LineInv, [Next]_vars
  PROVE  LineInv'
<1>1. GatesInv' /\ AliasInv'
  BY GatesStep, AliasStep DEF LineInv
<1>2. TreesInv' /\ LinesInv'
  <2>1. CASE Startup
    <3>1. TreesInv'
      BY <2>1, StartupHolds DEF LineInv
    <3>2. /\ UNCHANGED <<script, aliases, ran>> /\ stage' # "secret"
          /\ stage \notin {"ran", "ended"}
      BY <2>1 DEF Startup, LoadTreeStructure, VerifyRegisteredCommandsAreReachable,
           PruneDisabledCommands, AttachPasswordRateLimiters, VerifyCommandLevels,
           VerifyVendorDefinedSecrets, VerifyRoles, Proceed, session
    <3>3. ran' = NoRun
      BY <3>2 DEF LineInv, GatesInv, Awaited
    <3> QED BY <3>1, <3>2, <3>3 DEF LineInv, LinesInv
  <2>2. CASE ReplayFails
    BY <2>2, QuietSession DEF ReplayFails, built, session
  <2>3. CASE LogIn
    <3>1. /\ stage = "replay" /\ stage' = "reading" /\ level' = Base
          /\ UNCHANGED <<d, trees, kids, limited, script, aliases, ran>>
      BY <2>3 DEF LogIn, built
    <3>2. Base \in Level
      BY CommandLineAssumption
    <3>3. AliasWords' /\ script' \in Seq(Seq(Words)) /\ (ran' # NoRun => ran'.cmd \in InTrees)
      BY <3>1 DEF LineInv, LinesInv, AliasWords
    <3> QED BY <3>1, <3>2, <3>3, SessionStep
  <2>4. CASE \E line \in Lines : TurnedAway(line) \/ Help(line)
    <3>1. stage = "reading" /\ (NothingRuns \/ Crashes)
      BY <2>4 DEF TurnedAway, Help
    <3> QED BY <3>1, QuietSession DEF NothingRuns, Crashes, built, session
  <2>5. CASE stage = "reading" /\ \E line \in Lines : Entered(line)
    BY <2>5, EnteredKeeps
  <2>6. CASE stage = "secret" /\ Entered(asked.line)
    <3>1. asked.line \in Lines
      BY <2>6 DEF LineInv, LinesInv
    <3> QED BY <2>6, <3>1, EnteredKeeps
  <2>7. CASE WrongPassword
    BY <2>7, QuietSession DEF WrongPassword, NothingRuns, built, session
  <2>8. CASE Prompt
    BY <2>8, QuietSession DEF Prompt, built, session
  <2>9. CASE UNCHANGED <<d, stage, built, script, session, asked, ran>>
    <3>1. UNCHANGED <<d, stage, trees, kids, limited, script, level, aliases, asked, ran>>
      BY <2>9 DEF built, session
    <3>2. TreesInv'
      BY <3>1, TreesKept DEF LineInv, TreesInv
    <3>3. InTrees' = InTrees
      BY <3>1 DEF InTrees
    <3> QED BY <3>1, <3>2, <3>3 DEF LineInv, LinesInv
  <2> QED BY <2>1, <2>2, <2>3, <2>4, <2>5, <2>6, <2>7, <2>8, <2>9, ReplayKeeps
        DEF Next, vars, LockoutEnds
<1> QED BY <1>1, <1>2 DEF LineInv

LEMMA LineInit == Init => LineInv
  BY GatesInit, AliasInit, TreesInit DEF LineInv

\* A password is only asked for an entry with a limiter of its own, whatever
\* the trees are, wherever in them it is and however it was named.
THEOREM PromptsTheorem == Spec => []PromptsAreLimited
<1>1. LineInv => PromptsAreLimited
  BY DEF LineInv, LinesInv, PromptsAreLimited
<1> QED BY <1>1, LineInit, LineStep, PTL DEF Spec

\* Nothing of a feature that is off is left in any tree, and nothing runs that
\* is not in one.
THEOREM FeatureTheorem == Spec => []FeatureOffIsGone
<1>1. LineInv => FeatureOffIsGone
  <2>1. stage \notin Startups => stage \notin Unpruned
    BY DEF Startups, Unpruned
  <2> QED BY <2>1 DEF LineInv, TreesInv, LinesInv, FeatureOffIsGone
<1> QED BY <1>1, LineInit, LineStep, PTL DEF Spec

-----------------------------------------------------------------------------
(* What the listings name.                                                 *)

LEMMA NamedInListing ==
  ASSUME NEW me, NEW tree, NEW names, NEW shown, NEW cr,
         names = Listed(me, tree, shown),
         \A n \in shown : n \in DOMAIN tree /\ ~Attr[tree[n]].hidden,
         \A c \in Entries(tree) : SecretIsVendors(Attr[c])
  PROVE  \A c \in Listing(tree, names, cr).entries : MayBeNamed(me, c)
<1> SUFFICES ASSUME NEW c \in Listing(tree, names, cr).entries PROVE MayBeNamed(me, c)
  OBVIOUS
<1>1. PICK n \in names : c = tree[n]
  BY DEF Listing
<1>2. n \in shown /\ Authorized(me, c)
  BY <1>1 DEF Listed
<1>3. ~Attr[c].hidden /\ c \in Entries(tree)
  BY <1>1, <1>2 DEF Entries
<1>4. Attr[c].vendor = ""
  BY <1>3 DEF SecretIsVendors
<1> QED BY <1>2, <1>3, <1>4 DEF MayBeNamed, Secret

LEMMA HelpTextIsNamed ==
  ASSUME NEW me, NEW tree, NEW cr, \A c \in Entries(tree) : SecretIsVendors(Attr[c])
  PROVE  \A c \in Listing(tree, HelpText(me, tree), cr).entries : MayBeNamed(me, c)
<1> DEFINE shown == {n \in DOMAIN tree : ~Attr[tree[n]].hidden}
<1>1. \A n \in shown : n \in DOMAIN tree /\ ~Attr[tree[n]].hidden
  OBVIOUS
<1>2. HelpText(me, tree) = Listed(me, tree, shown)
  BY DEF HelpText
<1> HIDE DEF shown
<1> QED BY <1>1, <1>2, NamedInListing

LEMMA NothingListed ==
  ASSUME NEW cr PROVE Listing(NoTree, {}, cr).entries = {}
  BY DEF Listing

\* What Resolve found, with nothing of a vendor's in sight.
Vetted(r) ==
  /\ \A n \in r.amb : n \in DOMAIN r.tree /\ ~Attr[r.tree[n]].hidden
  /\ \A c \in Entries(r.tree) : SecretIsVendors(Attr[c])
  /\ r.cmd # NoCmd => \A c \in Entries(kids[r.cmd]) : SecretIsVendors(Attr[c])

LEMMA AmbiguityIsNamed ==
  ASSUME NEW me, NEW r, Vetted(r), NEW cr
  PROVE  \A c \in Listing(r.tree, Listed(me, r.tree, r.amb), cr).entries : MayBeNamed(me, c)
<1>1. /\ \A n \in r.amb : n \in DOMAIN r.tree /\ ~Attr[r.tree[n]].hidden
      /\ \A c \in Entries(r.tree) : SecretIsVendors(Attr[c])
  BY DEF Vetted
<1> QED BY <1>1, NamedInListing

LEMMA HelpIsNamed ==
  ASSUME NEW me, NEW toks, NEW r, Vetted(r)
  PROVE  \A c \in HelpForPath(kids, me, toks, r).entries : MayBeNamed(me, c)
<1>1. CASE r.amb # {} /\ NothingTyped(toks, r)
  <2>1. HelpForPath(kids, me, toks, r) = Listing(r.tree, HelpText(me, r.tree), r.runnable)
    BY <1>1 DEF HelpForPath
  <2> QED BY <2>1, HelpTextIsNamed DEF Vetted
<1>2. CASE r.amb # {} /\ ~NothingTyped(toks, r)
  <2>1. HelpForPath(kids, me, toks, r)
          = Listing(r.tree, Listed(me, r.tree, r.amb), r.runnable)
    BY <1>2 DEF HelpForPath
  <2> QED BY <2>1, AmbiguityIsNamed
<1>3. CASE r.amb = {} /\ r.cmd # NoCmd /\ kids[r.cmd] # NoTree
  <2>1. HelpForPath(kids, me, toks, r)
          = Listing(kids[r.cmd], HelpText(me, kids[r.cmd]), r.runnable)
    BY <1>3 DEF HelpForPath
  <2> QED BY <1>3, <2>1, HelpTextIsNamed DEF Vetted
<1>4. CASE r.amb = {} /\ (r.cmd = NoCmd \/ kids[r.cmd] = NoTree)
  <2>1. HelpForPath(kids, me, toks, r) = Listing(NoTree, {}, r.cmd # NoCmd /\ r.runnable)
    BY <1>4 DEF HelpForPath
  <2> QED BY <2>1, NothingListed
<1> QED BY <1>1, <1>2, <1>3, <1>4

LEMMA DetailIsNamed ==
  ASSUME NEW me, NEW r, Vetted(r)
  PROVE  \A c \in DetailedHelp(kids, me, r).entries : MayBeNamed(me, c)
<1>1. CASE r.amb # {}
  BY <1>1, AmbiguityIsNamed DEF DetailedHelp
<1>2. CASE r.amb = {} /\ r.cmd = NoCmd
  BY <1>2, NothingListed DEF DetailedHelp
<1>3. CASE r.amb = {} /\ r.cmd # NoCmd
  BY <1>3, HelpTextIsNamed DEF DetailedHelp, Vetted
<1> QED BY <1>1, <1>2, <1>3

LEMMA SaysIsVetted ==
  ASSUME LineInv, Built, NEW l \in Level, NEW toks \in Seq(Words)
  PROVE  Vetted(Says(l, toks))
<1> DEFINE r == Resolve(kids, trees[l], toks)
<1>1. TreesInv /\ \A c \in InTrees : SecretIsVendors(Attr[c])
  BY DEF LineInv, TreesInv, Built, Unpruned, Unlimited, Unvetted
<1>2. /\ Entries(r.tree) \subseteq InTrees
      /\ r.cmd # NoCmd => Entries(kids[r.cmd]) \subseteq InTrees
      /\ \A n \in r.amb : n \in DOMAIN r.tree /\ ~Attr[r.tree[n]].hidden
  BY <1>1, SaysIsInTrees
<1>3. Says(l, toks) = r
  BY DEF Says
<1> HIDE DEF r
<1> QED BY <1>1, <1>2, <1>3 DEF Vetted

\* Whatever is abbreviated to is in a tree, and not hidden.
LEMMA SpelledIsVisible ==
  ASSUME TreesInv, NEW l \in Level, NEW toks \in Seq(Words),
         NEW s \in Spelled(kids, trees[l], toks), s.name # s.typed
  PROVE  s.entry \in InTrees /\ ~Attr[s.entry].hidden
<1> DEFINE words == WithoutNo(toks, Noes(toks))
           before(i) == Walk(kids, trees[l], SubSeq(words, 1, i - 1))
           U == Under(kids, trees[l])
<1>1. words \in Seq(Words)
  BY NoesAreLeading DEF WithoutNo
<1> HIDE DEF words
<1>2. PICK i \in DOMAIN words : s \in SpelledAt(before(i), words[i])
  BY DEF Spelled, words
<1>3. PICK n \in StandsFor(before(i), words[i]) :
        s = [typed |-> words[i], name |-> n, entry |-> before(i).tree[n]]
  BY <1>2 DEF SpelledAt
<1>4. SubSeq(words, 1, i - 1) \in Seq(Words)
  BY <1>1, <1>2
<1>5. before(i) \in Places(kids, trees[l], U)
  <2>1. Family(kids, trees[l], U)
    BY UnderIsInTrees
  <2> HIDE DEF U
  <2>2. PICK g \in [0..Len(SubSeq(words, 1, i - 1)) -> Places(kids, trees[l], U)] :
          before(i) = g[Len(SubSeq(words, 1, i - 1))]
    BY <1>4, <2>1, WalkStays
  <2>3. Len(SubSeq(words, 1, i - 1)) \in 0..Len(SubSeq(words, 1, i - 1))
    BY <1>4
  <2> HIDE DEF before
  <2> QED BY <2>2, <2>3
<1> HIDE DEF before
<1>6. Entries(before(i).tree) \subseteq InTrees
  <2>1. before(i).tree \in TreesOf(kids, trees[l], U)
    BY <1>5 DEF Places, Records
  <2> HIDE DEF U
  <2> QED BY <2>1, UnderIsInTrees DEF U
<1>7. n # words[i]
  BY <1>3
<1>8. n \in Visible(before(i).tree, words[i])
  BY <1>3, <1>7 DEF StandsFor
<1>9. n \in DOMAIN before(i).tree /\ ~Attr[before(i).tree[n]].hidden
  BY <1>8 DEF Visible
<1> QED BY <1>3, <1>6, <1>9 DEF Entries

LEMMA CompletionsAreNoSecrets ==
  ASSUME LineInv, Built, NEW l \in Level, NEW toks \in Seq(Words), NEW u \in Seq(Words),
         NEW c \in Completions(l, toks, u)
  PROVE  ~Secret(c)
<1>1. TreesInv /\ \A x \in InTrees : SecretIsVendors(Attr[x])
  BY DEF LineInv, TreesInv, Built, Unpruned, Unlimited, Unvetted
<1>2. c \in InTrees /\ ~Attr[c].hidden
  BY <1>1, SpelledIsVisible DEF Completions
<1> QED BY <1>1, <1>2 DEF Secret, SecretIsVendors

LEMMA CandidatesAreNoSecrets ==
  ASSUME NEW r, Vetted(r), NEW c \in Candidates(r)
  PROVE  ~Secret(c)
<1>1. PICK n \in r.amb : c = r.tree[n]
  BY DEF Candidates
<1>2. n \in DOMAIN r.tree /\ ~Attr[c].hidden
  BY <1>1 DEF Vetted
<1>3. SecretIsVendors(Attr[c])
  BY <1>1, <1>2 DEF Vetted, Entries
<1> QED BY <1>2, <1>3 DEF Secret, SecretIsVendors

LEMMA AppendedWord ==
  ASSUME NEW toks \in Seq(Words), NEW tok \in Words
  PROVE  Append(toks, tok) \in Seq(Words)
  OBVIOUS

LEMMA OfferedAreNamed ==
  ASSUME LineInv, Built, NEW l \in Level, NEW toks \in Seq(Words), NEW u \in Seq(Words),
         NEW me, NEW c \in Offered(me, l, toks, u)
  PROVE  MayBeNamed(me, c)
<1>1. Vetted(Says(l, toks)) /\ Vetted(Says(l, u))
  BY SaysIsVetted
<1>2. \A x \in Entries(trees[l]) : SecretIsVendors(Attr[x])
  <2>1. trees[l] \in TreesOf(kids, trees[l], Under(kids, trees[l]))
    BY DEF TreesOf
  <2>2. Entries(trees[l]) \subseteq InTrees
    BY <2>1, UnderIsInTrees DEF LineInv
  <2>3. \A x \in InTrees : SecretIsVendors(Attr[x])
    BY DEF LineInv, TreesInv, Built, Unpruned, Unlimited, Unvetted
  <2> QED BY <2>2, <2>3
<1>3. CASE c \in Listing(trees[l], HelpText(me, trees[l]), FALSE).entries
  BY <1>2, <1>3, HelpTextIsNamed
<1>4. CASE c \in HelpForPath(kids, me, toks, Says(l, toks)).entries
  BY <1>1, <1>4, HelpIsNamed
<1>5. CASE c \in HelpForPath(kids, me, u, Says(l, u)).entries
  BY <1>1, <1>5, HelpIsNamed
<1>6. CASE c \in DetailedHelp(kids, me, Says(l, toks)).entries
  BY <1>1, <1>6, DetailIsNamed
<1>7. CASE c \in TabList(me, Says(l, u)).entries
  BY <1>1, <1>7, AmbiguityIsNamed DEF TabList
<1> QED BY <1>3, <1>4, <1>5, <1>6, <1>7 DEF Offered

LEMMA SecretsHold ==
  ASSUME LineInv
  PROVE  SecretsStayUnnamed
<1> SUFFICES ASSUME Built, NEW l \in Level, NEW line \in Completable,
                    NEW toks \in {line, Append(line, "")}
             PROVE  \E u \in {Inner(l, toks)} :
                      /\ \A held \in Accounts :
                           \A c \in Offered(As(held), l, toks, u) : MayBeNamed(As(held), c)
                      /\ \A c \in Completions(l, toks, u) \cup Candidates(Says(l, toks)) : ~Secret(c)
  BY DEF SecretsStayUnnamed
<1> DEFINE u == Inner(l, toks)
<1>1. toks \in Seq(Words)
  <2>1. line \in Seq(Words)
    BY SplitWords DEF Completable
  <2>2. "" \in Words
    BY CommandLineAssumption DEF Words
  <2>3. Append(line, "") \in Seq(Words)
    BY <2>1, <2>2, AppendedWord
  <2> QED BY <2>1, <2>3
<1>2. u \in Seq(Words)
  <2>1. Family(kids, trees[l], Under(kids, trees[l]))
    BY UnderIsInTrees DEF LineInv
  <2> QED BY <1>1, <2>1, UnwrapStays DEF Inner
<1> HIDE DEF u
<1>3. \A held \in Accounts : \A c \in Offered(As(held), l, toks, u) : MayBeNamed(As(held), c)
  BY <1>1, <1>2, OfferedAreNamed
<1>4. \A c \in Completions(l, toks, u) : ~Secret(c)
  BY <1>1, <1>2, CompletionsAreNoSecrets
<1>5. \A c \in Candidates(Says(l, toks)) : ~Secret(c)
  BY <1>1, SaysIsVetted, CandidatesAreNoSecrets
<1> QED BY <1>3, <1>4, <1>5 DEF u

\* However deep in whichever tree, and whatever roles the session has: what is
\* hidden, a vendor's or not for it is in no listing, and of the first two no
\* name is spelled in full or proposed that was not typed.
THEOREM SecretsTheorem == Spec => []SecretsStayUnnamed
<1>1. LineInv => SecretsStayUnnamed
  BY SecretsHold
<1> QED BY <1>1, LineInit, LineStep, PTL DEF Spec

-----------------------------------------------------------------------------
(* What an aliased line means.                                             *)

\* A line that does not begin with "no" is walked as it is.
LEMMA PlainLine ==
  ASSUME NEW k, NEW tree, NEW toks \in Seq(Words), toks # <<>>, toks[1] # "no"
  PROVE  Resolve(k, tree, toks) = ResolveResult(Walk(k, tree, toks), 0)
<1>1. Noes(toks) = 0
  <2>1. Noes(toks) \in 0..Len(toks) /\ \A i \in 1..Noes(toks) : toks[i] = "no"
    BY NoesAreLeading
  <2> HIDE DEF Noes
  <2> QED BY <2>1
<1>2. WithoutNo(toks, 0) = toks
  BY DEF WithoutNo
<1> QED BY <1>1, <1>2 DEF Resolve

\* The first step decides: lines that agree on where it leads and on the words
\* after it lead to the same place.
LEMMA SameStart ==
  ASSUME NEW k, NEW tree, NEW U, Family(k, tree, U),
         NEW s \in Seq(Words), NEW t \in Seq(Words), Len(s) = Len(t), Len(s) >= 1,
         \A i \in 2..Len(s) : s[i] = t[i],
         Step(k, Start(tree), s[1]) = Step(k, Start(tree), t[1])
  PROVE  Walk(k, tree, s) = Walk(k, tree, t)
<1> DEFINE n == Len(s)
<1>1. PICK g \in [0..n -> Places(k, tree, U)] :
        Walked(g, k, tree, s) /\ Walk(k, tree, s) = g[n]
  BY WalkStays
<1>2. PICK h \in [0..n -> Places(k, tree, U)] :
        Walked(h, k, tree, t) /\ Walk(k, tree, t) = h[n]
  BY WalkStays
<1>3. n \in Nat /\ n >= 1 /\ Len(t) = n
  OBVIOUS
<1>4. g[0] = Start(tree) /\ \A i \in 1..n : g[i] = Step(k, g[i - 1], s[i])
  BY <1>1 DEF Walked
<1>5. h[0] = Start(tree) /\ \A i \in 1..n : h[i] = Step(k, h[i - 1], t[i])
  BY <1>2, <1>3 DEF Walked
<1>6. g[1] = h[1]
  <2>1. 1 \in 1..n /\ 1 - 1 = 0
    BY <1>3
  <2>2. g[1] = Step(k, Start(tree), s[1]) /\ h[1] = Step(k, Start(tree), t[1])
    BY <1>4, <1>5, <2>1
  <2> QED BY <2>2
<1> DEFINE S == {i \in 0..n : g[i] = h[i]}
<1>7. 0 \in S
  BY <1>3, <1>4, <1>5
<1>8. ASSUME NEW i \in 0..(n - 1), i \in S PROVE i + 1 \in S
  <2>1. i + 1 \in 1..n /\ (i + 1) - 1 = i
    BY <1>3
  <2>2. CASE i = 0
    BY <1>6, <2>1, <2>2
  <2>3. CASE i # 0
    <3>1. i + 1 \in 2..n
      BY <1>3, <2>3
    <3>2. s[i + 1] = t[i + 1]
      BY <3>1
    <3>3. g[i + 1] = Step(k, g[i], s[i + 1]) /\ h[i + 1] = Step(k, h[i], t[i + 1])
      BY <1>4, <1>5, <2>1
    <3> QED BY <1>8, <2>1, <3>2, <3>3
  <2> QED BY <2>2, <2>3
<1>9. 0..n \subseteq S
  <2> HIDE DEF S, n
  <2> QED BY <1>3, <1>7, <1>8, Induct
<1>10. g[n] = h[n]
  BY <1>3, <1>9
<1> QED BY <1>1, <1>2, <1>10

\* A first word that is an argument, or a dead end, leaves no command.
LEMMA StuckStart ==
  ASSUME NEW k, NEW tree, NEW U, Family(k, tree, U),
         NEW toks \in Seq(Words), Len(toks) >= 1, NEW w,
         w = Step(k, Start(tree), toks[1]), w.at \in {"arguments", "broken"},
         w.cmd = NoCmd, w.amb = {}
  PROVE  Walk(k, tree, toks).cmd = NoCmd /\ Walk(k, tree, toks).amb = {}
<1> DEFINE n == Len(toks)
           Stuck(v) == v.at \in {"arguments", "broken"} /\ v.cmd = NoCmd /\ v.amb = {}
<1>1. PICK g \in [0..n -> Places(k, tree, U)] :
        Walked(g, k, tree, toks) /\ Walk(k, tree, toks) = g[n]
  BY WalkStays
<1>2. n \in Nat /\ n >= 1
  OBVIOUS
<1>3. g[0] = Start(tree) /\ \A i \in 1..n : g[i] = Step(k, g[i - 1], toks[i])
  BY <1>1 DEF Walked
<1>4. g[1] = w
  BY <1>2, <1>3
<1>5. ASSUME NEW v \in Records(k, tree, U), Stuck(v), NEW tok PROVE Stuck(Step(k, v, tok))
  <2>1. CASE v.at = "arguments"
    <3>1. Step(k, v, tok) = [v EXCEPT !.args = Append(@, tok)]
      BY <2>1 DEF Step
    <3> QED BY <1>5, <3>1 DEF Records
  <2>2. CASE v.at = "broken"
    <3>1. Step(k, v, tok) = v
      BY <2>2 DEF Step
    <3> QED BY <1>5, <3>1
  <2> QED BY <1>5, <2>1, <2>2
<1> DEFINE S == {i \in 0..n : i >= 1 => Stuck(g[i])}
<1>6. 0 \in S
  BY <1>2
<1>7. ASSUME NEW i \in 0..(n - 1), i \in S PROVE i + 1 \in S
  <2> HIDE DEF Stuck
  <2>1. i + 1 \in 1..n /\ (i + 1) - 1 = i /\ i \in 0..n
    BY <1>2
  <2>2. CASE i = 0
    <3>1. Stuck(g[1])
      BY <1>4 DEF Stuck
    <3> QED BY <2>1, <2>2, <3>1
  <2>3. CASE i # 0
    <3>1. Stuck(g[i])
      BY <1>7, <2>1, <2>3
    <3>2. g[i] \in Records(k, tree, U)
      BY <2>1 DEF Places
    <3>3. g[i + 1] = Step(k, g[i], toks[i + 1])
      BY <1>3, <2>1
    <3>4. Stuck(g[i + 1])
      BY <1>5, <3>1, <3>2, <3>3
    <3> QED BY <2>1, <3>4
  <2> QED BY <2>2, <2>3
<1>8. 0..n \subseteq S
  <2> HIDE DEF S, n
  <2> QED BY <1>2, <1>6, <1>7, Induct
<1>9. Stuck(g[n])
  <2> HIDE DEF Stuck
  <2> QED BY <1>2, <1>8
<1> QED BY <1>1, <1>9

LEMMA WalkOfOne ==
  ASSUME NEW k, NEW tree, NEW U, Family(k, tree, U), NEW toks \in Seq(Words), Len(toks) = 1
  PROVE  Walk(k, tree, toks) = Step(k, Start(tree), toks[1])
<1> DEFINE n == Len(toks)
<1>1. PICK g \in [0..n -> Places(k, tree, U)] :
        Walked(g, k, tree, toks) /\ Walk(k, tree, toks) = g[n]
  BY WalkStays
<1>2. 1 \in 1..n /\ 1 - 1 = 0
  OBVIOUS
<1>3. g[1] = Step(k, Start(tree), toks[1])
  BY <1>1, <1>2 DEF Walked
<1> QED BY <1>1, <1>3

\* What an alias stands for is walked like the word it is.
LEMMA AliasedWord ==
  ASSUME NEW k, NEW tree, NEW U, Family(k, tree, U), "no" \notin DOMAIN tree,
         NEW toks \in Seq(Words), toks # <<>>, toks[1] # "no",
         NEW words \in Seq(Words) \ {<<>>},
         ~Redirects(Resolve(k, tree, <<toks[1]>>), words)
  PROVE  \/ Resolve(k, tree, toks).cmd = NoCmd /\ Resolve(k, tree, toks).amb = {}
         \/ Resolve(k, tree, words \o Tail(toks)) = Resolve(k, tree, toks)
<1> DEFINE tok == toks[1]
           s == Start(tree)
           w == Step(k, s, tok)
           names == StandsFor(s, tok)
           name == CHOOSE n \in names : TRUE
           c == Chase(tree, tree[name])
<1>1. tok \in Words /\ <<tok>> \in Seq(Words) /\ Len(toks) \in Nat /\ Len(toks) >= 1
  OBVIOUS
<1>2. s.at = "words" /\ s.cmd = NoCmd /\ s.tree = tree /\ s.full = <<>> /\ s.amb = {} /\ s.args = <<>>
  BY DEF Start
<1>3. w = Choose(k, s, tok, names)
  BY <1>2 DEF Step
<1>4. Resolve(k, tree, toks) = ResolveResult(Walk(k, tree, toks), 0)
  BY PlainLine
<1>5. Resolve(k, tree, <<tok>>) = ResolveResult(w, 0)
  <2>1. Resolve(k, tree, <<tok>>) = ResolveResult(Walk(k, tree, <<tok>>), 0)
    <3>1. <<tok>> # <<>> /\ <<tok>>[1] # "no"
      OBVIOUS
    <3> QED BY <1>1, <3>1, PlainLine
  <2>2. Len(<<tok>>) = 1 /\ <<tok>>[1] = tok
    OBVIOUS
  <2>3. Walk(k, tree, <<tok>>) = w
    BY <1>1, <2>2, WalkOfOne
  <2> QED BY <2>1, <2>3
<1> DEFINE x == Resolve(k, tree, <<tok>>)
<1>6. x.cmd = w.cmd /\ x.amb = w.amb /\ x.full = w.full
  BY <1>5 DEF ResolveResult
<1>7. ~((w.cmd # NoCmd \/ w.amb # {}) /\ words # w.full)
  BY <1>6 DEF Redirects
<1>8. w \in Places(k, tree, U)
  <2>1. s \in Places(k, tree, U)
    <3>1. s \in Records(k, tree, U)
      BY DEF Start, Records, TreesOf
    <3>2. Apart(s)
      BY DEF Start, Apart
    <3> QED BY <3>1, <3>2 DEF Places
  <2> QED BY <1>1, <2>1, StepStays
<1> HIDE DEF s, x
<1>9. ASSUME w.at \in {"arguments", "broken"}, w.cmd = NoCmd, w.amb = {}
      PROVE  Resolve(k, tree, toks).cmd = NoCmd /\ Resolve(k, tree, toks).amb = {}
  <2>1. Walk(k, tree, toks).cmd = NoCmd /\ Walk(k, tree, toks).amb = {}
    BY <1>1, <1>9, StuckStart DEF s
  <2> QED BY <1>4, <2>1 DEF ResolveResult
<1> HIDE DEF w
<1>10. CASE names = {} /\ Visible(tree, tok) = {}
  <2>1. w = [s EXCEPT !.args = Append(@, tok), !.at = "arguments"]
    BY <1>2, <1>3, <1>10 DEF Choose
  <2>2. w.at = "arguments" /\ w.cmd = NoCmd /\ w.amb = {}
    BY <2>1, <1>2 DEF s, Start
  <2> QED BY <1>9, <2>2
<1>11. CASE names = {} /\ Visible(tree, tok) # {}
  <2>1. w = [s EXCEPT !.amb = Visible(tree, tok), !.at = "ambiguous"]
    BY <1>2, <1>3, <1>11 DEF Choose
  <2>2. w.amb = Visible(tree, tok) /\ w.full = <<>>
    BY <2>1, <1>2 DEF s, Start
  <2> QED BY <1>7, <1>11, <2>2
<1>12. CASE names # {}
  <2>1. name \in DOMAIN tree /\ name \in names
    <3>1. names \subseteq DOMAIN tree
      BY <1>2 DEF StandsFor, Visible
    <3> QED BY <1>12, <3>1
  <2>2. w = FollowName(k, s, name)
    BY <1>3, <1>12 DEF Choose
  <2> HIDE DEF name
  <2>3. w = Follow(k, s, name, c)
    BY <1>2, <2>2 DEF FollowName
  <2>4. CASE Dangling(c)
    <3>1. w = [s EXCEPT !.at = "broken"]
      BY <2>3, <2>4 DEF Follow
    <3>2. w.at = "broken" /\ w.cmd = NoCmd /\ w.amb = {}
      BY <3>1, <1>2 DEF s, Start
    <3> QED BY <1>9, <3>2
  <2>5. CASE ~Dangling(c)
    <3>1. w.cmd = c /\ w.full = <<name>> /\ c # NoCmd
      <4> HIDE DEF c
      <4>1. w.cmd = c /\ w.full = Append(<<>>, name)
        BY <2>3, <2>5, <1>2 DEF Follow, s, Start
      <4>2. Append(<<>>, name) = <<name>>
        OBVIOUS
      <4> QED BY <4>1, <4>2, <2>5 DEF Dangling
    <3>2. words = <<name>>
      BY <1>7, <3>1
    <3>3. name \in Words /\ name # "no"
      <4>1. DOMAIN tree \subseteq Words
        BY DEF Family, IsTree, Words
      <4> QED BY <2>1, <4>1
    <3> DEFINE line == <<name>> \o Tail(toks)
    <3>4. /\ line \in Seq(Words) /\ Len(line) = Len(toks) /\ line[1] = name
          /\ \A i \in 2..Len(toks) : toks[i] = line[i]
      BY <1>1, <3>3
    <3>5. Step(k, s, name) = w
      <4>1. StandsFor(s, name) = {name}
        BY <1>2, <2>1 DEF StandsFor
      <4>2. (CHOOSE n \in {name} : TRUE) = name
        OBVIOUS
      <4>3. Step(k, s, name) = Choose(k, s, name, {name})
        BY <1>2, <4>1 DEF Step
      <4>4. Choose(k, s, name, {name}) = FollowName(k, s, name)
        BY <4>2 DEF Choose
      <4> QED BY <2>2, <4>3, <4>4
    <3> HIDE DEF line
    <3>6. Walk(k, tree, toks) = Walk(k, tree, line)
      BY <1>1, <3>4, <3>5, SameStart DEF s, w
    <3>7. line # <<>> /\ line[1] # "no"
      BY <1>1, <3>3, <3>4
    <3>8. Resolve(k, tree, line) = ResolveResult(Walk(k, tree, line), 0)
      BY <3>4, <3>7, PlainLine
    <3> QED BY <1>4, <3>2, <3>6, <3>8 DEF line
  <2> QED BY <2>4, <2>5
<1> QED BY <1>10, <1>11, <1>12

LEMMA AliasesHold ==
  ASSUME LineInv
  PROVE  AliasNeverRedirects
<1> SUFFICES ASSUME NEW line \in Lines,
                    Found(Split[line].words).cmd # NoCmd \/ Found(Split[line].words).amb # {}
             PROVE  SameMeaning(Found(Expanded(line)), Found(Split[line].words))
  BY DEF AliasNeverRedirects
<1> DEFINE toks == Split[line].words
           tree == trees[level]
           U == Under(kids, tree)
<1>1. toks \in Seq(Words) /\ level \in Level
  BY SplitWords DEF LineInv, TreesInv
<1>2. Family(kids, tree, U) /\ "no" \notin DOMAIN tree
  BY <1>1, UnderIsInTrees DEF LineInv, TreesInv, DiskTree
<1>3. Found(Split[line].words) = Resolve(kids, tree, toks)
  BY DEF Found
<1>4. Found(Expanded(line)) = Resolve(kids, tree, ExpandAlias(aliases[level], toks))
  BY DEF Found, Expanded
<1> HIDE DEF toks, tree, U
<1>5. CASE toks # <<>> /\ toks[1] \in DOMAIN aliases[level]
  <2> DEFINE words == aliases[level][toks[1]]
  <2>1. words \in Seq(Words) \ {<<>>}
    BY <1>1, <1>5 DEF LineInv, LinesInv
  <2>2. toks[1] # "no" /\ ~Redirects(Resolve(kids, tree, <<toks[1]>>), words)
    BY <1>1, <1>5 DEF LineInv, AliasInv, AliasesLeaveCommandsAlone, tree
  <2>3. ExpandAlias(aliases[level], toks) = words \o Tail(toks)
    BY <1>5 DEF ExpandAlias
  <2> HIDE DEF words
  <2>4. \/ Resolve(kids, tree, toks).cmd = NoCmd /\ Resolve(kids, tree, toks).amb = {}
        \/ Resolve(kids, tree, words \o Tail(toks)) = Resolve(kids, tree, toks)
    BY <1>1, <1>2, <1>5, <2>1, <2>2, AliasedWord
  <2> QED BY <1>3, <1>4, <2>3, <2>4 DEF SameMeaning
<1>6. CASE ~(toks # <<>> /\ toks[1] \in DOMAIN aliases[level])
  <2>1. ExpandAlias(aliases[level], toks) = toks
    BY <1>6 DEF ExpandAlias
  <2> QED BY <1>3, <1>4, <2>1 DEF SameMeaning
<1> QED BY <1>5, <1>6

\* Whatever aliases there are, a line that is a command or ambiguous without
\* them says the same with them, its arguments included.
THEOREM MeaningTheorem == Spec => []AliasNeverRedirects
<1>1. LineInv => AliasNeverRedirects
  BY AliasesHold
<1> QED BY <1>1, LineInit, LineStep, PTL DEF Spec

-----------------------------------------------------------------------------
(* Tab.  What Resolve made of a line, typed again in full, leads it to the *)
(* same place.                                                             *)

LEMMA AppendFacts ==
  ASSUME NEW s \in Seq(Words), NEW x \in Words
  PROVE  LET t == Append(s, x)
         IN /\ t \in Seq(Words) /\ t # <<>> /\ Len(t) = Len(s) + 1
            /\ t[Len(s) + 1] = x /\ t[Len(t)] = x
            /\ \A i \in 1..Len(s) : t[i] = s[i]
            /\ s # <<>> => t[1] = s[1]
            /\ s = <<>> => t[1] = x
  OBVIOUS

LEMMA ConcatEmpty ==
  ASSUME NEW s \in Seq(Words) PROVE s \o <<>> = s /\ <<>> \o s = s
  OBVIOUS

LEMMA ConcatAppend ==
  ASSUME NEW s \in Seq(Words), NEW t \in Seq(Words), NEW x \in Words
  PROVE  s \o t \in Seq(Words) /\ s \o Append(t, x) = Append(s \o t, x)
<1>1. Append(s \o t, x) \in Seq(Words) /\ s \o Append(t, x) \in Seq(Words)
  OBVIOUS
<1>2. /\ Len(s \o Append(t, x)) = Len(s) + Len(t) + 1
      /\ Len(Append(s \o t, x)) = Len(s) + Len(t) + 1
  OBVIOUS
<1>3. ASSUME NEW i \in 1..(Len(s) + Len(t) + 1)
      PROVE  (s \o Append(t, x))[i] = Append(s \o t, x)[i]
  OBVIOUS
<1> QED BY <1>1, <1>2, <1>3

LEMMA WalkInPlaces ==
  ASSUME NEW k, NEW tree, NEW U, Family(k, tree, U), NEW s \in Seq(Words)
  PROVE  Walk(k, tree, s) \in Places(k, tree, U)
<1>1. PICK g \in [0..Len(s) -> Places(k, tree, U)] : Walk(k, tree, s) = g[Len(s)]
  BY WalkStays
<1> QED BY <1>1

LEMMA WalkOfNone ==
  ASSUME NEW k, NEW tree, NEW U, Family(k, tree, U)
  PROVE  Walk(k, tree, <<>>) = Start(tree)
<1>1. <<>> \in Seq(Words) /\ Len(<<>>) = 0
  OBVIOUS
<1>2. PICK g \in [0..Len(<<>>) -> Places(k, tree, U)] :
        Walked(g, k, tree, <<>>) /\ Walk(k, tree, <<>>) = g[Len(<<>>)]
  BY <1>1, WalkStays
<1> QED BY <1>1, <1>2 DEF Walked

LEMMA WalkAppend ==
  ASSUME NEW k, NEW tree, NEW U, Family(k, tree, U), NEW s \in Seq(Words), NEW x \in Words
  PROVE  Walk(k, tree, Append(s, x)) = Step(k, Walk(k, tree, s), x)
<1> DEFINE n == Len(s)
           more == Append(s, x)
<1>1. n \in Nat /\ more \in Seq(Words) /\ Len(more) = n + 1 /\ more[n + 1] = x
  BY AppendedWord
<1>2. \A i \in 1..n : more[i] = s[i]
  OBVIOUS
<1> HIDE DEF more
<1>3. PICK g \in [0..n -> Places(k, tree, U)] :
        Walked(g, k, tree, s) /\ Walk(k, tree, s) = g[n]
  BY WalkStays
<1>4. PICK h \in [0..Len(more) -> Places(k, tree, U)] :
        Walked(h, k, tree, more) /\ Walk(k, tree, more) = h[Len(more)]
  BY <1>1, WalkStays
<1>5. g[0] = Start(tree) /\ \A i \in 1..n : g[i] = Step(k, g[i - 1], s[i])
  BY <1>3 DEF Walked
<1>6. h[0] = Start(tree) /\ \A i \in 1..(n + 1) : h[i] = Step(k, h[i - 1], more[i])
  BY <1>1, <1>4 DEF Walked
<1> HIDE DEF n
<1>7. 0..n \subseteq {i \in 0..n : h[i] = g[i]}
  <2> DEFINE S == {i \in 0..n : h[i] = g[i]}
  <2>1. 0 \in S
    BY <1>1, <1>5, <1>6
  <2>2. ASSUME NEW i \in 0..(n - 1), i \in S PROVE i + 1 \in S
    <3>1. i + 1 \in 1..n /\ i + 1 \in 1..(n + 1) /\ (i + 1) - 1 = i
      BY <1>1
    <3>2. h[i + 1] = Step(k, h[i], more[i + 1])
      BY <1>6, <3>1
    <3>3. g[i + 1] = Step(k, g[i], s[i + 1])
      BY <1>5, <3>1
    <3> QED BY <1>2, <2>2, <3>1, <3>2, <3>3
  <2>3. 0..n \subseteq S
    <3> HIDE DEF S
    <3> QED BY <1>1, <2>1, <2>2, Induct
  <2> QED BY <2>3
<1>8. h[n] = g[n]
  BY <1>1, <1>7
<1>9. n + 1 \in 1..(n + 1) /\ (n + 1) - 1 = n
  BY <1>1
<1>10. h[n + 1] = Step(k, h[n], more[n + 1])
  BY <1>6, <1>9
<1> QED BY <1>1, <1>3, <1>4, <1>8, <1>10 DEF more

\* What is known of the place w that the words s lead to.
Typable(k, tree, s, w) ==
  /\ w.at = "ambiguous" => w.amb # {}
  /\ w.at \in {"words", "arguments"} =>
       /\ Walk(k, tree, w.full \o w.args) = w
       /\ w.at = "words" => w.args = <<>> /\ Len(w.full) = Len(s)
       /\ w.args # <<>> => s # <<>> /\ w.args[Len(w.args)] = s[Len(s)]
       /\ w.full = <<>> => w.cmd = NoCmd /\ w.tree = tree
       /\ w.full # <<>> => w.full[1] \in DOMAIN tree /\ w.full[Len(w.full)] # ""

\* An argument typed again is one again.
LEMMA ArgumentRetyped ==
  ASSUME NEW k, NEW tree, NEW U, Family(k, tree, U), NEW s \in Seq(Words), NEW x \in Words,
         NEW w \in Places(k, tree, U), w.at \in {"words", "arguments"}, Typable(k, tree, s, w),
         Step(k, w, x) = [w EXCEPT !.args = Append(@, x), !.at = "arguments"]
  PROVE  Typable(k, tree, Append(s, x), Step(k, w, x))
<1> DEFINE v == [w EXCEPT !.args = Append(@, x), !.at = "arguments"]
<1>1. w \in Records(k, tree, U) /\ w.full \in Seq(Words) /\ w.args \in Seq(Words)
  BY DEF Places, Records
<1>2. /\ v.at = "arguments" /\ v.full = w.full /\ v.args = Append(w.args, x)
      /\ v.cmd = w.cmd /\ v.tree = w.tree
  BY <1>1 DEF Records
<1> HIDE DEF v
<1>3. w.full \o w.args \in Seq(Words) /\ w.full \o Append(w.args, x) = Append(w.full \o w.args, x)
  <2> DEFINE f == w.full
             a == w.args
  <2>1. f \in Seq(Words) /\ a \in Seq(Words)
    BY <1>1
  <2> HIDE DEF f, a
  <2>2. f \o a \in Seq(Words) /\ f \o Append(a, x) = Append(f \o a, x)
    BY <2>1, ConcatAppend
  <2> QED BY <2>2, Zenon DEF f, a
<1>4. Walk(k, tree, w.full \o w.args) = w
  BY DEF Typable
<1>5. Walk(k, tree, v.full \o v.args) = v
  <2>1. Walk(k, tree, Append(w.full \o w.args, x)) = Step(k, Walk(k, tree, w.full \o w.args), x)
    <3> DEFINE t == w.full \o w.args
    <3>1. t \in Seq(Words)
      BY <1>3
    <3> HIDE DEF t
    <3>2. Walk(k, tree, Append(t, x)) = Step(k, Walk(k, tree, t), x)
      BY <3>1, WalkAppend
    <3> QED BY <3>2, Zenon DEF t
  <2>2. Step(k, w, x) = v
    BY DEF v
  <2> QED BY <1>2, <1>3, <1>4, <2>1, <2>2
<1>6. /\ Append(w.args, x)[Len(Append(w.args, x))] = x
      /\ Append(s, x) # <<>> /\ Append(s, x)[Len(Append(s, x))] = x
  BY <1>1, AppendFacts
<1>7. /\ w.full = <<>> => w.cmd = NoCmd /\ w.tree = tree
      /\ w.full # <<>> => w.full[1] \in DOMAIN tree /\ w.full[Len(w.full)] # ""
  BY DEF Typable
<1>8. Typable(k, tree, Append(s, x), v)
  BY <1>2, <1>5, <1>6, <1>7 DEF Typable
<1> QED BY <1>8 DEF v

\* A command's name in full stands for that command.
LEMMA NameRetyped ==
  ASSUME NEW k, NEW tree, NEW U, Family(k, tree, U), NEW s \in Seq(Words), NEW x \in Words,
         NEW w \in Places(k, tree, U), w.at = "words", Typable(k, tree, s, w),
         NEW n \in DOMAIN w.tree, Step(k, w, x) = FollowName(k, w, n)
  PROVE  Typable(k, tree, Append(s, x), Step(k, w, x))
<1> DEFINE c == Chase(w.tree, w.tree[n])
<1>1. w \in Records(k, tree, U) /\ w.full \in Seq(Words) /\ w.tree \in TreesOf(k, tree, U)
  BY DEF Places, Records
<1>2. n \in Words /\ n # ""
  BY <1>1, TreesOfAreTrees
<1>3. /\ w.args = <<>> /\ Len(w.full) = Len(s) /\ Walk(k, tree, w.full \o w.args) = w
      /\ w.full = <<>> => w.tree = tree
      /\ w.full # <<>> => w.full[1] \in DOMAIN tree
  BY DEF Typable
<1>4. CASE Dangling(c)
  <2>1. FollowName(k, w, n) = [w EXCEPT !.at = "broken"]
    BY <1>4 DEF FollowName, Follow
  <2>2. [w EXCEPT !.at = "broken"].at = "broken"
    BY <1>1 DEF Records
  <2> QED BY <2>1, <2>2 DEF Typable
<1>5. CASE ~Dangling(c)
  <2> DEFINE v == [w EXCEPT !.cmd = c, !.full = Append(@, n),
                   !.tree = IF k[c] = NoTree THEN @ ELSE k[c],
                   !.at = IF k[c] = NoTree THEN "arguments" ELSE "words"]
  <2>1. FollowName(k, w, n) = v
    BY <1>5 DEF FollowName, Follow
  <2>2. /\ v.at \in {"words", "arguments"} /\ v.full = Append(w.full, n) /\ v.args = <<>>
    BY <1>1, <1>3 DEF Records
  <2> HIDE DEF v
  <2>3. Step(k, w, n) = v
    <3>1. StandsFor(w, n) = {n} /\ (CHOOSE m \in {n} : TRUE) = n
      BY DEF StandsFor
    <3>2. Step(k, w, n) = FollowName(k, w, n)
      BY <3>1 DEF Step, Choose
    <3> QED BY <2>1, <3>2
  <2>4. Walk(k, tree, v.full \o v.args) = v
    <3>1. w.full \o w.args = w.full
      BY <1>1, <1>3, ConcatEmpty
    <3>2. Append(w.full, n) \o <<>> = Append(w.full, n)
      <4>1. Append(w.full, n) \in Seq(Words)
        BY <1>1, <1>2, AppendedWord
      <4> QED BY <4>1, ConcatEmpty
    <3>3. Walk(k, tree, Append(w.full, n)) = Step(k, Walk(k, tree, w.full), n)
      BY <1>1, <1>2, WalkAppend
    <3>4. Walk(k, tree, w.full) = w
      BY <1>3, <3>1
    <3> QED BY <2>2, <2>3, <3>2, <3>3, <3>4
  <2>5. Len(Append(w.full, n)) = Len(Append(s, x)) /\ Append(w.full, n) # <<>>
    <3>1. Len(Append(w.full, n)) = Len(w.full) + 1 /\ Append(w.full, n) # <<>>
      BY <1>1, <1>2, AppendFacts
    <3>2. Len(Append(s, x)) = Len(s) + 1
      BY AppendFacts
    <3> QED BY <1>3, <3>1, <3>2
  <2>6. Append(w.full, n)[Len(Append(w.full, n))] = n
    BY <1>1, <1>2, AppendFacts
  <2>7. Append(w.full, n)[1] \in DOMAIN tree
    <3>1. CASE w.full = <<>>
      <4>1. Append(<<>>, n)[1] = n
        OBVIOUS
      <4> QED BY <1>3, <3>1, <4>1
    <3>2. CASE w.full # <<>>
      <4>1. Append(w.full, n)[1] = w.full[1]
        BY <1>1, <1>2, <3>2, AppendFacts
      <4> QED BY <1>3, <3>2, <4>1
    <3> QED BY <3>1, <3>2
  <2>8. Typable(k, tree, Append(s, x), v)
    BY <1>2, <2>2, <2>4, <2>5, <2>6, <2>7 DEF Typable
  <2> QED BY <2>1, <2>8
<1> QED BY <1>4, <1>5

LEMMA TypableStep ==
  ASSUME NEW k, NEW tree, NEW U, Family(k, tree, U), NEW s \in Seq(Words), NEW x \in Words,
         NEW w \in Places(k, tree, U), Typable(k, tree, s, w)
  PROVE  Typable(k, tree, Append(s, x), Step(k, w, x))
<1>1. w \in Records(k, tree, U) /\ w.at \in {"words", "arguments", "ambiguous", "broken"}
  BY DEF Places, Records
<1>2. CASE w.at = "arguments"
  <2>1. [w EXCEPT !.args = Append(@, x)] = [w EXCEPT !.args = Append(@, x), !.at = "arguments"]
    BY <1>1, <1>2 DEF Records
  <2>2. Step(k, w, x) = [w EXCEPT !.args = Append(@, x)]
    BY <1>2 DEF Step
  <2> QED BY <1>2, <2>1, <2>2, ArgumentRetyped
<1>3. CASE w.at \in {"ambiguous", "broken"}
  <2>1. Step(k, w, x) = w
    BY <1>3 DEF Step
  <2> QED BY <1>3, <2>1 DEF Typable
<1>4. CASE w.at = "words"
  <2> DEFINE names == StandsFor(w, x)
  <2>1. Step(k, w, x) = Choose(k, w, x, names)
    BY <1>4 DEF Step
  <2>2. names \subseteq DOMAIN w.tree
    BY DEF StandsFor, Visible
  <2> HIDE DEF names
  <2>3. CASE names # {}
    <3>1. PICK n \in DOMAIN w.tree : n = CHOOSE m \in names : TRUE
      BY <2>2, <2>3
    <3>2. Step(k, w, x) = FollowName(k, w, n)
      BY <2>1, <2>3, <3>1 DEF Choose
    <3> QED BY <1>4, <3>2, NameRetyped
  <2>4. CASE names = {} /\ Visible(w.tree, x) = {}
    <3>1. Step(k, w, x) = [w EXCEPT !.args = Append(@, x), !.at = "arguments"]
      BY <2>1, <2>4 DEF Choose
    <3> QED BY <1>4, <3>1, ArgumentRetyped
  <2>5. CASE names = {} /\ Visible(w.tree, x) # {}
    <3>1. Step(k, w, x) = [w EXCEPT !.amb = Visible(w.tree, x), !.at = "ambiguous"]
      BY <2>1, <2>5 DEF Choose
    <3>2. Step(k, w, x).at = "ambiguous" /\ Step(k, w, x).amb # {}
      BY <1>1, <2>5, <3>1 DEF Records
    <3> QED BY <3>2 DEF Typable
  <2> QED BY <2>3, <2>4, <2>5
<1> QED BY <1>1, <1>2, <1>3, <1>4

LEMMA WalkIsTypable ==
  ASSUME NEW k, NEW tree, NEW U, Family(k, tree, U), NEW s \in Seq(Words)
  PROVE  Typable(k, tree, s, Walk(k, tree, s))
<1> DEFINE n == Len(s)
           part(i) == SubSeq(s, 1, i)
           S == {i \in 0..n : Typable(k, tree, part(i), Walk(k, tree, part(i)))}
<1>1. n \in Nat /\ part(0) = <<>> /\ part(n) = s
  OBVIOUS
<1>2. ASSUME NEW i \in 0..(n - 1)
      PROVE  /\ i \in 0..n /\ i + 1 \in 0..n /\ part(i) \in Seq(Words)
             /\ s[i + 1] \in Words /\ part(i + 1) = Append(part(i), s[i + 1])
  OBVIOUS
<1> HIDE DEF part, n
<1>3. 0 \in S
  <2>1. Walk(k, tree, <<>>) = Start(tree)
    BY WalkOfNone
  <2>2. Typable(k, tree, <<>>, Start(tree))
    <3>1. Start(tree).full = <<>> /\ Start(tree).args = <<>> /\ <<>> \o <<>> = <<>> /\ Len(<<>>) = 0
      BY DEF Start
    <3>2. /\ Start(tree).at = "words" /\ Start(tree).cmd = NoCmd /\ Start(tree).tree = tree
      BY DEF Start
    <3> QED BY <2>1, <3>1, <3>2 DEF Typable
  <2> QED BY <1>1, <2>1, <2>2
<1>4. ASSUME NEW i \in 0..(n - 1), i \in S PROVE i + 1 \in S
  <2>1. /\ i + 1 \in 0..n /\ part(i) \in Seq(Words)
        /\ s[i + 1] \in Words /\ part(i + 1) = Append(part(i), s[i + 1])
    BY <1>2
  <2>2. Walk(k, tree, part(i)) \in Places(k, tree, U)
    BY <2>1, WalkInPlaces
  <2>3. Walk(k, tree, part(i + 1)) = Step(k, Walk(k, tree, part(i)), s[i + 1])
    <3>1. Walk(k, tree, Append(part(i), s[i + 1])) = Step(k, Walk(k, tree, part(i)), s[i + 1])
      BY <2>1, WalkAppend
    <3> QED BY <2>1, <3>1
  <2>4. Typable(k, tree, part(i), Walk(k, tree, part(i)))
    BY <1>4
  <2> HIDE DEF S
  <2>5. Typable(k, tree, part(i + 1), Walk(k, tree, part(i + 1)))
    <3>1. Typable(k, tree, Append(part(i), s[i + 1]), Step(k, Walk(k, tree, part(i)), s[i + 1]))
      BY <2>1, <2>2, <2>4, TypableStep
    <3> QED BY <2>1, <2>3, <3>1
  <2> QED BY <2>1, <2>5 DEF S
<1>5. 0..n \subseteq S
  <2> HIDE DEF S
  <2> QED BY <1>1, <1>3, <1>4, Induct
<1>6. n \in S
  BY <1>1, <1>5
<1> QED BY <1>1, <1>6

\* A line that does not hold the help command's words is completed as it is.
LEMMA UnwrapIdle ==
  ASSUME NEW k, NEW tree, NEW toks \in Seq(Words),
         ~HelpTakes(tree, Resolve(k, tree, toks))
  PROVE  Unwrap(k, tree, toks) = [prefix |-> <<>>, toks |-> toks]
<1> DEFINE n == Len(toks)
           a == [prefix |-> <<>>, toks |-> toks]
           Turn(p) == Unwrapped(tree, p, Resolve(k, tree, p.toks))
           inner[i \in 0..n] ==
             IF i = 0 THEN [prefix |-> <<>>, toks |-> toks]
             ELSE Unwrapped(tree, inner[i - 1], Resolve(k, tree, inner[i - 1].toks))
           F(g) == [i \in 0..n |->
                      IF i = 0 THEN [prefix |-> <<>>, toks |-> toks]
                      ELSE Unwrapped(tree, g[i - 1], Resolve(k, tree, g[i - 1].toks))]
           g == [i \in 0..n |-> a]
<1>1. n \in Nat
  OBVIOUS
<1>2. Turn(a) = a
  BY DEF Unwrapped
<1>3. g = F(g)
  <2>1. \A i \in 0..n : g[i] = IF i = 0 THEN a ELSE Turn(g[i - 1])
    <3>1. ASSUME NEW i \in 0..n PROVE g[i] = IF i = 0 THEN a ELSE Turn(g[i - 1])
      <4> HIDE DEF Turn, a, n
      <4>1. i # 0 => i - 1 \in 0..n
        BY <1>1
      <4> QED BY <1>2, <4>1
    <3> QED BY <3>1
  <2> HIDE DEF n
  <2> QED BY <2>1
<1>4. inner = F(inner)
  BY <1>3
<1> HIDE DEF inner
<1>5. Unwrap(k, tree, toks) = inner[n]
  BY DEF Unwrap, inner
<1>6. \A i \in 0..n : inner[i] = IF i = 0 THEN a ELSE Turn(inner[i - 1])
  BY <1>4
<1>7. 0..n \subseteq {i \in 0..n : inner[i] = a}
  <2> DEFINE S == {i \in 0..n : inner[i] = a}
  <2> HIDE DEF Turn, a, n, F, g
  <2>1. 0 \in S
    BY <1>1, <1>6
  <2>2. ASSUME NEW i \in 0..(n - 1), i \in S PROVE i + 1 \in S
    <3>1. i + 1 \in 0..n /\ (i + 1) - 1 = i /\ i + 1 # 0
      BY <1>1
    <3> QED BY <1>2, <1>6, <2>2, <3>1
  <2>3. 0..n \subseteq S
    <3> HIDE DEF S
    <3> QED BY <1>1, <2>1, <2>2, Induct
  <2> QED BY <2>3
<1>8. inner[n] = a
  BY <1>1, <1>7
<1> QED BY <1>5, <1>8

Not(b) == IF b THEN <<"no">> ELSE <<>>

\* A "no" is taken off, the words after it are what is resolved.
LEMMA NotStripped ==
  ASSUME NEW b \in BOOLEAN, b => "no" \in Words,
         NEW s \in Seq(Words), s # <<>>, s[1] # "no"
  PROVE  /\ Not(b) \o s \in Seq(Words) /\ Len(Not(b) \o s) = Len(s) + (IF b THEN 1 ELSE 0)
         /\ Noes(Not(b) \o s) = IF b THEN 1 ELSE 0
         /\ WithoutNo(Not(b) \o s, Noes(Not(b) \o s)) = s
<1>1. CASE b
  <2> DEFINE toks == <<"no">> \o s
  <2>1. Not(b) \o s = toks
    BY <1>1 DEF Not
  <2>2. /\ toks \in Seq(Words) /\ Len(toks) = Len(s) + 1 /\ Len(s) > 0
        /\ toks[1] = "no" /\ toks[2] = s[1] /\ SubSeq(toks, 2, Len(toks)) = s
    BY <1>1
  <2> HIDE DEF toks
  <2> DEFINE no == Noes(toks)
  <2>3. /\ no \in 0..Len(toks) /\ \A j \in 1..no : toks[j] = "no"
        /\ no < Len(toks) => toks[no + 1] # "no"
    BY <2>2, NoesAreLeading
  <2> HIDE DEF no
  <2>4. no = 1
    <3>1. no # 0
      BY <2>2, <2>3
    <3>2. ~(no >= 2)
      BY <2>2, <2>3
    <3> QED BY <2>2, <2>3, <3>1, <3>2
  <2>5. WithoutNo(toks, 1) = s
    BY <2>2 DEF WithoutNo
  <2> QED BY <1>1, <2>1, <2>2, <2>4, <2>5 DEF no
<1>2. CASE ~b
  <2>1. Not(b) \o s = s
    BY <1>2, ConcatEmpty DEF Not
  <2> DEFINE no == Noes(s)
  <2>2. no \in 0..Len(s) /\ \A j \in 1..no : s[j] = "no"
    BY NoesAreLeading
  <2> HIDE DEF no
  <2>3. no = 0
    BY <2>2
  <2>4. WithoutNo(s, 0) = s
    BY DEF WithoutNo
  <2> QED BY <1>2, <2>1, <2>3, <2>4 DEF no
<1> QED BY <1>1, <1>2

LEMMA NotResolved ==
  ASSUME NEW k, NEW tree, NEW b \in BOOLEAN, b => "no" \in Words,
         NEW s \in Seq(Words), s # <<>>, s[1] # "no"
  PROVE  Resolve(k, tree, Not(b) \o s) = ResolveResult(Walk(k, tree, s), IF b THEN 1 ELSE 0)
<1>1. /\ Noes(Not(b) \o s) = IF b THEN 1 ELSE 0
      /\ WithoutNo(Not(b) \o s, Noes(Not(b) \o s)) = s
  BY NotStripped
<1> QED BY <1>1 DEF Resolve

LEMMA SameWords ==
  ASSUME NEW s \in Seq(Words), NEW t \in Seq(Words), Len(s) = Len(t),
         \A i \in 1..Len(t) : s[i] = t[i]
  PROVE  s = t
  OBVIOUS

LEMMA LineParts ==
  ASSUME NEW line \in Seq(Words), Noes(line) <= 1
  PROVE  \E b \in BOOLEAN, s \in Seq(Words) :
           /\ line = Not(b) \o s /\ Noes(line) = (IF b THEN 1 ELSE 0)
           /\ s = WithoutNo(line, Noes(line))
           /\ b => "no" \in Words
           /\ s # <<>> => s[1] # "no"
<1> DEFINE no == Noes(line)
           s == WithoutNo(line, no)
<1>1. /\ no \in 0..Len(line) /\ \A j \in 1..no : line[j] = "no"
      /\ no < Len(line) => line[no + 1] # "no"
  BY NoesAreLeading
<1>2. no \in {0, 1}
  BY <1>1
<1> HIDE DEF no
<1>3. s \in Seq(Words) /\ Len(s) = Len(line) - no /\ \A i \in 1..Len(s) : s[i] = line[i + no]
  BY <1>1 DEF WithoutNo
<1>4. s # <<>> => s[1] # "no"
  BY <1>1, <1>2, <1>3
<1>5. CASE no = 0
  <2>1. line = s
    BY <1>5 DEF WithoutNo
  <2>2. Not(FALSE) \o s = s
    BY <1>3, ConcatEmpty DEF Not
  <2> HIDE DEF s
  <2>3. /\ line = Not(FALSE) \o s /\ Noes(line) = (IF FALSE THEN 1 ELSE 0)
        /\ s = WithoutNo(line, Noes(line))
        /\ FALSE => "no" \in Words
        /\ s # <<>> => s[1] # "no"
    BY <1>4, <1>5, <2>1, <2>2 DEF s, no
  <2> QED BY <1>3, <2>3
<1>6. CASE no = 1
  <2>1. line[1] = "no" /\ 1 <= Len(line)
    BY <1>1, <1>6
  <2>2. "no" \in Words
    BY <2>1
  <2>3. Not(TRUE) \o s = <<"no">> \o s
    BY DEF Not
  <2> HIDE DEF s
  <2>4. line = <<"no">> \o s
    <3> DEFINE t == <<"no">> \o s
    <3>1. t \in Seq(Words) /\ Len(t) = Len(line)
      BY <1>3, <1>6, <2>1, <2>2
    <3>2. ASSUME NEW i \in 1..Len(line) PROVE t[i] = line[i]
      BY <1>3, <1>6, <2>1
    <3>3. t = line
      <4> HIDE DEF t
      <4> QED BY <3>1, <3>2, SameWords
    <3> QED BY <3>3
  <2>5. /\ line = Not(TRUE) \o s /\ Noes(line) = (IF TRUE THEN 1 ELSE 0)
        /\ s = WithoutNo(line, Noes(line))
        /\ TRUE => "no" \in Words
        /\ s # <<>> => s[1] # "no"
    BY <1>4, <1>6, <2>2, <2>3, <2>4 DEF s, no
  <2> QED BY <1>3, <2>5
<1> QED BY <1>2, <1>5, <1>6

LEMMA ConcatLast ==
  ASSUME NEW s \in Seq(Words), NEW t \in Seq(Words), t # <<>>
  PROVE  (s \o t)[Len(s \o t)] = t[Len(t)]
  OBVIOUS

LEMMA ConcatEnds ==
  ASSUME NEW s \in Seq(Words), NEW t \in Seq(Words)
  PROVE  /\ s \o t \in Seq(Words)
         /\ s # <<>> => s \o t # <<>> /\ (s \o t)[1] = s[1]
         /\ t # <<>> => s \o t # <<>>
  OBVIOUS

LEMMA NotWords ==
  ASSUME NEW b \in BOOLEAN, b => "no" \in Words
  PROVE  Not(b) \in Seq(Words) /\ Len(Not(b)) = (IF b THEN 1 ELSE 0)
  BY DEF Not

LEMMA ConcatThree ==
  ASSUME NEW r \in Seq(Words), NEW s \in Seq(Words), NEW t \in Seq(Words)
  PROVE  r \o s \o t = r \o (s \o t)
<1>1. /\ Len(r \o s \o t) = Len(r) + Len(s) + Len(t)
      /\ Len(r \o (s \o t)) = Len(r) + Len(s) + Len(t)
      /\ r \o s \o t \in Seq(Words) /\ r \o (s \o t) \in Seq(Words)
  OBVIOUS
<1>2. ASSUME NEW i \in 1..(Len(r) + Len(s) + Len(t))
      PROVE  (r \o s \o t)[i] = (r \o (s \o t))[i]
  OBVIOUS
<1> QED BY <1>1, <1>2

LEMMA AppendToNone ==
  ASSUME NEW x PROVE Append(<<>>, x) = <<x>>
  OBVIOUS

LEMMA NegationShown ==
  ASSUME NEW w, NEW b \in BOOLEAN
  PROVE  ResolveResult(w, IF b THEN 1 ELSE 0).negated = b
<1>1. ResolveResult(w, 1).negated = TRUE /\ ResolveResult(w, 0).negated = FALSE
  <2>1. ResolveResult(w, 1).negated = (1 > 0)
    BY Zenon DEF ResolveResult
  <2>2. ResolveResult(w, 0).negated = (0 > 0)
    BY Zenon DEF ResolveResult
  <2>3. (1 > 0) = TRUE /\ (0 > 0) = FALSE
    OBVIOUS
  <2> QED BY <2>1, <2>2, <2>3
<1>2. CASE b = TRUE
  BY <1>1, <1>2
<1>3. CASE b = FALSE
  BY <1>1, <1>3
<1> QED BY <1>2, <1>3

\* Words with the place behind them where nothing is typed yet.
Gap(s) == Append(s, "")

LEMMA SubSeqOfAppend ==
  ASSUME NEW s \in Seq(Words), NEW x \in Words
  PROVE  LET t == Append(s, x) IN SubSeq(t, 1, Len(t) - 1) = s
<1>1. SubSeq(Append(s, x), 1, Len(s)) = s /\ Len(Append(s, x)) - 1 = Len(s)
  OBVIOUS
<1> QED BY <1>1

LEMMA GapFacts ==
  ASSUME NEW s \in Seq(Words), "" \in Words
  PROVE  /\ Gap(s) \in Seq(Words) /\ Gap(s) # <<>> /\ Len(Gap(s)) = Len(s) + 1
         /\ Gap(s)[Len(Gap(s))] = ""
         /\ s # <<>> => Gap(s)[1] = s[1]
         /\ s = <<>> => Gap(s) = <<"">>
         /\ SubSeq(Gap(s), 1, Len(Gap(s)) - 1) = s
         /\ \A t \in Seq(Words) : t \o Gap(s) = Gap(t \o s)
<1>1. ASSUME NEW x \in Words, NEW t \in Seq(Words), t = Append(s, x)
      PROVE  /\ t # <<>> /\ Len(t) = Len(s) + 1 /\ t[Len(t)] = x
             /\ s # <<>> => t[1] = s[1]
             /\ s = <<>> => t = <<x>>
             /\ SubSeq(t, 1, Len(t) - 1) = s
  BY <1>1, AppendFacts, AppendToNone, SubSeqOfAppend
<1>2. Gap(s) \in Seq(Words)
  BY AppendedWord DEF Gap
<1>3. \A t \in Seq(Words) : t \o Gap(s) = Gap(t \o s)
  BY ConcatAppend DEF Gap
<1>4. Gap(s) = Append(s, "")
  BY DEF Gap
<1> QED BY <1>1, <1>2, <1>3, <1>4

\* The place where nothing is typed yet is the last one.
LEMMA AmbiguousLast ==
  ASSUME NEW r, r.full \in Seq(Words), r.negated \in BOOLEAN,
         NEW y \in Seq(Words), Len(y) = Len(r.full) + 1,
         NEW toks \in Seq(Words), Len(toks) = Len(y) + (IF r.negated THEN 1 ELSE 0)
  PROVE  AmbiguousWord(toks, r) = <<toks[Len(toks)]>>
<1> DEFINE f == r.full
           no == r.negated
           at == AmbigAt(r)
           len == Len(toks)
<1>1. at = Len(f) + (IF no THEN 2 ELSE 1)
  BY DEF AmbigAt
<1>2. /\ f \in Seq(Words) /\ no \in BOOLEAN
      /\ Len(y) = Len(f) + 1 /\ len = Len(y) + (IF no THEN 1 ELSE 0)
  OBVIOUS
<1> HIDE DEF f, no, at, len
<1>3. Len(f) \in Nat
  BY <1>2
<1>4. at = len /\ at <= len
  <2>1. CASE no
    BY <1>1, <1>2, <1>3, <2>1
  <2>2. CASE ~no
    BY <1>1, <1>2, <1>3, <2>2
  <2> QED BY <2>1, <2>2
<1> QED BY <1>4 DEF AmbiguousWord, at, len

\* The words s of a line, its "no" taken off, end at w, and the line is finished.
Ended(k, tree, b, s, w) ==
  /\ w = Walk(k, tree, s)
  /\ b \in BOOLEAN /\ (b => "no" \in Words)
  /\ s \in Seq(Words) /\ s # <<>> /\ s[1] # "no"
  /\ w.at \in {"words", "arguments"}
  /\ w.at = "words" => RunnableAsIs(w.cmd, w.args)
  /\ ~IsHelp(tree, w.cmd)
Leaves(k, tree, b, w, y) ==
  TabLine(k, tree, Not(b) \o y)
    \in {Not(b) \o (w.full \o w.args), Not(b) \o Gap(w.full \o w.args)}

\* What Tab leaves of a finished line: what it means, in full, perhaps with the
\* place where nothing is typed yet behind it.
LEMMA TabLeaves ==
  ASSUME NEW k, NEW tree, NEW U, Family(k, tree, U), "" \in Words,
         NEW b, NEW s, NEW w, Ended(k, tree, b, s, w),
         NEW y \in {s, Gap(s)}
  PROVE  Leaves(k, tree, b, w, y)
<1> DEFINE toks == Not(b) \o y
           v == Walk(k, tree, y)
           r == Resolve(k, tree, toks)
           z == IF r.amb # {} THEN AmbiguousWord(toks, r) ELSE r.args
<1>0. /\ w = Walk(k, tree, s)
      /\ b \in BOOLEAN /\ (b => "no" \in Words)
      /\ s \in Seq(Words) /\ s # <<>> /\ s[1] # "no"
      /\ w.at \in {"words", "arguments"}
      /\ w.at = "words" => RunnableAsIs(w.cmd, w.args)
      /\ ~IsHelp(tree, w.cmd)
  BY DEF Ended
<1>1. /\ w.full \in Seq(Words) /\ w.args \in Seq(Words) /\ w.amb = {}
      /\ w.tree \in TreesOf(k, tree, U) /\ w \in Records(k, tree, U)
  <2>1. w \in Places(k, tree, U)
    BY <1>0, WalkInPlaces
  <2> QED BY <1>0, <2>1 DEF Places, Records, Apart
<1>2. w.at = "words" => w.args = <<>> /\ Len(w.full) = Len(s)
  <2>1. Typable(k, tree, s, w)
    BY <1>0, WalkIsTypable
  <2> QED BY <2>1 DEF Typable
<1>3. y \in Seq(Words) /\ y # <<>> /\ y[1] # "no"
  <2>1. CASE y = s
    BY <1>0, <2>1
  <2>2. CASE y = Gap(s)
    BY <1>0, <2>2, GapFacts
  <2> QED BY <2>1, <2>2
<1>4. r = ResolveResult(v, IF b THEN 1 ELSE 0)
  BY <1>0, <1>3, NotResolved
<1>5. /\ toks \in Seq(Words) /\ Len(toks) = Len(y) + (IF b THEN 1 ELSE 0)
      /\ y = Gap(s) => Len(y) = Len(s) + 1 /\ toks[Len(toks)] = ""
  <2>1. toks \in Seq(Words) /\ Len(toks) = Len(y) + (IF b THEN 1 ELSE 0)
    BY <1>0, <1>3, NotStripped
  <2>2. toks[Len(toks)] = y[Len(y)]
    <3>1. Not(b) \in Seq(Words)
      BY <1>0, NotWords
    <3> QED BY <1>3, <3>1, ConcatLast
  <2>3. ASSUME y = Gap(s) PROVE Len(y) = Len(s) + 1 /\ y[Len(y)] = ""
    BY <1>0, <2>3, GapFacts
  <2> HIDE DEF toks
  <2> QED BY <2>1, <2>2, <2>3
<1>6. \/ v = w
      \/ v.full = w.full /\ v.cmd = w.cmd /\ v.amb = {} /\ v.args = Gap(w.args)
      \/ /\ v.full = w.full /\ v.cmd = w.cmd /\ v.amb # {} /\ w.args = <<>>
         /\ y = Gap(s) /\ Len(w.full) = Len(s)
  <2>1. CASE y = s
    BY <1>0, <2>1
  <2>2. CASE y = Gap(s)
    <3>1. v = Step(k, w, "")
      BY <1>0, <2>2, WalkAppend DEF Gap
    <3> HIDE DEF v
    <3>2. CASE w.at = "arguments"
      <4>1. v = [w EXCEPT !.args = Gap(@)]
        BY <3>1, <3>2 DEF Step, Gap
      <4> QED BY <1>1, <4>1 DEF Records
    <3>3. CASE w.at = "words"
      <4>1. "" \notin DOMAIN w.tree
        BY <1>1, TreesOfAreTrees
      <4>2. StandsFor(w, "") = {}
        BY <1>0, <1>2, <3>3, <4>1 DEF StandsFor
      <4>3. Step(k, w, "") = Choose(k, w, "", {})
        BY <3>3, <4>2 DEF Step
      <4>4. CASE Visible(w.tree, "") = {}
        <5>1. v = [w EXCEPT !.args = Gap(@), !.at = "arguments"]
          BY <3>1, <4>3, <4>4 DEF Choose, Gap
        <5> QED BY <1>1, <5>1 DEF Records
      <4>5. CASE Visible(w.tree, "") # {}
        <5>1. v = [w EXCEPT !.amb = Visible(w.tree, ""), !.at = "ambiguous"]
          BY <3>1, <4>3, <4>5 DEF Choose
        <5>2. v.full = w.full /\ v.cmd = w.cmd /\ v.amb = Visible(w.tree, "")
          BY <1>1, <5>1 DEF Records
        <5> QED BY <1>2, <2>2, <3>3, <4>5, <5>2
      <4> QED BY <4>4, <4>5
    <3> QED BY <1>0, <3>2, <3>3
  <2> QED BY <2>1, <2>2
<1>7. r.full = v.full /\ r.cmd = v.cmd /\ r.amb = v.amb /\ r.args = v.args /\ r.negated = b
  <2> HIDE DEF r, v
  <2>1. r.full = v.full /\ r.cmd = v.cmd /\ r.amb = v.amb /\ r.args = v.args
    BY <1>4 DEF ResolveResult
  <2>3. r.negated = b
    BY <1>0, <1>4, NegationShown
  <2> QED BY <2>1, <2>3
<1>8. r.full = w.full /\ r.cmd = w.cmd
  BY <1>6, <1>7
<1> HIDE DEF v, r, toks
<1>9. z \in {w.args, Gap(w.args)}
  <2>1. CASE r.amb = {}
    BY <1>1, <1>6, <1>7, <2>1
  <2>2. CASE r.amb # {}
    <3>1. w.args = <<>> /\ y = Gap(s) /\ Len(w.full) = Len(s)
      BY <1>1, <1>6, <1>7, <2>2
    <3>2. Len(y) = Len(w.full) + 1
      BY <1>5, <3>1
    <3>3. AmbiguousWord(toks, r) = <<toks[Len(toks)]>>
      <4>1. /\ w.full \in Seq(Words) /\ toks \in Seq(Words) /\ y \in Seq(Words)
            /\ Len(toks) = Len(y) + (IF r.negated THEN 1 ELSE 0)
            /\ r.full = w.full /\ r.negated \in BOOLEAN
        BY <1>0, <1>1, <1>3, <1>5, <1>7, <1>8
      <4> QED BY <3>2, <4>1, AmbiguousLast
    <3>4. z = <<"">>
      <4>1. toks[Len(toks)] = ""
        BY <1>5, <3>1
      <4> QED BY <2>2, <3>3, <4>1
    <3> QED BY <1>1, <3>1, <3>4, GapFacts
  <2> QED BY <2>1, <2>2
<1>10. TabLine(k, tree, toks) = <<>> \o Not(b) \o w.full \o z
  <2>1. Unwrap(k, tree, toks) = [prefix |-> <<>>, toks |-> toks]
    <3>1. ~HelpTakes(tree, Resolve(k, tree, toks))
      BY <1>0, <1>8 DEF HelpTakes, r
    <3> QED BY <1>5, <3>1, UnwrapIdle
  <2>2. TabLine(k, tree, toks) = Completed([prefix |-> <<>>, toks |-> toks], r)
    <3>1. [prefix |-> <<>>, toks |-> toks].toks = toks
      OBVIOUS
    <3>2. TabLine(k, tree, toks) = CompleteLine(k, tree, [prefix |-> <<>>, toks |-> toks])
      BY <2>1, Zenon DEF TabLine
    <3> QED BY <3>1, <3>2 DEF CompleteLine, r
  <2>3. Completed([prefix |-> <<>>, toks |-> toks], r)
          = <<>> \o (IF r.negated THEN <<"no">> ELSE <<>>) \o r.full \o z
    BY DEF Completed
  <2>4. (IF r.negated THEN <<"no">> ELSE <<>>) = Not(b)
    BY <1>7 DEF Not
  <2> HIDE DEF z
  <2> QED BY <1>8, <2>2, <2>3, <2>4
<1> HIDE DEF z
<1>11. Not(b) \in Seq(Words)
  BY <1>0, NotWords
<1>12. z \in Seq(Words)
  <2>1. w.args \in Seq(Words) /\ "" \in Words
    BY <1>0, <1>1
  <2>2. Gap(w.args) \in Seq(Words)
    BY <2>1, GapFacts
  <2> QED BY <1>9, <2>1, <2>2
<1>13. <<>> \o Not(b) \o w.full \o z = Not(b) \o (w.full \o z)
  <2>1. <<>> \o Not(b) = Not(b)
    BY <1>11, ConcatEmpty
  <2> DEFINE n == Not(b)
             f == w.full
  <2>2. n \in Seq(Words) /\ f \in Seq(Words)
    BY <1>1, <1>11
  <2> HIDE DEF n, f
  <2>3. n \o f \o z = n \o (f \o z)
    BY <1>12, <2>2, ConcatThree
  <2> QED BY <2>1, <2>3 DEF n, f
<1>14. w.full \o Gap(w.args) = Gap(w.full \o w.args)
  BY <1>1, GapFacts
<1> QED BY <1>9, <1>10, <1>13, <1>14 DEF toks, Leaves

\* Without the place where nothing is typed yet, it is what the line means.
LEMMA BlankTaken ==
  ASSUME NEW s \in Seq(Words), s # <<>>, s[Len(s)] # "", "" \in Words
  PROVE  WithoutBlank(s) = s /\ WithoutBlank(Gap(s)) = s
<1>1. WithoutBlank(s) = s
  BY DEF WithoutBlank, Blank
<1>2. /\ Gap(s) # <<>> /\ Gap(s)[Len(Gap(s))] = ""
      /\ SubSeq(Gap(s), 1, Len(Gap(s)) - 1) = s
  BY GapFacts
<1>3. WithoutBlank(Gap(s)) = s
  BY <1>2 DEF WithoutBlank, Blank
<1> QED BY <1>1, <1>3

LEMMA TabHolds ==
  ASSUME LineInv
  PROVE  TabKeepsMeaning
<1> SUFFICES ASSUME Built, NEW l \in Level, NEW line \in Completable,
                    Finished(Says(l, line)), ~Blank(line),
                    ~IsHelp(trees[l], Says(l, line).cmd),
                    NEW toks \in {line, Gap(line)}
             PROVE  RunsTheSame(Says(l, WithoutBlank(TabLine(kids, trees[l], toks))),
                                Says(l, line))
  BY DEF TabKeepsMeaning, Gap
<1> DEFINE tree == trees[l]
           U == Under(kids, tree)
           r == Says(l, line)
<1>1. Family(kids, tree, U) /\ "no" \notin DOMAIN tree
  BY UnderIsInTrees DEF LineInv, TreesInv, DiskTree
<1>2. line \in Seq(Words) /\ Noes(line) <= 1
  BY SplitWords DEF Completable
<1>3. "" \in Words
  BY CommandLineAssumption DEF Words
<1>4. PICK b \in BOOLEAN, s \in Seq(Words) :
        /\ line = Not(b) \o s /\ Noes(line) = (IF b THEN 1 ELSE 0)
        /\ s = WithoutNo(line, Noes(line))
        /\ b => "no" \in Words
        /\ s # <<>> => s[1] # "no"
  BY <1>2, LineParts
<1> DEFINE w == Walk(kids, tree, s)
           full == w.full \o w.args
<1>5. w \in Places(kids, tree, U) /\ Typable(kids, tree, s, w)
  BY <1>1, WalkInPlaces, WalkIsTypable
<1>6. r = ResolveResult(w, IF b THEN 1 ELSE 0)
  BY <1>4 DEF Says, Resolve
<1>7. /\ r.at = w.at /\ r.cmd = w.cmd /\ r.full = w.full /\ r.args = w.args /\ r.amb = w.amb
      /\ r.runnable = RunnableAsIs(w.cmd, w.args) /\ r.negated = b
  <2> HIDE DEF r, w
  <2> QED BY <1>6, NegationShown DEF ResolveResult
<1>8. /\ r.amb = {} /\ r.cmd # NoCmd /\ r.at # "broken"
      /\ r.at = "words" => r.runnable
      /\ ~IsHelp(tree, r.cmd)
  BY DEF Finished, ReportResolveProblem, Broken
<1> HIDE DEF r
<1>9. /\ w.at \in {"words", "arguments"} /\ w.cmd # NoCmd
      /\ w.at = "words" => RunnableAsIs(w.cmd, w.args)
      /\ ~IsHelp(tree, w.cmd)
  <2>1. w.at \in {"words", "arguments", "ambiguous", "broken"}
    BY <1>5 DEF Places, Records
  <2>2. w.at # "ambiguous"
    BY <1>5, <1>7, <1>8 DEF Typable
  <2>3. w.at # "broken"
    BY <1>7, <1>8
  <2> QED BY <1>7, <1>8, <2>1, <2>2, <2>3
<1>10. w.full \in Seq(Words) /\ w.args \in Seq(Words)
  BY <1>5 DEF Places, Records
<1>11. /\ Walk(kids, tree, full) = w
       /\ w.full # <<>> /\ w.full[1] \in DOMAIN tree /\ w.full[Len(w.full)] # ""
       /\ w.args # <<>> => s # <<>> /\ w.args[Len(w.args)] = s[Len(s)]
  BY <1>5, <1>9 DEF Typable
<1>12. s # <<>>
  <2>1. Walk(kids, tree, <<>>) = Start(tree)
    BY <1>1, WalkOfNone
  <2> QED BY <1>9, <2>1 DEF Start
<1>13. Not(b) \in Seq(Words)
  BY <1>4, NotWords
<1> HIDE DEF w
<1>14. /\ full \in Seq(Words) /\ full # <<>> /\ full[1] # "no" /\ full[Len(full)] # ""
  <2>1. full \in Seq(Words) /\ full # <<>> /\ full[1] = w.full[1]
    BY <1>10, <1>11, ConcatEnds
  <2>2. CASE w.args = <<>>
    <3>1. full = w.full
      BY <1>10, <2>2, ConcatEmpty
    <3> QED BY <1>1, <1>11, <2>1, <3>1
  <2>3. CASE w.args # <<>>
    <3>1. full[Len(full)] = w.args[Len(w.args)]
      BY <1>10, <2>3, ConcatLast
    <3>2. s[Len(s)] = line[Len(line)] /\ line # <<>>
      <4>1. line # <<>>
        BY <1>4, <1>12, <1>13
      <4> QED BY <1>4, <1>12, <1>13, <4>1, ConcatLast
    <3>3. s[Len(s)] # ""
      BY <3>2 DEF Blank
    <3> QED BY <1>1, <1>11, <2>1, <2>3, <3>1, <3>3
  <2> QED BY <2>2, <2>3
<1> DEFINE told == Not(b) \o full
<1>15. TabLine(kids, tree, toks) \in {told, Gap(told)}
  <2>1. PICK y \in {s, Gap(s)} : toks = Not(b) \o y
    <3>1. CASE toks = line
      BY <1>4, <3>1
    <3>2. CASE toks = Gap(line)
      <4>1. Not(b) \o Gap(s) = Gap(Not(b) \o s)
        BY <1>3, <1>4, <1>13, GapFacts
      <4> QED BY <1>4, <3>2, <4>1
    <3> QED BY <3>1, <3>2
  <2>2. TabLine(kids, tree, toks) \in {Not(b) \o full, Not(b) \o Gap(full)}
    <3>1. w = Walk(kids, tree, s)
      BY DEF w
    <3>2. TabLine(kids, tree, Not(b) \o y) \in {Not(b) \o full, Not(b) \o Gap(full)}
      <4> HIDE DEF tree
      <4>1. Ended(kids, tree, b, s, w)
        BY <1>4, <1>9, <1>12, <3>1 DEF Ended
      <4>2. Leaves(kids, tree, b, w, y)
        <5> HIDE DEF full, U
        <5> QED BY <1>1, <1>3, <2>1, <4>1, TabLeaves
      <4> QED BY <4>2 DEF full, Leaves
    <3> QED BY <2>1, <3>2
  <2>3. Not(b) \o Gap(full) = Gap(told)
    <3> HIDE DEF full
    <3> QED BY <1>3, <1>13, <1>14, GapFacts
  <2> QED BY <2>2, <2>3
<1> HIDE DEF full
<1>16. WithoutBlank(TabLine(kids, tree, toks)) = told
  <2>1. told \in Seq(Words) /\ told # <<>> /\ told[Len(told)] # ""
    <3>1. told \in Seq(Words) /\ told # <<>>
      BY <1>13, <1>14, ConcatEnds
    <3> QED BY <1>13, <1>14, <3>1, ConcatLast
  <2> HIDE DEF told
  <2> QED BY <1>3, <1>15, <2>1, BlankTaken
<1>17. Says(l, told) = ResolveResult(w, IF b THEN 1 ELSE 0)
  <2>1. Resolve(kids, tree, told) = ResolveResult(Walk(kids, tree, full), IF b THEN 1 ELSE 0)
    BY <1>4, <1>14, NotResolved
  <2> QED BY <1>11, <2>1 DEF Says, full
<1>18. Says(l, told) = r
  BY <1>6, <1>17
<1>19. RunsTheSame(r, r)
  BY <1>8 DEF RunsTheSame
<1>20. r = Says(l, line)
  BY DEF r
<1> QED BY <1>16, <1>18, <1>19, <1>20

\* Tab, at the end of a finished line or after a space, in any tree and with any
\* abbreviation: the line it leaves runs the same command in the same way.
THEOREM TabTheorem == Spec => []TabKeepsMeaning
<1>1. LineInv => TabKeepsMeaning
  BY TabHolds
<1> QED BY <1>1, LineInit, LineStep, PTL DEF Spec
=============================================================================
