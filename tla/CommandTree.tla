----------------------------- MODULE CommandTree -----------------------------
(***************************************************************************)
(* What a line of words refers to: Resolve, the checks of its arguments    *)
(* and roles, the listings of Tab, "?" and "help", and what Tab writes.    *)
(* A tree maps command words to entries; kids[c] is the tree below c.      *)
(***************************************************************************)
EXTENDS Naturals, Sequences, FiniteSets

CONSTANTS
  Cmd,        \* the entries of all tree files
  Attr,       \* the fields of each entry, as its YAML sets them
  NoCmd,      \* no entry: the nil pointer
  Begins,     \* Begins[w]: the command words that begin with w
  Runes,      \* Runes[w]: the length of w
  Unbounded   \* a MaxArgs that is not set

Authorized(who, c) ==
  \/ Attr[c].roles = {} \/ ~who.required
  \/ who.roles \cap (Attr[c].roles \cup who.bypass) # {}

\* No command is called "": that is the place where nothing is typed yet.
NoTree == <<>>
IsTree(t) == DOMAIN t \subseteq DOMAIN Begins \ {""} /\ t \in [DOMAIN t -> Cmd]

\* One trailing empty word is the place where nothing is typed yet.
Blank(args) == args # <<>> /\ args[Len(args)] = ""
Supplied(args) == IF Blank(args) THEN Len(args) - 1 ELSE Len(args)

EnoughFor(c, n) == Attr[c].min <= n /\ (Attr[c].max # Unbounded => n <= Attr[c].max)
RunnableAsIs(c, args) ==
  c # NoCmd /\ Attr[c].run # "" /\ EnoughFor(c, Supplied(args))

ValidArgs(c, args) ==
  /\ EnoughFor(c, Len(args))
  /\ Attr[c].maxlen # 0 => \A i \in DOMAIN args : Runes[args[i]] <= Attr[c].maxlen

-----------------------------------------------------------------------------
(* Resolve.                                                                *)

\* The entry an alias leads to, one after the other; none if it is not there.
Target(tree, c) ==
  IF c = NoCmd \/ Attr[c].alias = "" THEN c
  ELSE IF Attr[c].alias \in DOMAIN tree THEN tree[Attr[c].alias] ELSE NoCmd
Chase(tree, c) ==
  LET chain[k \in 0..Cardinality(DOMAIN tree)] ==
        IF k = 0 THEN c ELSE Target(tree, chain[k - 1])
  IN IF Attr[c].alias = "" THEN c ELSE chain[Cardinality(DOMAIN tree)]

\* A target that is not there, or a circle.
Dangling(c) == c = NoCmd \/ Attr[c].alias # ""

\* Hidden commands are not abbreviated to.
Visible(tree, tok) == {n \in DOMAIN tree \cap Begins[tok] : ~Attr[tree[n]].hidden}

\* Mutant of StandsFor: an empty word goes on to the only word there is.
Descends(w, tok) ==
  IF tok \in DOMAIN w.tree THEN {tok}
  ELSE {n \in Visible(w.tree, tok) : Cardinality(Visible(w.tree, tok)) = 1}

\* The word typed, or the only one it can stand for, unless nothing is typed
\* and what came before is complete.
StandsFor(w, tok) ==
  IF tok \in DOMAIN w.tree THEN {tok}
  ELSE IF tok = "" /\ RunnableAsIs(w.cmd, <<>>) THEN {}
  ELSE {n \in Visible(w.tree, tok) : Cardinality(Visible(w.tree, tok)) = 1}

Follow(kids, w, name, c) ==
  IF Dangling(c) THEN [w EXCEPT !.at = "broken"]
  ELSE [w EXCEPT
         !.cmd = c,
         !.full = Append(@, name),
         !.tree = IF kids[c] = NoTree THEN @ ELSE kids[c],
         !.at = IF kids[c] = NoTree THEN "arguments" ELSE "words"]
FollowName(kids, w, name) == Follow(kids, w, name, Chase(w.tree, w.tree[name]))

Choose(kids, w, tok, names) ==
  IF names # {} THEN FollowName(kids, w, CHOOSE n \in names : TRUE)
  ELSE IF Visible(w.tree, tok) = {}
  THEN [w EXCEPT !.args = Append(@, tok), !.at = "arguments"]
  ELSE [w EXCEPT !.amb = Visible(w.tree, tok), !.at = "ambiguous"]

Step(kids, w, tok) ==
  CASE w.at = "arguments" -> [w EXCEPT !.args = Append(@, tok)]
    [] w.at \in {"ambiguous", "broken"} -> w
    [] w.at = "words" -> Choose(kids, w, tok, StandsFor(w, tok))

Walk(kids, tree, toks) ==
  LET walked[i \in 0..Len(toks)] ==
        IF i = 0
        THEN [at |-> "words", cmd |-> NoCmd, tree |-> tree,
              full |-> <<>>, args |-> <<>>, amb |-> {}]
        ELSE Step(kids, walked[i - 1], toks[i])
  IN walked[Len(toks)]

\* A leading "no", however often, is taken off first.
Noes(toks) ==
  CHOOSE k \in 0..Len(toks) :
    /\ \A i \in 1..k : toks[i] = "no"
    /\ k < Len(toks) => toks[k + 1] # "no"

\* The place of an ambiguous word is Len(full): each word before it was taken.
ResolveResult(w, no) ==
  [at |-> w.at, cmd |-> w.cmd, tree |-> w.tree, full |-> w.full,
   args |-> w.args, amb |-> w.amb, negated |-> no > 0,
   runnable |-> RunnableAsIs(w.cmd, w.args)]
WithoutNo(toks, no) == SubSeq(toks, no + 1, Len(toks))
Resolve(kids, tree, toks) ==
  ResolveResult(Walk(kids, tree, WithoutNo(toks, Noes(toks))), Noes(toks))

\* The words Resolve takes for names, each with the name it puts into FullName,
\* which Tab writes into the line and "help" at the head of a page.
SpelledAt(w, tok) ==
  {[typed |-> tok, name |-> n, entry |-> w.tree[n]] : n \in StandsFor(w, tok)}
Spelled(kids, tree, toks) ==
  LET words == WithoutNo(toks, Noes(toks))
      before(i) == Walk(kids, tree, SubSeq(words, 1, i - 1))
  IN UNION {SpelledAt(before(i), words[i]) : i \in {j \in DOMAIN words : before(j).at = "words"}}

ExpandAlias(aliases, toks) ==
  IF toks # <<>> /\ toks[1] \in DOMAIN aliases
  THEN aliases[toks[1]] \o Tail(toks)
  ELSE toks

-----------------------------------------------------------------------------
(* The listings: which entries are named, whatever their order.  r is what *)
(* Resolve finds for the words toks.                                       *)

Listed(who, tree, names) == {n \in names : Authorized(who, tree[n])}
HelpText(who, tree) ==
  Listed(who, tree, {n \in DOMAIN tree : ~Attr[tree[n]].hidden})

\* Whether the ambiguous word is empty; an index into the typed words that
\* counts one "no" only.
AmbigAt(r) == Len(r.full) + (IF r.negated THEN 2 ELSE 1)
NothingTyped(toks, r) == AmbigAt(r) <= Len(toks) /\ toks[AmbigAt(r)] = ""

Listing(tree, names, cr) == [entries |-> {tree[n] : n \in names}, cr |-> cr]

HelpForPath(kids, who, toks, r) ==
  CASE r.amb # {} /\ NothingTyped(toks, r) ->
         Listing(r.tree, HelpText(who, r.tree), r.runnable)
    [] r.amb # {} /\ ~NothingTyped(toks, r) ->
         Listing(r.tree, Listed(who, r.tree, r.amb), r.runnable)
    [] r.amb = {} /\ r.cmd # NoCmd /\ kids[r.cmd] # NoTree ->
         Listing(kids[r.cmd], HelpText(who, kids[r.cmd]), r.runnable)
    [] r.amb = {} /\ (r.cmd = NoCmd \/ kids[r.cmd] = NoTree) ->
         Listing(NoTree, {}, r.cmd # NoCmd /\ r.runnable)

\* "help" with the words of a command: the page of the command they lead to,
\* whoever asks, with a list of what is below it.
DetailedHelp(kids, who, r) ==
  CASE r.amb # {} ->
         [page |-> NoCmd, entries |-> Listing(r.tree, Listed(who, r.tree, r.amb), FALSE).entries]
    [] r.amb = {} /\ r.cmd = NoCmd ->
         [page |-> NoCmd, entries |-> {}]
    [] r.amb = {} /\ r.cmd # NoCmd ->
         [page |-> r.cmd, entries |-> Listing(kids[r.cmd], HelpText(who, kids[r.cmd]), FALSE).entries]

\* The words after "help" are completed like a line of their own.
IsHelp(tree, c) == "help" \in DOMAIN tree /\ c = tree["help"]
HelpTakes(tree, r) == r.amb = {} /\ r.args # <<>> /\ IsHelp(tree, r.cmd)
Unwrapped(tree, p, r) ==
  IF HelpTakes(tree, r) THEN [prefix |-> p.prefix \o r.full, toks |-> r.args] ELSE p
Unwrap(kids, tree, toks) ==
  LET inner[k \in 0..Len(toks)] ==
        IF k = 0 THEN [prefix |-> <<>>, toks |-> toks]
        ELSE Unwrapped(tree, inner[k - 1], Resolve(kids, tree, inner[k - 1].toks))
  IN inner[Len(toks)]

\* What Tab lists, at once or when it is pressed again.
TabList(who, r) == Listing(r.tree, Listed(who, r.tree, r.amb), r.runnable)

\* The line Tab leaves: names in full, and the ambiguous word as it was.
AmbiguousWord(toks, r) ==
  IF AmbigAt(r) <= Len(toks) THEN <<toks[AmbigAt(r)]>> ELSE <<>>
Completed(p, r) ==
  p.prefix \o (IF r.negated THEN <<"no">> ELSE <<>>) \o r.full
  \o (IF r.amb # {} THEN AmbiguousWord(p.toks, r) ELSE r.args)
CompleteLine(kids, tree, p) == Completed(p, Resolve(kids, tree, p.toks))
TabLine(kids, tree, toks) == CompleteLine(kids, tree, Unwrap(kids, tree, toks))
=============================================================================
