---------------------------- MODULE RunLoopProofs -----------------------------
(***************************************************************************)
(* RunLoop for every manifest, every length of the timeouts and any time.  *)
(* PositionAgrees needs two facts about manifests: the command that leaves *)
(* a level can be typed only with that level on top, because such commands *)
(* are not inherited, and a swapped level's parent is never a mode, so     *)
(* that it is on top only when it is the root.  NoUnearnedLevel needs that *)
(* nothing but a typed password makes a LastAuthenticatedAt not zero.      *)
(***************************************************************************)
EXTENDS RunLoop, CommonLemmas

Session == phase \notin Replays

\* A password is asked for with only the root frame, the level's parent.
AskedFromParent ==
  phase \in Swapped => Len(stack) = 1 /\ level = Parent[phase]

TrustIsTyped ==
  /\ \A l \in Levels : lastAuth[l] # 0 => typedAt[l] # 0
  /\ Levels \ hashed \subseteq open
  /\ Base \in open

IInv ==
  /\ TypeOK
  /\ PositionAgrees
  /\ AskedFromParent
  /\ TrustIsTyped
  /\ NoUnearnedLevel

-----------------------------------------------------------------------------
(* Manifests.                                                              *)

LEMMA LevelRank ==
  /\ Cardinality(Levels) \in Nat
  /\ \E rank \in [Levels -> 0..Cardinality(Levels)] :
       Ranked(rank, Levels, Parent, {Base})
  BY Hierarchy, FS_CardinalityType DEF LevelsRank, Ranked

\* The recursive definitions of TreeStructure define something.
LEMMA RawTreeDefined ==
  RawTree = [l \in Levels |->
    IF l \in Inheriting /\ l # Base
    THEN Own[l] \cup Inherited(RawTree[Parent[l]])
    ELSE Own[l]]
<1> DEFINE Typed == UNION {Own[l] : l \in Levels}
           Stop == {l \in Levels : l \notin Inheriting \/ l = Base}
           V == SUBSET Typed
           a == [l \in Levels |-> Own[l]]
           G == [p \in Levels \X V |-> Own[p[1]] \cup Inherited(p[2])]
           n == Cardinality(Levels)
           F(g) == [l \in Levels |-> IF l \in Inheriting /\ l # Base
                                     THEN Own[l] \cup Inherited(g[Parent[l]])
                                     ELSE Own[l]]
<1>1. n \in Nat
  BY LevelRank
<1>2. PICK rank \in [Levels -> 0..n] : Ranked(rank, Levels, Parent, Stop)
  BY LevelRank DEF Ranked
<1>3. a \in [Levels -> V] /\ G \in [Levels \X V -> V]
  BY DEF Inherited
<1>4. PICK f \in [Levels -> V] : ByParents(f, Levels, Parent, Stop, a, G)
  <2> HIDE DEF n, V, a, G, Stop
  <2> QED BY <1>1, <1>2, <1>3, Descent
<1>5. ASSUME NEW l \in Levels
      PROVE  f[l] = IF l \in Inheriting /\ l # Base
                    THEN Own[l] \cup Inherited(f[Parent[l]])
                    ELSE Own[l]
  <2>1. f[l] = IF l \in Stop THEN a[l] ELSE G[<<l, f[Parent[l]]>>]
    <3> HIDE DEF a, G, Stop
    <3> QED BY <1>4 DEF ByParents
  <2>2. l \notin Stop => G[<<l, f[Parent[l]]>>] = Own[l] \cup Inherited(f[Parent[l]])
    <3> SUFFICES ASSUME l \notin Stop
                 PROVE  G[<<l, f[Parent[l]]>>] = Own[l] \cup Inherited(f[Parent[l]])
      OBVIOUS
    <3>1. Parent[l] \in Levels
      BY <1>2 DEF Ranked
    <3> HIDE DEF V
    <3>2. <<l, f[Parent[l]]>> \in Levels \X V
      BY <3>1
    <3> QED BY <3>2
  <2>3. a[l] = Own[l]
    OBVIOUS
  <2> HIDE DEF a, G
  <2> QED BY <2>1, <2>2, <2>3
<1>6. f = F(f)
  <2> HIDE DEF V
  <2> QED BY <1>5
<1> QED BY <1>6 DEF RawTree

LEMMA PathDefined ==
  /\ Path = [l \in Levels |-> IF l = Base THEN {l} ELSE {l} \cup Path[Parent[l]]]
  /\ Path \in [Levels -> SUBSET Levels]
<1> DEFINE V == SUBSET Levels
           a == [l \in Levels |-> {l}]
           G == [p \in Levels \X V |-> {p[1]} \cup p[2]]
           n == Cardinality(Levels)
           F(g) == [l \in Levels |-> IF l = Base THEN {l} ELSE {l} \cup g[Parent[l]]]
<1>1. n \in Nat
  BY LevelRank
<1>2. PICK rank \in [Levels -> 0..n] : Ranked(rank, Levels, Parent, {Base})
  BY LevelRank
<1>3. a \in [Levels -> V] /\ G \in [Levels \X V -> V]
  OBVIOUS
<1>4. PICK f \in [Levels -> V] : ByParents(f, Levels, Parent, {Base}, a, G)
  <2> HIDE DEF n, V, a, G
  <2> QED BY <1>1, <1>2, <1>3, Descent
<1>5. ASSUME NEW l \in Levels
      PROVE  f[l] = IF l = Base THEN {l} ELSE {l} \cup f[Parent[l]]
  <2>1. f[l] = IF l \in {Base} THEN a[l] ELSE G[<<l, f[Parent[l]]>>]
    <3> HIDE DEF a, G
    <3> QED BY <1>4 DEF ByParents
  <2>2. l # Base => G[<<l, f[Parent[l]]>>] = {l} \cup f[Parent[l]]
    <3> SUFFICES ASSUME l # Base PROVE G[<<l, f[Parent[l]]>>] = {l} \cup f[Parent[l]]
      OBVIOUS
    <3>1. Parent[l] \in Levels
      BY Hierarchy
    <3> HIDE DEF V
    <3>2. <<l, f[Parent[l]]>> \in Levels \X V
      BY <3>1
    <3> QED BY <3>2
  <2>3. a[l] = {l}
    OBVIOUS
  <2> HIDE DEF a, G
  <2> QED BY <2>1, <2>2, <2>3
<1>6. f = F(f)
  <2> HIDE DEF V
  <2> QED BY <1>5
<1>7. Path = F(Path)
  BY <1>6 DEF Path
<1>8. \A l \in Levels : Path[l] = IF l = Base THEN {l} ELSE {l} \cup Path[Parent[l]]
  BY <1>7
<1> DEFINE S == {l \in Levels : Path[l] \in V}
<1>9. HandedDown(S, Levels, Parent, {Base})
  <2>1. Levels \cap {Base} \subseteq S
    BY <1>8
  <2>2. ASSUME NEW l \in Levels \ {Base}, Parent[l] \in S PROVE l \in S
    BY <1>8, <2>2
  <2> QED BY <2>1, <2>2 DEF HandedDown
<1>10. Levels \subseteq S
  <2> HIDE DEF S, n
  <2> QED BY <1>1, <1>2, <1>9, AlongParents
<1> QED BY <1>7, <1>10

\* "end" stays on the way up, and does not stop in a mode.
LEMMA EndsOnTheWay ==
  ASSUME NEW k \in Levels \ Nested
  PROVE  EndsAt[k] \in Levels \ Nested /\ Path[EndsAt[k]] \subseteq Path[k]
<1> DEFINE Stop == {EndLevel, Base}
           a == [l \in Levels |-> l]
           G == [p \in Levels \X Levels |-> p[2]]
           n == Cardinality(Levels)
           F(g) == [l \in Levels |-> IF l \in {EndLevel, Base} THEN l ELSE g[Parent[l]]]
<1>1. n \in Nat
  BY LevelRank
<1>2. PICK rank \in [Levels -> 0..n] : Ranked(rank, Levels, Parent, Stop)
  BY LevelRank DEF Ranked
<1>3. a \in [Levels -> Levels] /\ G \in [Levels \X Levels -> Levels]
  OBVIOUS
<1>4. PICK f \in [Levels -> Levels] : ByParents(f, Levels, Parent, Stop, a, G)
  <2> HIDE DEF n, a, G, Stop
  <2> QED BY <1>1, <1>2, <1>3, Descent
<1>5. ASSUME NEW l \in Levels
      PROVE  f[l] = IF l \in {EndLevel, Base} THEN l ELSE f[Parent[l]]
  <2>1. f[l] = IF l \in Stop THEN a[l] ELSE G[<<l, f[Parent[l]]>>]
    <3> HIDE DEF a, G, Stop
    <3> QED BY <1>4 DEF ByParents
  <2>2. l \notin Stop => G[<<l, f[Parent[l]]>>] = f[Parent[l]]
    BY Hierarchy
  <2>3. a[l] = l
    OBVIOUS
  <2> HIDE DEF a, G
  <2> QED BY <2>1, <2>2, <2>3
<1>6. f = F(f)
  BY <1>5
<1>7. EndsAt = F(EndsAt)
  BY <1>6 DEF EndsAt
<1>8. \A l \in Levels : EndsAt[l] = IF l \in Stop THEN l ELSE EndsAt[Parent[l]]
  BY <1>7
<1> DEFINE Up(l) == EndsAt[l] \in Levels \ Nested /\ Path[EndsAt[l]] \subseteq Path[l]
           S == {l \in Levels : l \in Nested \/ Up(l)}
<1>9. HandedDown(S, Levels, Parent, Stop)
  <2>1. Levels \cap Stop \subseteq S
    BY <1>8
  <2>2. ASSUME NEW l \in Levels \ Stop, Parent[l] \in S PROVE l \in S
    <3>1. CASE l \in Nested
      BY <3>1
    <3>2. CASE l \notin Nested
      <4>1. Parent[l] \in Levels \ Nested
        BY <3>2, Hierarchy, TreeFiles DEF Nested
      <4>2. Path[l] = {l} \cup Path[Parent[l]]
        BY PathDefined
      <4>3. EndsAt[l] = EndsAt[Parent[l]]
        BY <1>8
      <4> QED BY <2>2, <4>1, <4>2, <4>3
    <3> QED BY <3>1, <3>2
  <2> QED BY <2>1, <2>2 DEF HandedDown
<1>10. Levels \subseteq S
  <2> HIDE DEF S, n, Stop
  <2> QED BY <1>1, <1>2, <1>9, AlongParents
<1> QED BY <1>10

\* The command that leaves a level is in that level's tree only.
LEMMA ExitCmdIsOwn ==
  ASSUME NEW l \in DOMAIN ExitCmd, NEW k \in Levels, ExitCmd[l] \in Tree(k)
  PROVE  k = l
<1>1. ExitCmd[l] \in SwitchCommands /\ ExitCmd[l] \notin Common
  BY TreeFiles DEF SwitchCommands
<1>2. ExitCmd[l] \in RawTree[k]
  BY <1>1 DEF Tree
<1>3. RawTree[k] \subseteq Own[k] \cup Inherited(RawTree[Parent[k]])
  BY RawTreeDefined
<1>4. ExitCmd[l] \in Own[k]
  BY <1>1, <1>2, <1>3 DEF Inherited
<1>5. QED
  BY <1>4, TreeFiles

\* What can be under a swapped level.
LEMMA ParentOfSwapped ==
  ASSUME NEW l \in Swapped
  PROVE  /\ l \in Levels \ {Base}
         /\ Parent[l] \in Levels \ Nested
         /\ Path[l] = {l} \cup Path[Parent[l]]
BY Hierarchy, TreeFiles, PathDefined DEF Nested

LEMMA PathOfBase == Path[Base] = {Base}
BY Hierarchy, PathDefined

\* When the frame on top is not a mode it is the root, and the level.
LEMMA RootOnTop ==
  ASSUME TypeOK, PositionAgrees, Top \notin Nested
  PROVE  Len(stack) = 1 /\ Top = level
<1>1. Len(stack) \in Nat /\ Len(stack) # 0
  BY DEF TypeOK
<1>2. Len(stack) >= 2 => stack[Len(stack)] \in Nested
  BY <1>1 DEF PositionAgrees, ModesNest
<1>3. Len(stack) < 2
  BY <1>1, <1>2 DEF Top
<1>4. Len(stack) = 1
  <2>1. \A n \in Nat : n # 0 /\ n < 2 => n = 1
    OBVIOUS
  <2>2. QED
    BY <1>1, <1>3, <2>1
<1>5. stack[Len(stack)] = level
  BY <1>4 DEF PositionAgrees
<1>6. QED
  BY <1>4, <1>5 DEF Top

LEMMA TopIsALevel == TypeOK => Top \in Levels
BY DEF TypeOK, Top

-----------------------------------------------------------------------------
(* Moving the root.                                                        *)

\* A stack of one frame that names the level agrees with it.
LEMMA RootAgrees ==
  ASSUME stack' = <<level'>>, level' \in Levels \ Nested
  PROVE  PositionAgrees' /\ stack' \in Seq(Levels) \ {<<>>} /\ Len(stack') = 1
BY DEF PositionAgrees, ModesNest

LEMMA SetRootOfOne ==
  ASSUME TypeOK, Len(stack) = 1, NEW l
  PROVE  SetRoot(l) = <<l>>
<1>1. stack \in Seq(Levels) /\ DOMAIN stack = 1..1
  BY DEF TypeOK
<1>2. DOMAIN SetRoot(l) = 1..1 /\ SetRoot(l)[1] = l
  BY <1>1 DEF SetRoot
<1>3. SetRoot(l) = [i \in 1..1 |-> SetRoot(l)[i]]
  BY <1>1, <1>2 DEF SetRoot
<1>4. QED
  BY <1>2, <1>3

\* Nothing that counts is lost: a level once earned stays earned.
LEMMA EarnedStays ==
  ASSUME open \subseteq open',
         \A l \in Levels : typedAt[l] # 0 => typedAt'[l] # 0,
         NEW l \in Levels, Earned(l)
  PROVE  Earned(l)'
BY SessionAssumption DEF Earned

-----------------------------------------------------------------------------
(* What several actions share.                                             *)

\* The session stays where it is while time may pass.
LEMMA StayPut ==
  ASSUME IInv, UNCHANGED where, now' \in 1..MaxTime, now' >= now
  PROVE  PositionAgrees'
<1>1. OverTime => OverTime'
  BY SessionAssumption DEF OverTime, where, IInv, TypeOK
<1>2. QED
  BY <1>1 DEF IInv, PositionAgrees, ModesNest, where

\* A session that does not go up into a level has earned where it is.
LEMMA NotUp ==
  ASSUME IInv, UNCHANGED typedAt, open \subseteq open',
         phase' \notin Replays => phase \notin Replays,
         level' \in Levels, Path[level'] \subseteq Path[level]
  PROVE  NoUnearnedLevel'
<1> SUFFICES ASSUME phase' \notin Replays, NEW l \in Path[level']
             PROVE  Earned(l)'
  BY DEF NoUnearnedLevel
<1>1. Earned(l)
  BY DEF IInv, NoUnearnedLevel
<1>2. l \in Levels
  BY PathDefined
<1>3. QED
  BY <1>1, <1>2, EarnedStays

\* A command that touches no level, password or position.
LEMMA Idle ==
  ASSUME IInv, UNCHANGED <<now, where, trust, hashed, open>>,
         phase' \in Replays \cup {"reading", "line", "ended"},
         phase' \notin Replays => phase \notin Replays,
         auditing' \in BOOLEAN
  PROVE  IInv'
<1>1. TypeOK'
  BY DEF IInv, TypeOK, where, trust
<1>2. PositionAgrees'
  BY StayPut DEF IInv, TypeOK
<1>3. AskedFromParent'
  BY SessionAssumption DEF AskedFromParent
<1>4. TrustIsTyped'
  BY DEF IInv, TrustIsTyped, trust
<1>5. NoUnearnedLevel'
  BY NotUp DEF where, trust, IInv, TypeOK
<1>6. QED
  BY <1>1, <1>2, <1>3, <1>4, <1>5 DEF IInv

\* A command that ends with the root frame alone, at a level on the way up.
LEMMA BackToRoot ==
  ASSUME IInv, UNCHANGED <<now, enteredAt, trust, hashed, auditing, open>>,
         stack' = <<level'>>, level' \in Levels \ Nested,
         phase' \in Replays \cup {"reading", "line", "ended"},
         phase' \notin Replays =>
           \/ level' = Base
           \/ phase \notin Replays /\ Path[level'] \subseteq Path[level]
  PROVE  IInv'
<1>1. PositionAgrees' /\ stack' \in Seq(Levels) \ {<<>>}
  BY RootAgrees
<1>2. TypeOK'
  BY <1>1 DEF IInv, TypeOK, trust
<1>3. AskedFromParent'
  BY SessionAssumption DEF AskedFromParent
<1>4. TrustIsTyped'
  BY DEF IInv, TrustIsTyped, trust
<1>5. NoUnearnedLevel'
  <2>1. CASE level' = Base
    BY <2>1, <1>4, PathOfBase DEF NoUnearnedLevel, TrustIsTyped, Earned
  <2>2. CASE phase' \in Replays
    BY <2>2 DEF NoUnearnedLevel
  <2>3. CASE phase \notin Replays /\ Path[level'] \subseteq Path[level]
    BY <2>3, NotUp DEF trust
  <2>4. QED
    BY <2>1, <2>2, <2>3
<1>6. QED
  BY <1>1, <1>2, <1>3, <1>4, <1>5 DEF IInv

\* Going up from the parent into a level that has been earned.
LEMMA Up ==
  ASSUME IInv, NEW l \in Swapped,
         Len(stack) = 1, level = Parent[l], MoveInto(l),
         UNCHANGED <<now, hashed, auditing, open>>,
         phase' \in Replays \cup {"reading", "line", "ended"},
         DOMAIN limiter' = Swapped, DOMAIN misses' = Swapped,
         lastAuth' \in {lastAuth, [lastAuth EXCEPT ![l] = now]},
         typedAt' \in {typedAt, [typedAt EXCEPT ![l] = now]},
         lastAuth'[l] # 0 => typedAt'[l] # 0,
         phase' \notin Replays => phase \notin Replays /\ Earned(l)'
  PROVE  IInv'
<1>1. level' = l /\ stack' = <<l>> /\ l \in Levels \ Nested
  BY SetRootOfOne, Hierarchy DEF MoveInto, IInv, Nested
<1>2. PositionAgrees' /\ stack' \in Seq(Levels) \ {<<>>}
  BY <1>1, RootAgrees
<1>3. TypeOK'
  <2>1. now \in 0..MaxTime /\ now \in 1..MaxTime
    BY SessionAssumption DEF IInv, TypeOK
  <2>2. lastAuth' \in [Levels -> 0..MaxTime] /\ typedAt' \in [Levels -> 0..MaxTime]
    <3>1. lastAuth \in [Levels -> 0..MaxTime] /\ typedAt \in [Levels -> 0..MaxTime]
      BY DEF IInv, TypeOK
    <3>2. \A f \in [Levels -> 0..MaxTime] :
            [f EXCEPT ![l] = now] \in [Levels -> 0..MaxTime]
      BY <2>1
    <3>3. QED
      BY <3>1, <3>2
  <2>3. QED
    BY <1>1, <1>2, <2>1, <2>2 DEF IInv, TypeOK, MoveInto
<1>4. AskedFromParent'
  BY SessionAssumption DEF AskedFromParent
<1>5. \A k \in Levels : typedAt[k] # 0 => typedAt'[k] # 0
  BY DEF IInv, TypeOK
<1>6. \A k \in Levels : k # l => lastAuth'[k] = lastAuth[k]
  BY DEF IInv, TypeOK
<1>7. TrustIsTyped'
  BY <1>5, <1>6 DEF IInv, TrustIsTyped
<1>8. NoUnearnedLevel'
  <2> SUFFICES ASSUME phase' \notin Replays, NEW k \in Path[level']
               PROVE  Earned(k)'
    BY DEF NoUnearnedLevel
  <2>1. k = l \/ k \in Path[level]
    BY <1>1, ParentOfSwapped
  <2>2. CASE k \in Path[level]
    <3>1. Earned(k) /\ k \in Levels
      BY <2>2, PathDefined DEF IInv, NoUnearnedLevel, TypeOK
    <3>2. QED
      BY <3>1, <1>5, EarnedStays
  <2>3. QED
    BY <2>1, <2>2
<1>9. QED
  BY <1>2, <1>3, <1>4, <1>7, <1>8 DEF IInv

-----------------------------------------------------------------------------
(* The invariant holds at first and is kept by each action.                *)

LEMMA InitIInv == Init => IInv
<1> SUFFICES ASSUME Init PROVE IInv
  OBVIOUS
<1>1. TypeOK
  BY Hierarchy, SessionAssumption DEF Init, TypeOK, Nested, Replays
<1>2. PositionAgrees
  BY DEF Init, PositionAgrees, ModesNest
<1>3. AskedFromParent
  BY SessionAssumption DEF Init, AskedFromParent, Replays
<1>4. TrustIsTyped /\ NoUnearnedLevel
  BY Hierarchy DEF Init, TrustIsTyped, NoUnearnedLevel, Replays
<1>5. QED
  BY <1>1, <1>2, <1>3, <1>4 DEF IInv

LEMMA EnterWaivedIInv ==
  ASSUME IInv, NEW l \in Swapped, EnterWaived(l)
  PROVE  IInv'
<1>1. Len(stack) = 1 /\ level = Parent[l]
  BY RootOnTop, ParentOfSwapped DEF EnterWaived, RequireCurrent, IInv
<1>2. phase \in Replays \cup {"line"}
  BY DEF EnterWaived, Running
<1>3. phase' \in Replays \cup {"reading"} /\ (phase' \in Replays <=> phase \in Replays)
  BY <1>2 DEF EnterWaived, Finish, Replays
<1>4. lastAuth' \in {lastAuth, [lastAuth EXCEPT ![l] = now]}
  BY DEF EnterWaived, Proved
<1>5. lastAuth'[l] # 0 => typedAt'[l] # 0
  BY Hierarchy DEF EnterWaived, Proved, WithinGrace, IInv, TrustIsTyped, TypeOK
<1>6. phase' \notin Replays => Earned(l)'
  <2> SUFFICES ASSUME phase' \notin Replays PROVE Earned(l)
    BY DEF EnterWaived, Earned
  <2>1. l \notin hashed \/ WithinGrace(l) \/ WithinTrust
    BY <1>3 DEF EnterWaived
  <2>2. l \in Levels
    BY Hierarchy
  <2>3. QED
    BY <2>1, <2>2, SessionAssumption
       DEF IInv, TrustIsTyped, Earned, WithinGrace, WithinTrust
<1>7. QED
  BY <1>1, <1>3, <1>4, <1>5, <1>6, Up
     DEF EnterWaived, Finish, IInv, TypeOK

LEMMA AskPasswordIInv ==
  ASSUME IInv, NEW l \in Swapped, AskPassword(l)
  PROVE  IInv'
<1>1. Len(stack) = 1 /\ level = Parent[l]
  BY RootOnTop, ParentOfSwapped DEF AskPassword, RequireCurrent, IInv
<1>2. TypeOK'
  BY DEF IInv, TypeOK, AskPassword, where, trust
<1>3. PositionAgrees'
  BY StayPut DEF AskPassword, IInv, TypeOK
<1>4. AskedFromParent'
  BY <1>1 DEF AskedFromParent, AskPassword, where
<1>5. TrustIsTyped'
  BY DEF IInv, TrustIsTyped, AskPassword, trust
<1>6. NoUnearnedLevel'
  BY NotUp DEF AskPassword, where, trust, IInv, TypeOK, Replays
<1>7. QED
  BY <1>2, <1>3, <1>4, <1>5, <1>6 DEF IInv

LEMMA RightPasswordIInv ==
  ASSUME IInv, NEW l \in Swapped, RightPassword(l)
  PROVE  IInv'
<1>1. Len(stack) = 1 /\ level = Parent[l]
  BY DEF IInv, AskedFromParent, RightPassword
<1>2. phase \notin Replays /\ phase' = "reading"
  BY SessionAssumption DEF RightPassword, Finish
<1>3. l \in Levels /\ now # 0
  BY Hierarchy DEF IInv, TypeOK
<1>4. typedAt' = [typedAt EXCEPT ![l] = now] /\ typedAt'[l] # 0
  BY <1>3 DEF RightPassword, IInv, TypeOK
<1>5. Earned(l)'
  BY <1>4 DEF Earned
<1>6. QED
  BY <1>1, <1>2, <1>4, <1>5, Up DEF RightPassword, Finish, IInv, TypeOK

LEMMA WrongPasswordIInv ==
  ASSUME IInv, NEW l \in Swapped, WrongPassword(l)
  PROVE  IInv'
<1>1. phase \notin Replays /\ phase' = "reading"
  BY SessionAssumption DEF WrongPassword, Finish
<1>2. TypeOK'
  BY <1>1 DEF IInv, TypeOK, WrongPassword, Finish, where
<1>3. PositionAgrees'
  BY StayPut DEF WrongPassword, Finish, IInv, TypeOK
<1>4. AskedFromParent'
  BY <1>1, SessionAssumption DEF AskedFromParent
<1>5. TrustIsTyped'
  BY DEF IInv, TrustIsTyped, WrongPassword
<1>6. NoUnearnedLevel'
  BY <1>1, NotUp DEF WrongPassword, where, IInv, TypeOK
<1>7. QED
  BY <1>2, <1>3, <1>4, <1>5, <1>6 DEF IInv

LEMMA LeaveLevelIInv ==
  ASSUME IInv, NEW l \in DOMAIN ExitCmd, LeaveLevel(l)
  PROVE  IInv'
<1>1. l \in Swapped /\ Top \in Levels
  BY Hierarchy, TopIsALevel DEF IInv
<1>2. Top = l
  BY <1>1, ExitCmdIsOwn DEF LeaveLevel, Running
<1>3. Len(stack) = 1 /\ level = l
  BY <1>1, <1>2, RootOnTop DEF IInv, Nested
<1>4. stack' = <<level'>> /\ level' = Parent[l] /\ level' \in Levels \ Nested
  BY <1>1, <1>3, SetRootOfOne, ParentOfSwapped DEF LeaveLevel, IInv
<1>5. Path[level'] \subseteq Path[level]
  BY <1>1, <1>3, <1>4, ParentOfSwapped
<1>6. phase' \in Replays \cup {"reading"} /\ (phase' \in Replays <=> phase \in Replays)
  BY DEF LeaveLevel, Running, Finish, Replays
<1>7. QED
  BY <1>4, <1>5, <1>6, BackToRoot DEF LeaveLevel, Finish

\* A command that changes the modes on the stack and nothing else.
LEMMA ModesOnly ==
  ASSUME IInv, UNCHANGED <<now, level, enteredAt, trust, hashed, auditing, open>>,
         stack' \in Seq(Levels) \ {<<>>}, PositionAgrees',
         phase' \in Replays \cup {"reading"},
         phase' \in Replays <=> phase \in Replays
  PROVE  IInv'
<1>1. TypeOK'
  BY DEF IInv, TypeOK, trust
<1>2. AskedFromParent'
  BY SessionAssumption DEF AskedFromParent
<1>3. TrustIsTyped'
  BY DEF IInv, TrustIsTyped, trust
<1>4. NoUnearnedLevel'
  BY NotUp DEF trust, IInv, TypeOK
<1>5. QED
  BY <1>1, <1>2, <1>3, <1>4 DEF IInv

LEMMA PushModeIInv ==
  ASSUME IInv, NEW l \in Nested, PushMode(l)
  PROVE  IInv'
<1> DEFINE n == Len(stack)
<1>1. n \in Nat /\ n # 0 /\ l \in Levels
  BY DEF IInv, TypeOK, Nested
<1>2. /\ stack' \in Seq(Levels) \ {<<>>}
      /\ Len(stack') = n + 1
      /\ \A i \in 1..n : stack'[i] = stack[i]
      /\ stack'[n + 1] = l
  BY <1>1 DEF PushMode, IInv, TypeOK
<1>3. Parent[l] = stack[n]
  BY DEF PushMode, RequireCurrent, Top
<1>4. ModesNest'
  BY <1>1, <1>2, <1>3 DEF IInv, PositionAgrees, ModesNest
<1>5. OverTime' = OverTime
  BY DEF OverTime, PushMode, Finish
<1>6. level' = Parent[stack'[2]] \/ (level' = Base /\ OverTime')
  <2>1. CASE n = 1
    BY <2>1, <1>2, <1>3 DEF PushMode, IInv, PositionAgrees
  <2>2. CASE n # 1
    <3>1. \A k \in Nat : k # 0 /\ k # 1 => k > 1 /\ 2 \in 1..k
      OBVIOUS
    <3>2. n > 1 /\ 2 \in 1..n
      BY <3>1, <2>2, <1>1
    <3>3. stack'[2] = stack[2]
      BY <3>2, <1>2
    <3>4. QED
      BY <3>2, <3>3, <1>5 DEF PushMode, IInv, PositionAgrees
  <2>3. QED
    BY <2>1, <2>2
<1>7. stack'[1] = level'
  BY <1>1, <1>2 DEF PushMode, IInv, PositionAgrees
<1>8. PositionAgrees'
  BY <1>4, <1>6, <1>7 DEF PositionAgrees
<1>9. phase' \in Replays \cup {"reading"} /\ (phase' \in Replays <=> phase \in Replays)
  BY DEF PushMode, Running, Finish, Replays
<1>10. QED
  BY <1>2, <1>8, <1>9, ModesOnly DEF PushMode, Finish

LEMMA ExitIInv ==
  ASSUME IInv, Exit
  PROVE  IInv'
<1> DEFINE n == Len(stack)
<1>1. n \in Nat /\ n > 1
  BY DEF IInv, TypeOK, Exit, CanPop
<1>2. /\ stack' \in Seq(Levels) \ {<<>>}
      /\ Len(stack') = n - 1
      /\ \A i \in 1..(n - 1) : stack'[i] = stack[i]
  <2>1. stack \in Seq(Levels) /\ 1 \in 1..(n + 1) /\ n - 1 \in 0..n
    BY <1>1 DEF IInv, TypeOK
  <2>2. /\ stack' \in Seq(Levels)
        /\ Len(stack') = n - 1
        /\ \A i \in 1..(n - 1) : stack'[i] = stack[1 + i - 1]
    BY <1>1, <2>1, SubSeqProperties DEF Exit
  <2>3. \A i \in 1..(n - 1) : 1 + i - 1 = i
    BY <1>1
  <2>4. QED
    BY <1>1, <2>2, <2>3
<1>3. ModesNest'
  BY <1>1, <1>2 DEF IInv, PositionAgrees, ModesNest
<1>4. OverTime' = OverTime
  BY DEF OverTime, Exit, Finish
<1>5. Len(stack') > 1 =>
        level' = Parent[stack'[2]] \/ (level' = Base /\ OverTime')
  <2>1. SUFFICES ASSUME n - 1 > 1
                 PROVE  level' = Parent[stack'[2]] \/ (level' = Base /\ OverTime')
    BY <1>2
  <2>2. stack'[2] = stack[2]
    BY <1>1, <1>2, <2>1
  <2>3. QED
    BY <1>1, <1>4, <2>2 DEF Exit, IInv, PositionAgrees
<1>6. stack'[1] = level'
  BY <1>1, <1>2 DEF Exit, IInv, PositionAgrees
<1>7. PositionAgrees'
  BY <1>3, <1>5, <1>6 DEF PositionAgrees
<1>8. phase' \in Replays \cup {"reading"} /\ (phase' \in Replays <=> phase \in Replays)
  BY DEF Exit, Running, Finish, Replays
<1>9. QED
  BY <1>2, <1>7, <1>8, ModesOnly DEF Exit, Finish

LEMMA EndIInv == IInv /\ End => IInv'
<1> SUFFICES ASSUME IInv, End PROVE IInv'
  OBVIOUS
<1>1. level \in Levels \ Nested
  BY DEF IInv, TypeOK
<1>2. level' \in Levels \ Nested /\ Path[level'] \subseteq Path[level]
  BY <1>1, EndsOnTheWay DEF End
<1>3. stack' = <<level'>>
  BY DEF End, IInv, PositionAgrees
<1>4. phase' \in Replays \cup {"reading"} /\ (phase' \in Replays <=> phase \in Replays)
  BY DEF End, Running, Finish, Replays
<1>5. QED
  BY <1>2, <1>3, <1>4, BackToRoot DEF End, Finish

LEMMA SetPasswordIInv == IInv /\ SetPassword => IInv'
<1> SUFFICES ASSUME IInv, SetPassword PROVE IInv'
  OBVIOUS
<1>1. phase' \in Replays \cup {"reading"} /\ (phase' \in Replays <=> phase \in Replays)
  BY DEF SetPassword, Running, Finish, Replays
<1>2. level \in Levels /\ open \subseteq open'
  BY DEF SetPassword, IInv, TypeOK
<1>3. TypeOK'
  BY <1>1, <1>2 DEF IInv, TypeOK, SetPassword, Finish, where, trust
<1>4. PositionAgrees'
  <2>1. now' = now /\ UNCHANGED where
    BY DEF SetPassword, Finish
  <2>2. now' \in 1..MaxTime /\ now' >= now
    BY <2>1, SessionAssumption DEF IInv, TypeOK
  <2>3. QED
    BY <2>1, <2>2, StayPut
<1>5. AskedFromParent'
  BY <1>1, SessionAssumption DEF AskedFromParent
<1>6. TrustIsTyped'
  BY <1>2 DEF IInv, TrustIsTyped, SetPassword, trust
<1>7. NoUnearnedLevel'
  BY <1>1, <1>2, NotUp DEF SetPassword, where, trust
<1>8. QED
  BY <1>3, <1>4, <1>5, <1>6, <1>7 DEF IInv

\* The commands and events that leave the session as it is.
LEMMA IdleIInv ==
  IInv /\ (Quit \/ SwitchAudit \/ Other \/ Refused \/ Leave) => IInv'
<1> SUFFICES ASSUME IInv, Quit \/ SwitchAudit \/ Other \/ Refused \/ Leave
             PROVE  IInv'
  OBVIOUS
<1>1. CASE Quit
  BY <1>1, Idle DEF Quit, Replays, IInv, TypeOK
<1>2. CASE SwitchAudit
  <2>1. phase' \in Replays \cup {"reading"} /\ (phase' \in Replays <=> phase \in Replays)
    BY <1>2 DEF SwitchAudit, Running, Finish, Replays
  <2>2. auditing' \in BOOLEAN /\ now' = now
    BY <1>2 DEF SwitchAudit, Finish
  <2>3. QED
    BY <1>2, <2>1, <2>2, Idle DEF SwitchAudit
<1>3. CASE Other
  <2>1. phase' \in Replays \cup {"reading"} /\ (phase' \in Replays <=> phase \in Replays)
    BY <1>3 DEF Other, Running, Finish, Replays
  <2>2. QED
    BY <1>3, <2>1, Idle DEF Other, Finish, IInv, TypeOK
<1>4. CASE Refused
  BY <1>4, Idle DEF Refused, Replays, IInv, TypeOK
<1>5. CASE Leave
  BY <1>5, Idle DEF Leave, Replays, IInv, TypeOK
<1>6. QED
  BY <1>1, <1>2, <1>3, <1>4, <1>5

LEMMA ReplayIInv == IInv /\ (Reboot \/ ReplayOver) => IInv'
<1> SUFFICES ASSUME IInv, Reboot \/ ReplayOver PROVE IInv'
  OBVIOUS
<1>1. Base \in Levels \ Nested
  BY Hierarchy DEF Nested
<1>2. Reset /\ UNCHANGED <<now, trust, hashed, auditing, open>>
  BY DEF Reboot, ReplayOver
<1>3. phase' \in Replays \cup {"reading", "line", "ended"}
  BY DEF Reboot, ReplayOver, Replays
<1>4. QED
  BY <1>1, <1>2, <1>3, BackToRoot DEF Reset

LEMMA LineIInv == IInv /\ Line => IInv'
<1> SUFFICES ASSUME IInv, Line PROVE IInv'
  OBVIOUS
<1>1. CASE ~(level # Base /\ OverTime)
  BY <1>1, Idle DEF Line, Replays, where, IInv, TypeOK
<1>2. CASE level # Base /\ OverTime
  <2>1. level' = Base /\ stack' = SetRoot(Base) /\ OverTime'
    BY <1>2 DEF Line, OverTime
  <2>2. stack \in Seq(Levels) /\ Len(stack) \in Nat /\ Len(stack) # 0
    BY DEF IInv, TypeOK
  <2>3. /\ stack' \in Seq(Levels) \ {<<>>}
        /\ Len(stack') = Len(stack)
        /\ stack'[1] = Base
        /\ \A i \in 2..Len(stack) : stack'[i] = stack[i]
    BY <2>1, <2>2, Hierarchy DEF SetRoot
  <2>4. ModesNest'
    BY <2>2, <2>3 DEF IInv, PositionAgrees, ModesNest
  <2>5. PositionAgrees'
    <3>1. stack'[1] = level' /\ level' = Base /\ OverTime'
      BY <2>1, <2>3
    <3>2. QED
      BY <2>4, <3>1 DEF PositionAgrees
  <2>6. TypeOK'
    BY <2>1, <2>3, Hierarchy DEF IInv, TypeOK, Line, trust, Nested
  <2>7. AskedFromParent'
    BY SessionAssumption DEF AskedFromParent, Line
  <2>8. TrustIsTyped'
    BY DEF IInv, TrustIsTyped, Line, trust
  <2>9. NoUnearnedLevel'
    BY <2>1, <2>8, PathOfBase DEF NoUnearnedLevel, TrustIsTyped, Earned
  <2>10. QED
    BY <2>5, <2>6, <2>7, <2>8, <2>9 DEF IInv
<1>3. QED
  BY <1>1, <1>2

LEMMA TickIInv == IInv /\ Tick => IInv'
<1> SUFFICES ASSUME IInv, Tick PROVE IInv'
  OBVIOUS
<1>1. now' \in 1..MaxTime /\ now' >= now
  BY SessionAssumption DEF Tick, IInv, TypeOK
<1>2. TypeOK'
  BY <1>1 DEF IInv, TypeOK, Tick, where, trust
<1>3. PositionAgrees'
  BY <1>1, StayPut DEF Tick
<1>4. AskedFromParent'
  BY DEF IInv, AskedFromParent, Tick, where
<1>5. TrustIsTyped'
  BY DEF IInv, TrustIsTyped, Tick, trust
<1>6. NoUnearnedLevel'
  BY NotUp DEF Tick, where, trust, IInv, TypeOK
<1>7. QED
  BY <1>2, <1>3, <1>4, <1>5, <1>6 DEF IInv

LEMMA StutterIInv == IInv /\ UNCHANGED vars => IInv'
BY DEF vars, where, trust, IInv, TypeOK, PositionAgrees, ModesNest, OverTime,
       AskedFromParent, TrustIsTyped, NoUnearnedLevel, Earned

LEMMA NextIInv == IInv /\ [Next]_vars => IInv'
<1> SUFFICES ASSUME IInv, [Next]_vars PROVE IInv'
  OBVIOUS
<1>1. CASE UNCHANGED vars
  BY <1>1, StutterIInv
<1>2. ASSUME NEW l \in Swapped,
             \/ EnterWaived(l) \/ AskPassword(l)
             \/ RightPassword(l) \/ WrongPassword(l)
      PROVE  IInv'
  BY <1>2, EnterWaivedIInv, AskPasswordIInv, RightPasswordIInv, WrongPasswordIInv
<1>3. ASSUME NEW l \in DOMAIN ExitCmd, LeaveLevel(l) PROVE IInv'
  BY <1>3, LeaveLevelIInv
<1>4. ASSUME NEW l \in Nested, PushMode(l) PROVE IInv'
  BY <1>4, PushModeIInv
<1>5. CASE Exit
  BY <1>5, ExitIInv
<1>6. CASE End
  BY <1>6, EndIInv
<1>7. CASE SetPassword
  BY <1>7, SetPasswordIInv
<1>8. CASE Quit \/ SwitchAudit \/ Other \/ Refused \/ Leave
  BY <1>8, IdleIInv
<1>9. CASE Reboot \/ ReplayOver
  BY <1>9, ReplayIInv
<1>10. CASE Line
  BY <1>10, LineIInv
<1>11. CASE Tick
  BY <1>11, TickIInv
<1>12. QED
  BY <1>1, <1>2, <1>3, <1>4, <1>5, <1>6, <1>7, <1>8, <1>9, <1>10, <1>11 DEF Next

LEMMA Invariant == Spec => []IInv
<1>1. QED
  BY InitIInv, NextIInv, PTL DEF Spec

-----------------------------------------------------------------------------
(* Wrong passwords.  A level's limiter remembers those of the level since  *)
(* the last right one, and who is at its prompt was let pass, for time     *)
(* only moves on until the answer.                                         *)

LimitInv ==
  /\ \A l \in Swapped : Remembers(limiter[l], misses[l], now)
  /\ phase \in Swapped => Allow(limiter[phase], now)

LEMMA InitLimitInv == Init => LimitInv
<1> SUFFICES ASSUME Init PROVE LimitInv
  OBVIOUS
<1>1. phase \notin Swapped
  BY SessionAssumption DEF Init, Replays
<1>2. \A l \in Swapped : limiter[l] = NewLimiter /\ misses[l] = <<>>
  BY DEF Init
<1>3. QED
  BY <1>1, <1>2, NewRemembers DEF LimitInv

\* A step that records no attempt, and asks only where one may be made.
LEMMA LimitKeeps ==
  ASSUME TypeOK, LimitInv, UNCHANGED <<limiter, misses>>,
         now' \in 1..MaxTime, now' >= now,
         phase' \in Swapped => phase' = phase \/ Allow(limiter[phase'], now)
  PROVE  LimitInv'
<1>1. now \in Nat /\ now' \in Nat /\ now <= now'
  BY SessionAssumption DEF TypeOK
<1>2. ASSUME NEW l \in Swapped PROVE Remembers(limiter'[l], misses'[l], now')
  BY <1>1, LaterRemembers DEF LimitInv
<1>3. ASSUME phase' \in Swapped PROVE Allow(limiter'[phase'], now')
  <2>1. Allow(limiter[phase'], now)
    BY <1>3 DEF LimitInv
  <2>2. limiter[phase'].lockedUntil \in Nat
    BY <1>3 DEF LimitInv, Remembers, Limiters
  <2>3. QED
    BY <2>1, <2>2, <1>1 DEF Allow
<1>4. QED
  BY <1>2, <1>3 DEF LimitInv

LEMMA WrongPasswordLimitInv ==
  ASSUME TypeOK, LimitInv, NEW l \in Swapped, WrongPassword(l)
  PROVE  LimitInv'
<1>1. /\ phase = l /\ now' = now /\ phase' \notin Swapped
      /\ limiter' = [limiter EXCEPT ![l] = RecordFailure(@, now)]
      /\ misses' = [misses EXCEPT ![l] = Append(@, now)]
  BY SessionAssumption DEF WrongPassword, Finish, Replays
<1>2. now \in Nat /\ Remembers(limiter[l], misses[l], now) /\ Allow(limiter[l], now)
  BY <1>1, SessionAssumption DEF TypeOK, LimitInv
<1>3. Remembers(limiter'[l], misses'[l], now)
  <2>1. /\ limiter'[l] = RecordFailure(limiter[l], now)
        /\ misses'[l] = Append(misses[l], now)
    BY <1>1 DEF TypeOK
  <2>2. QED
    BY <2>1, <1>2, FailureRemembers
<1>4. \A k \in Swapped \ {l} : limiter'[k] = limiter[k] /\ misses'[k] = misses[k]
  BY <1>1 DEF TypeOK
<1>5. QED
  BY <1>1, <1>3, <1>4 DEF LimitInv

LEMMA RightPasswordLimitInv ==
  ASSUME TypeOK, LimitInv, NEW l \in Swapped, RightPassword(l)
  PROVE  LimitInv'
<1>1. /\ phase = l /\ now' = now /\ phase' \notin Swapped
      /\ limiter' = [limiter EXCEPT ![l] = RecordSuccess(@)]
      /\ misses' = [misses EXCEPT ![l] = <<>>]
  BY SessionAssumption DEF RightPassword, Finish, Replays
<1>2. limiter'[l] = NewLimiter /\ misses'[l] = <<>>
  BY <1>1 DEF TypeOK, RecordSuccess
<1>3. \A k \in Swapped \ {l} : limiter'[k] = limiter[k] /\ misses'[k] = misses[k]
  BY <1>1 DEF TypeOK
<1>4. QED
  BY <1>1, <1>2, <1>3, NewRemembers DEF LimitInv

\* Whatever is not an answer to a prompt.
LEMMA NoAttempt ==
  ASSUME TypeOK, [Next]_vars,
         \A l \in Swapped : ~RightPassword(l) /\ ~WrongPassword(l)
  PROVE  /\ UNCHANGED <<limiter, misses>>
         /\ now' \in 1..MaxTime /\ now' >= now
         /\ phase' \in Swapped => phase' = phase \/ Allow(limiter[phase'], now)
<1> USE SessionAssumption DEF trust, where, Finish, Replays
<1>0. now \in 1..MaxTime /\ MaxTime \in Nat
  BY DEF TypeOK
<1>1. ASSUME NEW l \in Swapped, AskPassword(l)
      PROVE  /\ UNCHANGED <<limiter, misses, now>>
             /\ phase' = l /\ Allow(limiter[l], now)
  BY <1>1 DEF AskPassword, Admitted
<1>2. CASE Tick
  BY <1>0, <1>2 DEF Tick
<1>3. ASSUME UNCHANGED vars \/ Line \/ Leave \/ Reboot \/ ReplayOver \/ Refused \/ Quit
      PROVE  UNCHANGED <<limiter, misses, now>> /\ (phase' = phase \/ phase' \notin Swapped)
  BY <1>3 DEF vars, Line, Leave, Reboot, ReplayOver, Refused, Quit
<1>4. ASSUME \/ \E l \in Swapped : EnterWaived(l)
             \/ \E l \in DOMAIN ExitCmd : LeaveLevel(l)
             \/ \E l \in Nested : PushMode(l)
             \/ Exit \/ End \/ SetPassword \/ SwitchAudit \/ Other
      PROVE  UNCHANGED <<limiter, misses, now>> /\ (phase' = phase \/ phase' \notin Swapped)
  BY <1>4 DEF EnterWaived, LeaveLevel, PushMode, Exit, End, SetPassword,
     SwitchAudit, Other
<1>5. QED
  BY <1>0, <1>1, <1>2, <1>3, <1>4 DEF Next

LEMMA NextLimitInv == TypeOK /\ LimitInv /\ [Next]_vars => LimitInv'
<1> SUFFICES ASSUME TypeOK, LimitInv, [Next]_vars PROVE LimitInv'
  OBVIOUS
<1>1. CASE \E l \in Swapped : RightPassword(l) \/ WrongPassword(l)
  BY <1>1, RightPasswordLimitInv, WrongPasswordLimitInv
<1>2. CASE \A l \in Swapped : ~RightPassword(l) /\ ~WrongPassword(l)
  BY <1>2, NoAttempt, LimitKeeps
<1>3. QED
  BY <1>1, <1>2

-----------------------------------------------------------------------------
(* Results.                                                                *)

\* The variables of RunLoop have their types: the position never loses its
\* root frame, and Session.CommandLevel is never a mode.
THEOREM TypeCorrect == Spec => []TypeOK
<1>1. IInv => TypeOK
  BY DEF IInv
<1>2. QED
  BY <1>1, Invariant, PTL

\* In every manifest, Session.CommandLevel and the position agree, up to
\* what the elevation timeout leaves behind.
THEOREM PositionTheorem == Spec => []PositionAgrees
<1>1. IInv => PositionAgrees
  BY DEF IInv
<1>2. QED
  BY <1>1, Invariant, PTL

\* Without an elevation timeout, the default, "at the base level" always
\* means only the base level's own modes.
THEOREM BaseMeansBase ==
  ASSUME ElevationTimeout = 0
  PROVE  Spec => []RevertsToBase
<1>1. IInv => RevertsToBase
  BY DEF IInv, PositionAgrees, RevertsToBase, OverTime
<1>2. QED
  BY <1>1, Invariant, PTL

\* No session is at a level with a password that it, or a bypass level's,
\* was not typed for, whatever a saved configuration contains.
THEOREM EarnedTheorem == Spec => []NoUnearnedLevel
<1>1. IInv => NoUnearnedLevel
  BY DEF IInv
<1>2. QED
  BY <1>1, Invariant, PTL

\* For every level, limit, window and lockout: of MaxAttempts + 1 wrong
\* passwords in a row, all but the last within the window, the last comes a
\* lockout after the first, however time and other commands fall between them.
THEOREM SlowTheorem == Spec => []AttemptsAreSlow
<1>1. LimitInv => AttemptsAreSlow
  BY DEF LimitInv, AttemptsAreSlow, Remembers, Slow
<1>2. IInv => TypeOK
  BY DEF IInv
<1>3. QED
  BY Invariant, InitLimitInv, NextLimitInv, <1>1, <1>2, PTL DEF Spec

\* Whoever turns the audit log off or on leaves an entry that says so.
THEOREM SwitchTheorem == Spec => SwitchIsAudited
<1> DEFINE Entry == auditing # auditing' =>
      audited' = (IF auditing THEN "audit-log disable" ELSE "audit-log enable")
<1>1. ASSUME TypeOK, [Next]_vars PROVE [Entry]_vars
  <2>1. CASE SwitchAudit
    <3>1. PICK c \in AuditCommands :
            Running(c) /\ auditing' = (c = "audit-log enable") /\ Finish(c)
      BY <2>1 DEF SwitchAudit
    <3>2. phase \notin Replays
      BY <3>1, SessionAssumption DEF Running, Replays
    <3>3. /\ auditing' = (c = "audit-log enable")
          /\ audited' = c \/ ~(auditing \/ auditing')
      BY <3>1, <3>2 DEF Finish, Recorded, WouldLog
    <3>4. ASSUME auditing # auditing' PROVE auditing \/ auditing'
      <4>1. auditing \in BOOLEAN
        BY <1>1 DEF TypeOK
      <4>2. auditing' \in BOOLEAN
        BY <3>1, Zenon
      <4>3. QED
        BY <3>4, <4>1, <4>2
    <3>5. ASSUME auditing # auditing' PROVE auditing' = ~auditing
      <4>1. auditing \in BOOLEAN
        BY <1>1 DEF TypeOK
      <4>2. auditing' \in BOOLEAN
        BY <3>1, Zenon
      <4>3. QED
        BY <3>5, <4>1, <4>2
    <3>6. ASSUME auditing # auditing' PROVE Entry
      <4>1. audited' = c /\ c \in AuditCommands
        BY <3>1, <3>3, <3>4, <3>6
      <4>2. CASE auditing
        BY <4>1, <4>2, <3>1, <3>5, <3>6 DEF AuditCommands
      <4>3. CASE ~auditing
        BY <4>1, <4>3, <3>1, <3>5, <3>6 DEF AuditCommands
      <4>4. QED
        BY <4>2, <4>3
    <3>7. QED
      BY <3>6
  <2>2. ASSUME ~SwitchAudit PROVE auditing' = auditing
    BY <1>1, <2>2 DEF Next, vars, EnterWaived, AskPassword, RightPassword,
       WrongPassword, LeaveLevel, PushMode, Exit, Quit, End, SetPassword, Other,
       Refused, Reboot, ReplayOver, Line, Leave, Tick
  <2>3. QED
    BY <2>1, <2>2
<1>2. IInv => TypeOK
  BY DEF IInv
<1>3. QED
  BY Invariant, <1>1, <1>2, PTL DEF Spec, SwitchIsAudited
=============================================================================
