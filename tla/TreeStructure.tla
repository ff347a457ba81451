---------------------------- MODULE TreeStructure ----------------------------
(***************************************************************************)
(* command/treestructure.go: how the manifest's levels and their tree      *)
(* files become the command tree of each level.  A tree is the set of      *)
(* commands that can be typed; a level's command either replaces the root  *)
(* frame of the position (Swapped) or pushes a frame on it (Nested).       *)
(***************************************************************************)
EXTENDS Naturals, FiniteSets

CONSTANTS
  Levels,
  Base,        \* the level with is_base
  Parent,      \* Parent[l], for every level but Base
  Swapped,     \* levels entered through EnterCommandLevel
  Inheriting,  \* levels with inherit_parent
  SkipCommon,  \* levels with skip_common
  Own,         \* Own[l]: the commands of l's tree file
  EnterCmd,    \* EnterCmd[l], for every level but Base
  ExitCmd,     \* ExitCmd[l], for some of the swapped levels
  Common,      \* the commands of the common tree
  EndLevel     \* the level "end" goes back to

Nested == Levels \ (Swapped \cup {Base})

\* Commands that switch levels are not inherited.
SwitchCommands ==
  {EnterCmd[l] : l \in DOMAIN EnterCmd} \cup {ExitCmd[l] : l \in DOMAIN ExitCmd}
InheritedWhole(tree) == tree
Inherited(tree) == tree \ SwitchCommands

\* A level's tree before the common one is merged in.
RawTree[l \in Levels] ==
  IF l \in Inheriting /\ l # Base
  THEN Own[l] \cup Inherited(RawTree[Parent[l]])
  ELSE Own[l]

Tree(l) == IF l \in SkipCommon THEN RawTree[l] ELSE RawTree[l] \cup Common

\* Where "end" gets to from l, leaving one level after another.
EndsAt[l \in Levels] ==
  IF l \in {EndLevel, Base} THEN l ELSE EndsAt[Parent[l]]

\* The levels on the way from the base to l.
Path[l \in Levels] == IF l = Base THEN {l} ELSE {l} \cup Path[Parent[l]]

(***************************************************************************)
(* What parseTreeManifest, verifyLevelHierarchy and VerifyCommandLevels    *)
(* accept.  In particular a level is never above itself, so that the       *)
(* recursive definitions above define something.                           *)
(***************************************************************************)
LevelsRank ==
  \E rank \in [Levels -> 0..Cardinality(Levels)] :
    \A l \in Levels \ {Base} : rank[Parent[l]] < rank[l]

ASSUME Hierarchy ==
  /\ IsFiniteSet(Levels) /\ Base \in Levels
  /\ Parent \in [Levels \ {Base} -> Levels]
  /\ LevelsRank
  /\ Swapped \subseteq Levels \ {Base}
  /\ DOMAIN EnterCmd = Levels \ {Base}
  /\ DOMAIN ExitCmd \subseteq Swapped

(***************************************************************************)
(* How the tree files are written: the command that leaves a level is in   *)
(* its own file only, and a swapped level is entered from the base or from *)
(* another swapped level.                                                  *)
(***************************************************************************)
ASSUME TreeFiles ==
  /\ \A l \in DOMAIN ExitCmd :
       /\ ExitCmd[l] \notin Common
       /\ \A k \in Levels : ExitCmd[l] \in Own[k] => k = l
  /\ \A l \in Swapped : Parent[l] \notin Nested
=============================================================================
