-------------------------- MODULE SessionDirectory ---------------------------
(***************************************************************************)
(* daemon/sessions.go: the registry of attached sessions.  Every operation *)
(* is one function run by a Store (module Store), so each is one step.     *)
(* A session is its own identifier; a farewell is pushed to a channel      *)
(* buffered by one and never waits for room.                               *)
(***************************************************************************)
EXTENDS Connection

CONSTANTS
  Users,
  UserOf,      \* UserOf[s]: the username of s's Hello
  AnyID        \* the empty session ID of a disconnect request

ASSUME DirectoryAssumption ==
  /\ UserOf \in [Sessions -> Users]
  /\ AnyID \notin Sessions

VARIABLES
  registered,  \* the sessions in the registry
  farewell     \* farewell[s]: content of s's farewell channel

directoryVars == <<registered, farewell>>

DirectoryInit ==
  /\ registered = {}
  /\ farewell = [s \in Sessions |-> <<>>]

Register(s) ==
  /\ registered' = registered \cup {s}
  /\ farewell' = [farewell EXCEPT ![s] = <<>>]

\* A second call finds nothing and changes nothing (ErrSessionNotFound).
Unregister(s) ==
  /\ registered' = registered \ {s}
  /\ UNCHANGED farewell

\* pushFarewell on every session of S: dropped where one is already waiting.
Push(S, text) ==
  /\ farewell' = [s \in Sessions |->
       IF s \in S /\ farewell[s] = <<>> THEN <<text>> ELSE farewell[s]]
  /\ UNCHANGED registered

BroadcastFarewell(text) == Push(registered, text)

\* The sessions a disconnect request may mean.
Candidates(user, id) ==
  {s \in registered : UserOf[s] = user /\ (id # AnyID => s = id)}

\* Exactly one candidate is told; none (ErrNoMatchingSession) or several
\* (ErrAmbiguousSession) is refused and tells nobody.
Resolves(user, id) == Cardinality(Candidates(user, id)) = 1
Farewell(user, id, text) ==
  IF Resolves(user, id)
  THEN Push(Candidates(user, id), text)
  ELSE UNCHANGED directoryVars
=============================================================================
