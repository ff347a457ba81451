------------------------------ MODULE MCDaemon -------------------------------
(***************************************************************************)
(* Small instances of Daemon: two sessions of one user, so that a request  *)
(* to disconnect that user is ambiguous when both are attached.            *)
(***************************************************************************)
EXTENDS Daemon

OneUser == [s \in Sessions |-> CHOOSE u \in Users : TRUE]
=============================================================================
