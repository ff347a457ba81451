----------------------------- MODULE Connection ------------------------------
(***************************************************************************)
(* One accepted Unix socket with the armorchan Channel over it, as both    *)
(* ends use it: two first-in first-out queues of whole messages.  A send   *)
(* to a connection either end has closed fails; a receive on an end that   *)
(* has closed its own side fails at once, and one on an end whose peer has *)
(* closed fails when what the peer had sent is used up.                    *)
(***************************************************************************)
EXTENDS Naturals, Sequences, FiniteSets

CONSTANT Sessions   \* the connections ever attempted, one session each

VARIABLES
  up,        \* up[s]: messages from the client the daemon has not received
  down,      \* down[s]: messages from the daemon the client has not received
  cliOpen,   \* cliOpen[s]: the client has not closed its end
  srvOpen    \* srvOpen[s]: the daemon has not closed its end

connVars == <<up, down, cliOpen, srvOpen>>

ConnInit ==
  /\ up = [s \in Sessions |-> <<>>]
  /\ down = [s \in Sessions |-> <<>>]
  /\ cliOpen = [s \in Sessions |-> TRUE]
  /\ srvOpen = [s \in Sessions |-> TRUE]

CanSend(s) == cliOpen[s] /\ srvOpen[s]

\* The effect of Send, whose error the caller sees as ~CanSend(s).
SendUp(s, m) ==
  up' = IF CanSend(s) THEN [up EXCEPT ![s] = Append(@, m)] ELSE up
SendDown(s, m) ==
  down' = IF CanSend(s) THEN [down EXCEPT ![s] = Append(@, m)] ELSE down

\* Receive returns an error rather than a message.
OnlyOwnClose(s) == ~srvOpen[s]
ServerReceiveFails(s) == ~srvOpen[s] \/ (up[s] = <<>> /\ ~cliOpen[s])
ClientReceiveFails(s) == ~cliOpen[s] \/ (down[s] = <<>> /\ ~srvOpen[s])

\* Closing an end discards what it has not received.
CloseServerEnd(S) ==
  /\ srvOpen' = [s \in Sessions |-> srvOpen[s] /\ s \notin S]
  /\ up' = [s \in Sessions |-> IF s \in S THEN <<>> ELSE up[s]]
CloseClientEnd(s) ==
  /\ cliOpen' = [cliOpen EXCEPT ![s] = FALSE]
  /\ down' = [down EXCEPT ![s] = <<>>]
=============================================================================
