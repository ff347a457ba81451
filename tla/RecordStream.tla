---------------------------- MODULE RecordStream -----------------------------
(***************************************************************************)
(* What armorchan/doc.go promises of one connection between the daemon     *)
(* and a client: an ordered channel in each direction.  What an end's      *)
(* Receive returns is, record for record and in order, what the other      *)
(* end's Send reported as sent; the stream may stop anywhere, and nothing  *)
(* is carried over to the next connection.                                 *)
(***************************************************************************)
EXTENDS Naturals, Sequences

CONSTANT Payloads   \* the plaintexts the two ends exchange

VARIABLES
  sent,   \* sent[e]: what Send of end e reported as sent
  got     \* got[e]: what Receive of end e returned

Ends == {"client", "daemon"}
Peer(e) == IF e = "client" THEN "daemon" ELSE "client"

StreamInit ==
  /\ sent = [e \in Ends |-> <<>>]
  /\ got = [e \in Ends |-> <<>>]

StreamSend(e, p) ==
  /\ sent' = [sent EXCEPT ![e] = Append(@, p)]
  /\ UNCHANGED got

StreamReceive(e) ==
  /\ Len(got[e]) < Len(sent[Peer(e)])
  /\ got' = [got EXCEPT ![e] = Append(@, sent[Peer(e)][Len(got[e]) + 1])]
  /\ UNCHANGED sent

Reconnect ==
  /\ sent' = [e \in Ends |-> <<>>]
  /\ got' = [e \in Ends |-> <<>>]

StreamNext ==
  \/ \E e \in Ends, p \in Payloads : StreamSend(e, p)
  \/ \E e \in Ends : StreamReceive(e)
  \/ Reconnect

StreamSpec == StreamInit /\ [][StreamNext]_<<sent, got>>
=============================================================================
