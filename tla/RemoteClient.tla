---------------------------- MODULE RemoteClient -----------------------------
(***************************************************************************)
(* daemon/remoteclient.go: the CLI process's end of a connection.  The     *)
(* dispatch goroutine (cl) makes one call at a time; the read loop         *)
(* (reader) is the only receiver and hands each answer to whichever call   *)
(* is waiting.  `told` is the content of the farewell channel; done is     *)
(* closed exactly when it is filled (fail).                                *)
(***************************************************************************)
EXTENDS Connection

VARIABLES
  cl,       \* cl[s]: "off", "dial", "hello" and "call" (in a call), "idle",
            \* "over" (closed by Close), "dead" (the process was killed)
  want,     \* want[s]: the kind of request the last call sent
  result,   \* result[s]: what the last call returned, "ok" or "error"
  respCh,   \* respCh[s]: the channel answers are handed over on, one slot
  reader,   \* reader[s]: "off", "receive" or "returned"
  told      \* told[s]: the text in the farewell channel, "none" = empty

clientVars == <<cl, want, result, respCh, reader, told>>

ClientInit ==
  /\ cl = [s \in Sessions |-> "off"]
  /\ want = [s \in Sessions |-> "none"]
  /\ result = [s \in Sessions |-> "none"]
  /\ respCh = [s \in Sessions |-> <<>>]
  /\ reader = [s \in Sessions |-> "off"]
  /\ told = [s \in Sessions |-> "none"]

\* done is closed.
Done(s) == told[s] # "none"

\* doneOnce: a later fail, whatever its text, does nothing.
FailEveryTime(s, text) == told' = [told EXCEPT ![s] = text]
Fail(s, text) ==
  told' = IF Done(s) THEN told ELSE [told EXCEPT ![s] = text]

\* An empty farewell is reported with the wording of a disconnect.
FarewellText(m) == IF m.text = "" THEN "disconnected" ELSE m.text

-----------------------------------------------------------------------------
(* The dispatch goroutine.                                                 *)

\* call sends its request; a send that fails ends the connection.
BeginCall(s, m, place, failed) ==
  /\ SendUp(s, m)
  /\ want' = [want EXCEPT ![s] = m.kind]
  /\ IF CanSend(s)
     THEN /\ cl' = [cl EXCEPT ![s] = place]
          /\ UNCHANGED <<result, told, down, cliOpen>>
     ELSE /\ cl' = [cl EXCEPT ![s] = failed]
          /\ result' = [result EXCEPT ![s] = "error"]
          /\ Fail(s, "lost")
          /\ IF failed = "over"
             THEN CloseClientEnd(s)
             ELSE UNCHANGED <<down, cliOpen>>
  /\ UNCHANGED <<respCh, srvOpen>>

\* NewRemoteClient starts the read loop and calls Hello; when that fails it
\* closes the connection, Close finding done closed.
SendHello(s) ==
  /\ cl[s] = "dial"
  /\ reader' = [reader EXCEPT ![s] = "receive"]
  /\ BeginCall(s, [kind |-> "Hello"], "hello", "over")

StartCall(s, m) ==
  /\ cl[s] = "idle"
  /\ BeginCall(s, m, "call", "idle")
  /\ UNCHANGED reader

InCall(s) == cl[s] \in {"hello", "call"}

\* A call's select: an answer has been handed over ...
AnswerOfKind(m, kind) == IF m.kind = kind THEN "ok" ELSE "error"
AnswerOf(m, kind) == IF m.kind = kind /\ m.ok THEN "ok" ELSE "error"
CallAnswered(s) ==
  /\ InCall(s)
  /\ respCh[s] # <<>>
  /\ respCh' = [respCh EXCEPT ![s] = Tail(@)]
  /\ result' = [result EXCEPT ![s] = AnswerOf(Head(respCh[s]), want[s])]
  /\ IF cl[s] = "hello" /\ result'[s] = "error"
     THEN cl' = [cl EXCEPT ![s] = "over"] /\ CloseClientEnd(s)
     ELSE cl' = [cl EXCEPT ![s] = "idle"] /\ UNCHANGED <<down, cliOpen>>
  /\ UNCHANGED <<want, reader, told, up, srvOpen>>

\* ... or done is closed; with both, the select draws.
NeverEnds(s) == FALSE
EndsWithConnection(s) == Done(s)
CallEnded(s) ==
  /\ InCall(s)
  /\ EndsWithConnection(s)
  /\ result' = [result EXCEPT ![s] = "error"]
  /\ IF cl[s] = "hello"
     THEN cl' = [cl EXCEPT ![s] = "over"] /\ CloseClientEnd(s)
     ELSE cl' = [cl EXCEPT ![s] = "idle"] /\ UNCHANGED <<down, cliOpen>>
  /\ UNCHANGED <<want, respCh, reader, told, up, srvOpen>>

\* sendAuditEvent: nobody waits for an answer, a failure only ends the
\* connection.
SendAudit(s) ==
  /\ cl[s] = "idle"
  /\ SendUp(s, [kind |-> "Audit"])
  /\ IF CanSend(s) THEN UNCHANGED told ELSE Fail(s, "lost")
  /\ UNCHANGED <<cl, want, result, respCh, reader, down, cliOpen, srvOpen>>

\* Close says Goodbye unless the connection has ended some other way.
CloseClient(s) ==
  /\ cl[s] = "idle"
  /\ IF Done(s)
     THEN UNCHANGED <<up, told>>
     ELSE /\ SendUp(s, [kind |-> "Goodbye"])
          /\ IF CanSend(s) THEN UNCHANGED told ELSE Fail(s, "lost")
  /\ CloseClientEnd(s)
  /\ cl' = [cl EXCEPT ![s] = "over"]
  /\ UNCHANGED <<want, result, respCh, reader, srvOpen>>

\* The process is killed: no Goodbye, and nothing of it runs any more.
Crash(s) ==
  /\ cl[s] \in {"dial", "hello", "idle", "call"}
  /\ cl' = [cl EXCEPT ![s] = "dead"]
  /\ reader' = [reader EXCEPT ![s] = "returned"]
  /\ CloseClientEnd(s)
  /\ respCh' = [respCh EXCEPT ![s] = <<>>]
  /\ want' = [want EXCEPT ![s] = "none"]
  /\ result' = [result EXCEPT ![s] = "none"]
  /\ UNCHANGED <<told, up, srvOpen>>

-----------------------------------------------------------------------------
(* The read loop.                                                          *)

ReadGoesOn(s, returned) == UNCHANGED reader
ReadReturns(s, returned) ==
  reader' = IF returned THEN [reader EXCEPT ![s] = "returned"] ELSE reader

\* A frame that is not a farewell is handed over when the slot is free; the
\* read loop gives up waiting for that when done is closed.
Read(s) ==
  /\ reader[s] = "receive"
  /\ ~ClientReceiveFails(s)
  /\ down[s] # <<>>
  /\ LET m == Head(down[s]) IN
       \/ /\ m.kind = "Farewell"
          /\ Fail(s, FarewellText(m))
          /\ ReadReturns(s, TRUE)
          /\ UNCHANGED respCh
       \/ /\ m.kind # "Farewell"
          /\ respCh[s] = <<>>
          /\ respCh' = [respCh EXCEPT ![s] = <<m>>]
          /\ ReadReturns(s, FALSE)
          /\ UNCHANGED told
       \/ /\ m.kind # "Farewell"
          /\ Done(s)
          /\ ReadReturns(s, TRUE)
          /\ UNCHANGED <<respCh, told>>
  /\ down' = [down EXCEPT ![s] = Tail(@)]
  /\ UNCHANGED <<cl, want, result, up, cliOpen, srvOpen>>

ReadFails(s) ==
  /\ reader[s] = "receive"
  /\ ClientReceiveFails(s)
  /\ Fail(s, "lost")
  /\ ReadReturns(s, TRUE)
  /\ UNCHANGED <<cl, want, result, respCh, connVars>>
=============================================================================
