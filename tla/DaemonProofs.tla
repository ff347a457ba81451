----------------------------- MODULE DaemonProofs -----------------------------
(***************************************************************************)
(* Proofs about Daemon: the slots and the directory are exact, an answer   *)
(* is for the call that waits for it and means what it says, a session is  *)
(* told once, only an overtaken reboot goes back to older files, nobody    *)
(* is left waiting when nothing can move, and what the program owes runs   *)
(* out.                                                                    *)
(***************************************************************************)
EXTENDS Daemon, FiniteSetTheorems, TLAPS

-----------------------------------------------------------------------------
(* The inductive invariant.                                                *)

\* A channel buffered by one.
Slot(S) == {<<>>} \cup {<<x>> : x \in S}

Places == {"none", "queued", "handshake", "hello", "greet", "loop", "replace",
           "reply", "broadcast", "leave", "close", "gone"}
Texts == {"rebooting", "disconnected", ""}
Replies == [kind : {"Disconnect", "Reboot"}, ok : BOOLEAN,
            sent : {"loop", "broadcast"}, failed : {"loop", "leave"}]
RequestKinds == {"Hello", "ListUsers", "Disconnect", "Reboot"}

ConnTypes ==
  /\ up \in [Sessions -> Seq(Messages)]
  /\ down \in [Sessions -> Seq(Answers \cup Farewells)]
  /\ cliOpen \in [Sessions -> BOOLEAN]
  /\ srvOpen \in [Sessions -> BOOLEAN]
DirectoryTypes ==
  /\ registered \in SUBSET Sessions
  /\ farewell \in [Sessions -> Slot(Texts)]
ServerTypes ==
  /\ ceiling \in Ceilings
  /\ listening \in BOOLEAN
  /\ srv \in [Sessions -> Places]
  /\ reply \in [Sessions -> Slot(Replies)]
  /\ watcher \in [Sessions -> {"none", "select", "send", "close", "done"}]
  /\ text \in [Sessions -> Texts]
  /\ sig \in {"wait", "replace", "broadcast", "drained", "ended", "exited"}
  /\ granted \in SUBSET Sessions
StateTypes ==
  /\ disk \in 0..MaxWrites
  /\ canonical \in 0..MaxWrites
  /\ loaded \in [Rebooters -> 0..MaxWrites]
  /\ overtaken \in SUBSET Rebooters
ClientTypes ==
  /\ cl \in [Sessions ->
              {"off", "dial", "hello", "call", "idle", "over", "dead"}]
  /\ want \in [Sessions -> RequestKinds \cup {"none"}]
  /\ result \in [Sessions -> {"none", "ok", "error"}]
  /\ respCh \in [Sessions -> Slot(Answers)]
  /\ reader \in [Sessions -> {"off", "receive", "returned"}]
  /\ told \in [Sessions -> {"none", "lost", "disconnected", "rebooting"}]
  /\ budget \in 0..MaxEvents

Types ==
  ConnTypes /\ DirectoryTypes /\ ServerTypes /\ StateTypes /\ ClientTypes

\* The slots are the connections being served, of which there are finitely
\* many, however many sessions there may be; no more than the ceiling.
InService == {s \in Sessions : Served(s)}
SlotInv ==
  /\ IsFiniteSet(InService)
  /\ slots = Cardinality(InService)
  /\ slots <= ceiling

\* The places of a connection whose session may be in the directory.
Attending == {"greet", "loop", "replace", "reply", "broadcast", "leave"}

\* A connection is dialled once.
Undialled == \A s \in Sessions : cl[s] = "off" => srv[s] \in {"none", "gone"}

\* An answer is ready before it is sent.
ReplyReady == \A s \in Sessions : srv[s] = "reply" => reply[s] # <<>>

\* A reboot that nobody has overtaken has read what is no older than the
\* canonical state.
RebootInv ==
  /\ canonical <= disk
  /\ \A r \in Loading : loaded[r] <= disk /\ (r \in overtaken \/ canonical <= loaded[r])

\* The exchange of a request and its answer, in one of four places at a time
\* as long as the client's end is open and nothing has told it otherwise.
Live(s) == cliOpen[s] /\ ~Done(s)

Has(q, K) == \E i \in 1..Len(q) : q[i].kind \in K
Once(q, K) ==
  \A i, j \in 1..Len(q) : q[i].kind \in K /\ q[j].kind \in K => i = j
Only(q, K, kind) == \A i \in 1..Len(q) : q[i].kind \in K => q[i].kind = kind

Asked(s) == Has(up[s], RequestKinds)
Serving(s) == srv[s] \in {"greet", "replace", "reply"}
Answered(s) == Has(down[s], RequestKinds)
Handed(s) == respCh[s] # <<>>

OnePlace(s) ==
  /\ Once(up[s], RequestKinds) /\ Once(down[s], RequestKinds)
  /\ Asked(s) => ~Serving(s) /\ ~Answered(s) /\ ~Handed(s)
  /\ Serving(s) => ~Answered(s) /\ ~Handed(s)
  /\ Answered(s) => ~Handed(s)

Wanted(s) ==
  /\ Asked(s) \/ Serving(s) \/ Answered(s) \/ Handed(s) => InCall(s)
  /\ Only(up[s], RequestKinds, want[s])
  /\ srv[s] = "greet" => want[s] = "Hello"
  /\ srv[s] = "replace" => want[s] = "Reboot"
  /\ srv[s] = "reply" => reply[s][1].kind = want[s]
  /\ Only(down[s], RequestKinds, want[s])
  /\ Handed(s) => respCh[s][1].kind = want[s]

Vouched(m, s) == m.kind \in {"Disconnect", "Reboot"} /\ m.ok => s \in granted
Honest(s) ==
  /\ srv[s] = "reply" => Vouched(reply[s][1], s)
  /\ \A i \in 1..Len(down[s]) : Vouched(down[s][i], s)
  /\ Handed(s) => Vouched(respCh[s][1], s)
  /\ cl[s] = "idle" /\ result[s] = "ok" /\ want[s] \in {"Disconnect", "Reboot"}
       => s \in granted

\* Nothing but a Hello is said before the greeting, which is the first answer.
UpKinds == RequestKinds \cup {"Audit", "Goodbye"}
Fresh == {"none", "queued", "handshake", "hello"}
Early(s) ==
  /\ srv[s] \in Fresh => ~Answered(s) /\ ~Handed(s)
  /\ srv[s] \in Fresh \cup {"greet"} => cl[s] \in {"off", "dial", "hello"}
  /\ cl[s] \in {"off", "dial"} => up[s] = <<>>
  /\ cl[s] = "hello" => want[s] = "Hello" /\ Only(up[s], UpKinds, "Hello")

Exchange(s) == OnePlace(s) /\ Wanted(s) /\ Honest(s) /\ Early(s)

Orderly(s) ==
  /\ Live(s) => Exchange(s)
  /\ ~cliOpen[s] /\ ~Done(s) => respCh[s] = <<>>
  /\ InCall(s) \/ cl[s] = "idle" => cliOpen[s]
ExchangeInv == \A s \in Sessions : Orderly(s)

IInv ==
  /\ Types /\ SlotInv /\ DirectoryIsServed /\ ReplyReady /\ Undialled
  /\ RebootInv /\ ExchangeInv

-----------------------------------------------------------------------------
(* Queues.                                                                 *)

\* What is added to the end of a queue.
LEMMA Appended ==
  ASSUME NEW M, NEW q \in Seq(M), NEW m \in M, NEW K, NEW kind
  PROVE  /\ Append(q, m) \in Seq(M) /\ Len(Append(q, m)) = Len(q) + 1
         /\ \A i \in 1..Len(q) : Append(q, m)[i] = q[i]
         /\ Append(q, m)[Len(q) + 1] = m
         /\ Has(Append(q, m), K) <=> Has(q, K) \/ m.kind \in K
         /\ Once(q, K) /\ (m.kind \in K => ~Has(q, K)) => Once(Append(q, m), K)
         /\ Only(q, K, kind) /\ (m.kind \in K => m.kind = kind) =>
              Only(Append(q, m), K, kind)
BY DEF Has, Once, Only

\* What is left when the head is taken.
LEMMA Taken ==
  ASSUME NEW M, NEW q \in Seq(M), q # <<>>
  PROVE  /\ Tail(q) \in Seq(M) /\ Head(q) \in M /\ Head(q) = q[1]
         /\ Len(q) \in Nat /\ 1 \in 1..Len(q) /\ Len(Tail(q)) = Len(q) - 1
         /\ \A i \in 1..Len(Tail(q)) :
              i + 1 \in 1..Len(q) /\ Tail(q)[i] = q[i + 1]
<1>1. Len(q) \in Nat /\ Len(q) > 0 /\ Len(Tail(q)) = Len(q) - 1
  OBVIOUS
<1>2. Tail(q) \in Seq(M) /\ Head(q) \in M /\ Head(q) = q[1]
  OBVIOUS
<1>3. \A i \in 1..Len(Tail(q)) : i + 1 \in 1..Len(q) /\ Tail(q)[i] = q[i + 1]
  BY <1>1
<1>4. QED
  BY <1>1, <1>2, <1>3

LEMMA TakenKeeps ==
  ASSUME NEW M, NEW q \in Seq(M), q # <<>>, NEW K, NEW kind
  PROVE  /\ Has(Tail(q), K) => Has(q, K)
         /\ Head(q).kind \in K => Has(q, K)
         /\ Once(q, K) => Once(Tail(q), K)
         /\ Once(q, K) /\ Head(q).kind \in K => ~Has(Tail(q), K)
         /\ Only(q, K, kind) => Only(Tail(q), K, kind)
         /\ Only(q, K, kind) /\ Head(q).kind \in K => Head(q).kind = kind
<1> DEFINE t == Tail(q)
<1>1. /\ t \in Seq(M) /\ Head(q) = q[1]
      /\ Len(q) \in Nat /\ 1 \in 1..Len(q) /\ Len(t) = Len(q) - 1
      /\ \A i \in 1..Len(t) : i + 1 \in 1..Len(q) /\ t[i] = q[i + 1]
  BY Taken
<1> HIDE DEF t
<1>2. Once(q, K) => Once(t, K)
  <2>1. SUFFICES ASSUME Once(q, K), NEW i \in 1..Len(t), NEW j \in 1..Len(t),
                        t[i].kind \in K, t[j].kind \in K
                 PROVE  i = j
    BY DEF Once
  <2>2. i + 1 = j + 1
    BY <1>1, <2>1 DEF Once
  <2>3. QED
    BY <1>1, <2>2
<1>3. Has(t, K) => Has(q, K)
  BY <1>1 DEF Has
<1>4. Head(q).kind \in K => Has(q, K)
  BY <1>1 DEF Has
<1>5. Once(q, K) /\ Head(q).kind \in K => ~Has(t, K)
  BY <1>1 DEF Has, Once
<1>6. Only(q, K, kind) => Only(t, K, kind)
  BY <1>1 DEF Only
<1>7. Only(q, K, kind) /\ Head(q).kind \in K => Head(q).kind = kind
  BY <1>1 DEF Only
<1>8. QED
  BY <1>2, <1>3, <1>4, <1>5, <1>6, <1>7 DEF t

LEMMA EmptyQueue ==
  ASSUME NEW K, NEW kind
  PROVE  /\ ~Has(<<>>, K) /\ Once(<<>>, K) /\ Only(<<>>, K, kind)
         /\ \A S : <<>> \in Seq(S) /\ <<>> \in Slot(S)
BY DEF Has, Once, Only, Slot

\* A channel buffered by one.
LEMMA SlotFacts ==
  ASSUME NEW S, NEW q \in Slot(S)
  PROVE  /\ q # <<>> => Head(q) \in S /\ Head(q) = q[1] /\ Tail(q) = <<>>
         /\ Len(q) <= 1 /\ \A i \in DOMAIN q : q[i] \in S
         /\ \A x \in S : <<x>> \in Slot(S)
<1>1. CASE q = <<>>
  BY <1>1 DEF Slot
<1>2. ASSUME NEW x \in S, q = <<x>>
      PROVE  /\ Head(q) = x /\ q[1] = x /\ Tail(q) = <<>>
             /\ Len(q) = 1 /\ DOMAIN q = {1}
  BY <1>2
<1>3. \A x \in S : <<x>> \in Slot(S)
  BY DEF Slot
<1>4. QED
  BY <1>1, <1>2, <1>3 DEF Slot

\* The kinds of messages, and the messages the program sends.
LEMMA MessageKinds ==
  /\ \A m \in Messages : m.kind \in RequestKinds \cup {"Audit", "Goodbye"}
  /\ \A m \in Requests : m \in Messages
                        /\ m.kind \in {"ListUsers", "Disconnect", "Reboot"}
  /\ \A k \in {"Hello", "Audit", "Goodbye"} : [kind |-> k] \in Messages
<1>1. ASSUME NEW m \in Requests
      PROVE  m.kind \in {"ListUsers", "Disconnect", "Reboot"}
  <2>1. CASE \E k \in Kinds \cap {"ListUsers", "Reboot"} : m \in [kind : {k}]
    BY <2>1
  <2>2. CASE m \in [kind : {"Disconnect"}, user : Users, id : Sessions \cup {AnyID}]
    BY <2>2
  <2>3. QED
    BY <2>1, <2>2 DEF Requests
<1>2. ASSUME NEW m \in [kind : {"Hello", "Audit", "Goodbye"}]
      PROVE  m.kind \in {"Hello", "Audit", "Goodbye"}
  OBVIOUS
<1>3. QED
  BY <1>1, <1>2 DEF Messages, RequestKinds

LEMMA AnswerKinds ==
  /\ \A m \in Answers : m.kind \in RequestKinds /\ m.ok \in BOOLEAN
  /\ \A m \in Farewells : m.kind = "Farewell" /\ m.text \in Texts
  /\ \A m \in Answers \cup Farewells :
       /\ m.kind = "Farewell" => m \in Farewells
       /\ m.kind # "Farewell" => m \in Answers
  /\ \A k \in RequestKinds, b \in BOOLEAN : [kind |-> k, ok |-> b] \in Answers
  /\ \A t \in Texts : [kind |-> "Farewell", text |-> t] \in Farewells
BY DEF Answers, Farewells, Texts, RequestKinds

-----------------------------------------------------------------------------
(* Types.                                                                  *)

LEMMA SentDown ==
  ASSUME ConnTypes, NEW s \in Sessions, NEW m \in Answers \cup Farewells,
         SendDown(s, m)
  PROVE  down' \in [Sessions -> Seq(Answers \cup Farewells)]
<1>1. Append(down[s], m) \in Seq(Answers \cup Farewells)
  BY Appended DEF ConnTypes
<1>2. QED
  BY <1>1 DEF ConnTypes, SendDown

LEMMA SentUp ==
  ASSUME ConnTypes, NEW s \in Sessions, NEW m \in Messages, SendUp(s, m)
  PROVE  up' \in [Sessions -> Seq(Messages)]
<1>1. Append(up[s], m) \in Seq(Messages)
  BY Appended DEF ConnTypes
<1>2. QED
  BY <1>1 DEF ConnTypes, SendUp

LEMMA TookUp ==
  ASSUME ConnTypes, NEW s \in Sessions, up[s] # <<>>,
         up' = [up EXCEPT ![s] = Tail(@)]
  PROVE  up' \in [Sessions -> Seq(Messages)] /\ Head(up[s]) \in Messages
<1>1. Tail(up[s]) \in Seq(Messages) /\ Head(up[s]) \in Messages
  BY Taken DEF ConnTypes
<1>2. QED
  BY <1>1 DEF ConnTypes

LEMMA ClosedServerEnd ==
  ASSUME ConnTypes, NEW S, CloseServerEnd(S)
  PROVE  /\ up' \in [Sessions -> Seq(Messages)]
         /\ srvOpen' \in [Sessions -> BOOLEAN]
         /\ \A s \in Sessions : up'[s] \in {<<>>, up[s]}
         /\ \A s \in Sessions \ S : up'[s] = up[s] /\ srvOpen'[s] = srvOpen[s]
<1>1. \A s \in Sessions : (IF s \in S THEN <<>> ELSE up[s]) \in Seq(Messages)
  BY EmptyQueue DEF ConnTypes
<1>2. QED
  BY <1>1 DEF ConnTypes, CloseServerEnd

LEMMA AnswerReady ==
  ASSUME ServerTypes, NEW s \in Sessions, NEW kind \in {"Disconnect", "Reboot"},
         NEW ok \in BOOLEAN, NEW sent \in {"loop", "broadcast"},
         NEW failed \in {"loop", "leave"},
         Answering(s, kind, ok, sent, failed)
  PROVE  reply' \in [Sessions -> Slot(Replies)]
<1> DEFINE r == [kind |-> kind, ok |-> ok, sent |-> sent, failed |-> failed]
<1>1. r \in Replies
  BY DEF Replies
<1>2. <<r>> \in Slot(Replies)
  BY <1>1 DEF Slot
<1>3. QED
  BY <1>2 DEF ServerTypes, Answering

LEMMA Pushed ==
  ASSUME DirectoryTypes, NEW S, NEW t \in Texts, Push(S, t)
  PROVE  DirectoryTypes'
<1>1. <<t>> \in Slot(Texts)
  BY DEF Slot
<1>2. QED
  BY <1>1 DEF DirectoryTypes, Push

LEMMA LoadedTypes ==
  ASSUME StateTypes, NEW r \in Rebooters, Load(r), disk' = disk
  PROVE  StateTypes'
BY DEF StateTypes, Load, OnDisk

LEMMA ReplacedTypes ==
  ASSUME StateTypes, NEW r \in Rebooters, Replace(r), disk' = disk
  PROVE  StateTypes'
<1>1. Loading \subseteq Rebooters
  BY DEF Loading, Rebooters
<1>2. 0 \in 0..MaxWrites /\ loaded[r] \in 0..MaxWrites
  BY DaemonAssumption DEF StateTypes
<1>3. QED
  BY <1>1, <1>2 DEF StateTypes, Replace

LEMMA ServeTypes ==
  ASSUME Types, ReplyReady, NEW s \in Sessions, Serve(s), UNCHANGED <<clientVars,
         budget>>
  PROVE  Types'
<1> USE DEF Types, ServerTypes, StateTypes, DirectoryTypes, ClientTypes,
            ServeFrame, Goto, connVars, directoryVars, clientVars
<1>1. CASE Hello(s)
  <2>1. up' \in [Sessions -> Seq(Messages)]
    BY <1>1, TookUp DEF Hello
  <2>2. QED
    BY <1>1, <2>1 DEF Hello, Register, Slot, Places, ConnTypes
<1>2. CASE NoHello(s)
  BY <1>2 DEF NoHello, Register, Slot, Places, ConnTypes
<1>3. CASE Greet(s)
  <2>1. down' \in [Sessions -> Seq(Answers \cup Farewells)]
    BY <1>3, SentDown, AnswerKinds DEF Greet, RequestKinds
  <2>2. QED
    BY <1>3, <2>1 DEF Greet, AfterFailedGreeting, Register, Slot, Places, ConnTypes
<1>4. CASE ReceiveFails(s)
  BY <1>4 DEF ReceiveFails, Register, Slot, Places, ConnTypes
<1>5. CASE Goodbye(s)
  <2>1. up' \in [Sessions -> Seq(Messages)]
    BY <1>5, TookUp DEF Goodbye, Takes
  <2>2. QED
    BY <1>5, <2>1 DEF Goodbye, Takes, Register, Slot, Places, ConnTypes
<1>6. CASE AuditEvent(s)
  <2>1. up' \in [Sessions -> Seq(Messages)]
    BY <1>6, TookUp DEF AuditEvent, Takes
  <2>2. QED
    BY <1>6, <2>1 DEF AuditEvent, Takes, NoAnswer, Register, Slot, Places, ConnTypes
<1>7. CASE ListUsers(s)
  <2>1. up' \in [Sessions -> Seq(Messages)]
    BY <1>7, TookUp DEF ListUsers, Takes
  <2>2. down' \in [Sessions -> Seq(Answers \cup Farewells)]
    BY <1>7, SentDown, AnswerKinds DEF ListUsers, RequestKinds
  <2>3. QED
    BY <1>7, <2>1, <2>2 DEF ListUsers, Takes, Register, Slot, Places, ConnTypes
<1>8. CASE RebootRequest(s)
  <2>1. up' \in [Sessions -> Seq(Messages)]
    BY <1>8, TookUp DEF RebootRequest, Takes
  <2>2. s \in Rebooters /\ disk' = disk
    BY <1>8 DEF RebootRequest, Rebooters
  <2>3. StateTypes'
    BY <1>8, <2>2, LoadedTypes DEF RebootRequest
  <2>4. reply' \in [Sessions -> Slot(Replies)]
    BY <1>8, AnswerReady DEF RebootRequest
  <2>5. ServerTypes'
    <3>1. srv' = [srv EXCEPT ![s] = "replace"] \/ srv' = [srv EXCEPT ![s] = "reply"]
      BY <1>8 DEF RebootRequest
    <3>2. srv' \in [Sessions -> Places]
      BY <3>1 DEF Places
    <3>3. UNCHANGED <<ceiling, listening, text, sig, watcher, granted>>
      BY <1>8 DEF RebootRequest
    <3>4. QED
      BY <2>4, <3>2, <3>3
  <2>6. ConnTypes'
    BY <1>8, <2>1, SMTT(30) DEF RebootRequest, ConnTypes
  <2>7. QED
    BY <1>8, <2>3, <2>5, <2>6, SMTT(30) DEF RebootRequest
<1>9. CASE ReplaceState(s)
  <2>1. s \in Rebooters /\ disk' = disk
    BY <1>9 DEF ReplaceState, Rebooters
  <2>2. StateTypes'
    BY <1>9, <2>1, ReplacedTypes DEF ReplaceState
  <2>3. reply' \in [Sessions -> Slot(Replies)]
    BY <1>9, AnswerReady DEF ReplaceState
  <2>4. QED
    BY <1>9, <2>2, <2>3 DEF ReplaceState, Places, ConnTypes
<1>10. CASE RebootBroadcast(s)
  <2>1. DirectoryTypes'
    BY <1>10, Pushed DEF RebootBroadcast, BroadcastFarewell, Texts
  <2>2. QED
    BY <1>10, <2>1 DEF RebootBroadcast, Places, ConnTypes
<1>11. CASE DeferredUnregister(s)
  BY <1>11 DEF DeferredUnregister, Unregister, Register, Slot, Places, ConnTypes
<1>12. CASE DeferredClose(s)
  <2>1. up' \in [Sessions -> Seq(Messages)] /\ srvOpen' \in [Sessions -> BOOLEAN]
    BY <1>12, ClosedServerEnd DEF DeferredClose
  <2>2. QED
    BY <1>12, <2>1 DEF DeferredClose, Register, Slot, Places, ConnTypes
<1>13. CASE DisconnectUser(s)
  <2> DEFINE m == Head(up[s])
  <2>1. up' \in [Sessions -> Seq(Messages)]
    BY <1>13, TookUp DEF DisconnectUser, Takes
  <2>2. DirectoryTypes'
    BY <1>13, Pushed DEF DisconnectUser, Farewell, Texts
  <2>3. Resolves(m.user, m.id) \in BOOLEAN
    BY DEF Resolves
  <2>4. reply' \in [Sessions -> Slot(Replies)]
    BY <1>13, <2>3, AnswerReady DEF DisconnectUser
  <2>5. QED
    BY <1>13, <2>1, <2>2, <2>4 DEF DisconnectUser, Places, ConnTypes
<1>14. CASE SendReply(s)
  <2> DEFINE r == Head(reply[s])
  <2>1. r \in Replies
    BY <1>14, SlotFacts DEF SendReply, ReplyReady
  <2>2. [kind |-> r.kind, ok |-> r.ok] \in Answers
    BY <2>1 DEF Replies, Answers
  <2>3. down' \in [Sessions -> Seq(Answers \cup Farewells)]
    BY <1>14, <2>2, SentDown DEF SendReply
  <2>4. r.sent \in Places /\ r.failed \in Places
    BY <2>1 DEF Replies, Places
  <2>5. QED
    BY <1>14, <2>3, <2>4 DEF SendReply, Slot, ConnTypes
<1>15. ASSUME NEW kind \in {"Disconnect", "Reboot"}, Refuse(s, kind) PROVE Types'
  <2>1. up' \in [Sessions -> Seq(Messages)]
    BY <1>15, TookUp DEF Refuse, Takes
  <2>2. down' \in [Sessions -> Seq(Answers \cup Farewells)]
    BY <1>15, SentDown, AnswerKinds DEF Refuse, RequestKinds
  <2>3. QED
    BY <1>15, <2>1, <2>2 DEF Refuse, Takes, Places, ConnTypes
<1>16. QED
  BY <1>1, <1>2, <1>3, <1>4, <1>5, <1>6, <1>7, <1>8, <1>9, <1>10, <1>11, <1>12, <1>13,
     <1>14, <1>15 DEF Serve

LEMMA AcceptTypes ==
  ASSUME Types, NEW s \in Sessions, AcceptLoop(s), UNCHANGED <<clientVars, budget>>
  PROVE  Types'
<1> USE DEF Types, ServerTypes, StateTypes, DirectoryTypes, ClientTypes, ConnTypes,
            Goto, acceptVars, stateVars, connVars, directoryVars, clientVars, Places
<1>1. CASE Accept(s)
  BY <1>1 DEF Accept
<1>2. CASE HandshakeDone(s) /\ HasSlot
  BY <1>2 DEF HandshakeDone
<1>3. CASE (HandshakeDone(s) /\ ~HasSlot) \/ HandshakeFails(s)
  <2>1. up' \in [Sessions -> Seq(Messages)] /\ srvOpen' \in [Sessions -> BOOLEAN]
    BY <1>3, ClosedServerEnd DEF HandshakeDone, HandshakeFails
  <2>2. CASE HandshakeDone(s) /\ ~HasSlot
    BY <2>1, <2>2 DEF HandshakeDone
  <2>3. CASE HandshakeFails(s)
    BY <2>1, <2>3 DEF HandshakeFails
  <2>4. QED
    BY <1>3, <2>2, <2>3
<1>4. QED
  BY <1>1, <1>2, <1>3 DEF AcceptLoop

LEMMA WatchTypes ==
  ASSUME Types, NEW s \in Sessions, Watch(s), UNCHANGED <<clientVars, budget>>
  PROVE  Types'
<1> USE DEF Types, ServerTypes, StateTypes, DirectoryTypes, ClientTypes, ConnTypes,
            WatchFrame, acceptVars, stateVars, clientVars
<1>1. CASE WatcherTakes(s)
  <2>1. Head(farewell[s]) \in Texts
    BY <1>1, SlotFacts DEF WatcherTakes
  <2>2. QED
    BY <1>1, <2>1 DEF WatcherTakes, Slot
<1>2. CASE WatcherDone(s)
  BY <1>2 DEF WatcherDone
<1>3. CASE WatcherSends(s)
  <2>1. down' \in [Sessions -> Seq(Answers \cup Farewells)]
    BY <1>3, SentDown, AnswerKinds DEF WatcherSends
  <2>2. QED
    BY <1>3, <2>1 DEF WatcherSends, Texts
<1>4. CASE WatcherCloses(s)
  <2>1. up' \in [Sessions -> Seq(Messages)] /\ srvOpen' \in [Sessions -> BOOLEAN]
    BY <1>4, ClosedServerEnd DEF WatcherCloses
  <2>2. QED
    BY <1>4, <2>1 DEF WatcherCloses
<1>5. QED
  BY <1>1, <1>2, <1>3, <1>4 DEF Watch

LEMMA SignalTypes ==
  ASSUME Types, UNCHANGED clientVars, budget' \in 0..MaxEvents,
         SighupReload \/ ShutdownBroadcast \/ SignalStep
  PROVE  Types'
<1> USE DEF Types, ServerTypes, ClientTypes, ConnTypes, SigFrame,
            acceptVars, stateVars, directoryVars, clientVars
<1>1. Sighup \in Rebooters
  BY DEF Rebooters
<1>2. CASE SighupReload
  <2>1. StateTypes'
    BY <1>1, <1>2, LoadedTypes DEF SighupReload
  <2>2. QED
    BY <1>2, <2>1 DEF SighupReload, DirectoryTypes
<1>3. CASE SighupReplace
  <2>1. StateTypes'
    BY <1>1, <1>3, ReplacedTypes DEF SighupReplace
  <2>2. QED
    BY <1>3, <2>1 DEF SighupReplace, DirectoryTypes
<1>4. CASE SighupBroadcast \/ ShutdownBroadcast
  <2>1. DirectoryTypes'
    BY <1>4, Pushed DEF SighupBroadcast, ShutdownBroadcast, BroadcastFarewell, Texts
  <2>2. CASE SighupBroadcast
    BY <2>1, <2>2 DEF SighupBroadcast, StateTypes
  <2>3. CASE ShutdownBroadcast
    BY <2>1, <2>3 DEF ShutdownBroadcast, StateTypes
  <2>4. QED
    BY <1>4, <2>2, <2>3
<1>5. CASE ShutdownClose
  <2>1. up' \in [Sessions -> Seq(Messages)] /\ srvOpen' \in [Sessions -> BOOLEAN]
    BY <1>5, ClosedServerEnd DEF ShutdownClose
  <2>2. QED
    BY <1>5, <2>1 DEF ShutdownClose, Places, DirectoryTypes, StateTypes
<1>6. CASE ProcessExit
  <2>1. up' \in [Sessions -> Seq(Messages)] /\ srvOpen' \in [Sessions -> BOOLEAN]
    BY <1>6, ClosedServerEnd DEF ProcessExit
  <2>2. QED
    BY <1>6, <2>1 DEF ProcessExit, Places, DirectoryTypes, StateTypes
<1>7. QED
  BY <1>2, <1>3, <1>4, <1>5, <1>6 DEF SignalStep

LEMMA FailTypes ==
  ASSUME ClientTypes, NEW s \in Sessions,
         NEW t \in {"lost", "disconnected", "rebooting"}, Fail(s, t)
  PROVE  told' \in [Sessions -> {"none", "lost", "disconnected", "rebooting"}]
BY DEF ClientTypes, Fail

LEMMA ClosedClientEnd ==
  ASSUME ConnTypes, NEW s \in Sessions, CloseClientEnd(s)
  PROVE  /\ down' \in [Sessions -> Seq(Answers \cup Farewells)]
         /\ cliOpen' \in [Sessions -> BOOLEAN]
BY EmptyQueue DEF ConnTypes, CloseClientEnd

LEMMA BeginTypes ==
  ASSUME Types, NEW s \in Sessions, NEW m \in Messages, m.kind \in RequestKinds,
         NEW place \in {"hello", "call"}, NEW failed \in {"over", "idle"},
         BeginCall(s, m, place, failed)
  PROVE  /\ ConnTypes'
         /\ (/\ budget' \in 0..MaxEvents
             /\ reader' \in [Sessions -> {"off", "receive", "returned"}])
              => ClientTypes'
<1> USE DEF Types, BeginCall
<1>1. up' \in [Sessions -> Seq(Messages)]
  BY SentUp
<1>2. /\ down' \in [Sessions -> Seq(Answers \cup Farewells)]
      /\ cliOpen' \in [Sessions -> BOOLEAN]
  BY ClosedClientEnd DEF ConnTypes
<1>3. told' \in [Sessions -> {"none", "lost", "disconnected", "rebooting"}]
  BY FailTypes DEF ClientTypes
<1>4. /\ cl' \in [Sessions ->
                {"off", "dial", "hello", "call", "idle", "over", "dead"}]
      /\ want' \in [Sessions -> RequestKinds \cup {"none"}]
      /\ result' \in [Sessions -> {"none", "ok", "error"}]
  BY DEF ClientTypes
<1>5. UNCHANGED <<respCh, srvOpen>>
  OBVIOUS
<1> HIDE DEF BeginCall
<1>6. QED
  BY <1>1, <1>2, <1>3, <1>4, <1>5 DEF ConnTypes, ClientTypes

LEMMA ClientTypesKept ==
  ASSUME Types, NEW s \in Sessions,
         \/ SendHello(s) \/ CallAnswered(s) \/ CallEnded(s) \/ Read(s) \/ ReadFails(s)
         \/ SendAudit(s) \/ CloseClient(s) \/ Crash(s)
         \/ \E m \in Requests : StartCall(s, m),
         budget' \in 0..MaxEvents
  PROVE  ConnTypes' /\ ClientTypes'
<1> USE DEF Types, ReadReturns
<1>1. CASE SendHello(s)
  <2>1. [kind |-> "Hello"] \in Messages /\ "Hello" \in RequestKinds
    BY MessageKinds DEF RequestKinds
  <2>2. QED
    BY <1>1, <2>1, BeginTypes DEF SendHello, ClientTypes
<1>2. ASSUME NEW m \in Requests, StartCall(s, m) PROVE ConnTypes' /\ ClientTypes'
  <2>1. m \in Messages /\ m.kind \in RequestKinds
    BY MessageKinds DEF RequestKinds
  <2>2. QED
    BY <1>2, <2>1, BeginTypes DEF StartCall, ClientTypes
<1>3. CASE CallAnswered(s) \/ CallEnded(s)
  <2>1. /\ down' \in [Sessions -> Seq(Answers \cup Farewells)]
        /\ cliOpen' \in [Sessions -> BOOLEAN]
    BY <1>3, ClosedClientEnd DEF CallAnswered, CallEnded, ConnTypes
  <2>2. respCh' \in [Sessions -> Slot(Answers)]
    BY <1>3, SlotFacts DEF CallAnswered, CallEnded, ClientTypes, Slot
  <2>3. AnswerOf(Head(respCh[s]), want[s]) \in {"ok", "error"}
    BY DEF AnswerOf
  <2>4. /\ result' \in [Sessions -> {"none", "ok", "error"}]
        /\ cl' \in [Sessions ->
                  {"off", "dial", "hello", "call", "idle", "over", "dead"}]
    BY <1>3, <2>3 DEF CallAnswered, CallEnded, ClientTypes
  <2>5. UNCHANGED <<want, reader, told, up, srvOpen>>
    BY <1>3 DEF CallAnswered, CallEnded
  <2>6. QED
    BY <2>1, <2>2, <2>4, <2>5 DEF ConnTypes, ClientTypes
<1>4. CASE Read(s)
  <2>1. /\ Tail(down[s]) \in Seq(Answers \cup Farewells)
        /\ Head(down[s]) \in Answers \cup Farewells
    BY <1>4, Taken DEF Read, ConnTypes
  <2>2. down' \in [Sessions -> Seq(Answers \cup Farewells)]
    BY <1>4, <2>1 DEF Read, ConnTypes
  <2>3. Head(down[s]).kind = "Farewell" =>
          FarewellText(Head(down[s])) \in {"lost", "disconnected", "rebooting"}
    BY <2>1, AnswerKinds DEF FarewellText, Texts
  <2>4. told' \in [Sessions -> {"none", "lost", "disconnected", "rebooting"}]
    BY <1>4, <2>3, FailTypes DEF Read, ClientTypes
  <2>5. Head(down[s]).kind # "Farewell" => <<Head(down[s])>> \in Slot(Answers)
    BY <2>1, AnswerKinds DEF Slot
  <2>6. respCh' \in [Sessions -> Slot(Answers)]
    BY <1>4, <2>5 DEF Read, ClientTypes
  <2>7. QED
    BY <1>4, <2>2, <2>4, <2>6 DEF Read, ConnTypes, ClientTypes
<1>5. CASE ReadFails(s)
  BY <1>5, FailTypes DEF ReadFails, ConnTypes, ClientTypes, connVars
<1>6. CASE SendAudit(s)
  <2>1. up' \in [Sessions -> Seq(Messages)]
    BY <1>6, SentUp, MessageKinds DEF SendAudit
  <2>2. told' \in [Sessions -> {"none", "lost", "disconnected", "rebooting"}]
    BY <1>6, FailTypes DEF SendAudit, ClientTypes
  <2>3. QED
    BY <1>6, <2>1, <2>2 DEF SendAudit, ConnTypes, ClientTypes
<1>7. CASE CloseClient(s)
  <2>1. up' \in [Sessions -> Seq(Messages)]
    BY <1>7, SentUp, MessageKinds DEF CloseClient, ConnTypes
  <2>2. told' \in [Sessions -> {"none", "lost", "disconnected", "rebooting"}]
    BY <1>7, FailTypes DEF CloseClient, ClientTypes
  <2>3. QED
    BY <1>7, <2>1, <2>2, ClosedClientEnd DEF CloseClient, ConnTypes, ClientTypes
<1>8. CASE Crash(s)
  <2>1. /\ down' \in [Sessions -> Seq(Answers \cup Farewells)]
        /\ cliOpen' \in [Sessions -> BOOLEAN]
    BY <1>8, ClosedClientEnd DEF Crash
  <2>2. QED
    BY <1>8, <2>1 DEF Crash, ConnTypes, ClientTypes, Slot
<1>9. QED
  BY <1>1, <1>2, <1>3, <1>4, <1>5, <1>6, <1>7, <1>8

-----------------------------------------------------------------------------
(* Steps of the clients leave the daemon alone.                            *)

ClientStep(s) ==
  \/ Log(s)
  \/ /\ ClientReturns(s) \/ ClientReads(s)
     /\ UNCHANGED <<serverVars, directoryVars, budget>>
  \/ /\ Spend
     /\ CloseClient(s) \/ Crash(s)
     /\ UNCHANGED <<serverVars, directoryVars>>

ServerStep(s) ==
  (Serve(s) \/ Watch(s) \/ AcceptLoop(s)) /\ UNCHANGED <<clientVars, budget>>

ProcessStep ==
  \/ Spend /\ (SighupReload \/ ShutdownBroadcast) /\ UNCHANGED clientVars
  \/ SignalStep /\ UNCHANGED <<clientVars, budget>>

LEMMA Steps ==
  Next <=> \/ \E s \in Sessions :
                Dial(s) \/ Request(s) \/ ClientStep(s) \/ ServerStep(s)
           \/ WriteDisk \/ ProcessStep
BY Zenon DEF Next, ClientStep, ServerStep, ProcessStep

LEMMA ClientsKeep ==
  ASSUME NEW s \in Sessions, ClientStep(s)
  PROVE  UNCHANGED <<serverVars, directoryVars>>
BY Zenon DEF ClientStep, Log

LEMMA SpendTypes == ASSUME Types, Spend PROVE budget' \in 0..MaxEvents
BY DaemonAssumption DEF Types, ClientTypes, Spend

LEMMA NextTypes == ASSUME Types, ReplyReady, [Next]_vars PROVE Types'
<1> USE DEF Types
<1>1. ASSUME NEW s \in Sessions, Dial(s) PROVE Types'
  BY <1>1 DEF Dial, Goto, ConnTypes, DirectoryTypes, ServerTypes, StateTypes,
     ClientTypes, Places, acceptVars, stateVars, connVars, directoryVars
<1>2. ASSUME NEW s \in Sessions, Request(s) PROVE Types'
  <2>1. ConnTypes' /\ ClientTypes'
    BY <1>2, SpendTypes, ClientTypesKept DEF Request
  <2>2. QED
    BY <1>2, <2>1 DEF Request, DirectoryTypes, ServerTypes, StateTypes, acceptVars,
       stateVars, directoryVars
<1>3. ASSUME NEW s \in Sessions, ClientStep(s) PROVE Types'
  <2>1. DirectoryTypes' /\ ServerTypes' /\ StateTypes'
    BY <1>3, ClientsKeep DEF DirectoryTypes, ServerTypes, StateTypes, serverVars,
       directoryVars, acceptVars, stateVars
  <2>2. budget' \in 0..MaxEvents
    BY <1>3, SpendTypes DEF ClientStep, Log, ClientTypes
  <2>3. CASE DialFails(s)
    BY <2>1, <2>2, <2>3, ClosedClientEnd DEF DialFails, ConnTypes, ClientTypes
  <2>4. CASE ~DialFails(s)
    <3>1. \/ SendHello(s) \/ CallAnswered(s) \/ CallEnded(s) \/ Read(s) \/ ReadFails(s)
          \/ SendAudit(s) \/ CloseClient(s) \/ Crash(s)
      BY <1>3, <2>4 DEF ClientStep, Log, ClientReturns, ClientReads, Greeted
    <3>2. QED
      BY <2>1, <2>2, <3>1, ClientTypesKept
  <2>5. QED
    BY <2>3, <2>4
<1>4. ASSUME NEW s \in Sessions, ServerStep(s) PROVE Types'
  BY <1>4, ServeTypes, WatchTypes, AcceptTypes DEF ServerStep
<1>5. CASE WriteDisk
  <2>1. disk' \in 0..MaxWrites
    BY <1>5, DaemonAssumption DEF WriteDisk, StateTypes
  <2>2. QED
    BY <1>5, <2>1 DEF WriteDisk, ConnTypes, DirectoryTypes, ServerTypes, StateTypes,
       ClientTypes, acceptVars, connVars, directoryVars, clientVars
<1>6. CASE ProcessStep
  <2>1. budget' \in 0..MaxEvents
    BY <1>6, SpendTypes DEF ProcessStep, ClientTypes
  <2>2. QED
    BY <1>6, <2>1, SignalTypes DEF ProcessStep, clientVars
<1>7. CASE UNCHANGED vars
  BY <1>7 DEF vars, ConnTypes, DirectoryTypes, ServerTypes, StateTypes, ClientTypes,
     serverVars, acceptVars, stateVars, connVars, directoryVars, clientVars
<1>8. QED
  BY <1>1, <1>2, <1>3, <1>4, <1>5, <1>6, <1>7, Steps

-----------------------------------------------------------------------------
(* Slots and directory.                                                    *)

\* What serveConnection does to where it is, and to the directory.
LEMMA ServeMoves ==
  ASSUME Types, ReplyReady, DirectoryIsServed, NEW s \in Sessions,
         Serve(s), ~DeferredClose(s)
  PROVE  /\ Served(s) /\ UNCHANGED <<slots, ceiling>>
         /\ srv' = [srv EXCEPT ![s] = srv'[s]]
         /\ \/ srv'[s] = "close" /\ registered' = registered \ {s}
            \/ srv'[s] \in Attending /\ registered' \subseteq registered \cup {s}
<1> USE DEF Types, ServerTypes, ServeFrame, Goto, Served, Attending, directoryVars
<1>1. CASE Hello(s)
  BY <1>1 DEF Hello, Register
<1>2. CASE NoHello(s)
  BY <1>2 DEF NoHello, DirectoryIsServed
<1>3. CASE Greet(s) \/ ReceiveFails(s) \/ Goodbye(s) \/ AuditEvent(s) \/ ListUsers(s)
  BY <1>3 DEF Greet, AfterFailedGreeting, ReceiveFails, Goodbye, AuditEvent,
     ListUsers, Takes
<1>4. ASSUME NEW kind, Refuse(s, kind)
      PROVE  /\ srv[s] = "loop" /\ srv' = [srv EXCEPT ![s] = srv'[s]]
             /\ srv'[s] \in {"loop", "leave"} /\ UNCHANGED <<slots, ceiling, registered>>
  BY <1>4 DEF Refuse, Takes
<1>5. CASE DisconnectUser(s)
  BY <1>5 DEF DisconnectUser, Takes, Farewell, Push
<1>6. CASE RebootRequest(s) \/ ReplaceState(s)
  BY <1>6 DEF RebootRequest, ReplaceState, Takes
<1>7. CASE SendReply(s)
  <2>1. Head(reply[s]) \in Replies
    BY <1>7, SlotFacts DEF SendReply, ReplyReady
  <2>2. Head(reply[s]).sent \in {"loop", "broadcast"}
        /\ Head(reply[s]).failed \in {"loop", "leave"}
    BY <2>1 DEF Replies
  <2>3. QED
    BY <1>7, <2>2 DEF SendReply
<1>8. CASE RebootBroadcast(s)
  BY <1>8 DEF RebootBroadcast, BroadcastFarewell, Push
<1>9. CASE DeferredUnregister(s)
  BY <1>9 DEF DeferredUnregister, Unregister
<1>10. QED
  BY <1>1, <1>2, <1>3, <1>4, <1>5, <1>6, <1>7, <1>8, <1>9 DEF Serve

LEMMA SameService ==
  ASSUME SlotInv, \A s \in Sessions : Served(s)' <=> Served(s),
         UNCHANGED <<slots, ceiling>>
  PROVE  SlotInv'
<1>1. InService' = InService
  BY DEF InService
<1>2. QED
  BY <1>1 DEF SlotInv

LEMMA CeilingIsPositive == ASSUME Types PROVE ceiling \in Nat /\ ceiling > 0
BY ServerAssumption DEF Types, ServerTypes

LEMMA SlotTaken ==
  ASSUME Types, SlotInv, NEW s \in Sessions, ~Served(s), Served(s)',
         \A t \in Sessions \ {s} : Served(t)' <=> Served(t),
         HasSlot, slots' = slots + 1, ceiling' = ceiling
  PROVE  SlotInv'
<1>1. InService' = InService \cup {s} /\ s \notin InService
  BY DEF InService
<1>2. IsFiniteSet(InService') /\ Cardinality(InService') = Cardinality(InService) + 1
  BY <1>1, FS_AddElement DEF SlotInv
<1>3. Cardinality(InService) \in Nat
  BY FS_CardinalityType DEF SlotInv
<1>4. QED
  BY <1>2, <1>3, CeilingIsPositive DEF SlotInv, HasSlot

LEMMA SlotReleased ==
  ASSUME Types, SlotInv, NEW s \in Sessions, Served(s), ~Served(s)',
         \A t \in Sessions \ {s} : Served(t)' <=> Served(t),
         slots' = slots - 1, ceiling' = ceiling
  PROVE  SlotInv'
<1>1. InService' = InService \ {s} /\ s \in InService
  BY DEF InService
<1>2. IsFiniteSet(InService') /\ Cardinality(InService') = Cardinality(InService) - 1
  BY <1>1, FS_RemoveElement DEF SlotInv
<1>3. Cardinality(InService) \in Nat
  BY FS_CardinalityType DEF SlotInv
<1>4. QED
  BY <1>2, <1>3, CeilingIsPositive DEF SlotInv

LEMMA NextSlots ==
  ASSUME Types, ReplyReady, Undialled, DirectoryIsServed, SlotInv, [Next]_vars
  PROVE  SlotInv'
<1> USE DEF Types, ServerTypes
<1>1. ASSUME NEW s \in Sessions, Serve(s) PROVE SlotInv'
  <2>1. CASE DeferredClose(s)
    <3>1. /\ Served(s) /\ ~Served(s)'
          /\ \A t \in Sessions \ {s} : Served(t)' <=> Served(t)
          /\ slots' = slots - 1 /\ ceiling' = ceiling
      BY <2>1 DEF DeferredClose, ServeFrame, Goto, Served, Released
    <3>2. QED
      BY <3>1, SlotReleased
  <2>2. CASE ~DeferredClose(s)
    <3>1. /\ \A t \in Sessions : Served(t)' <=> Served(t)
          /\ UNCHANGED <<slots, ceiling>>
      BY <1>1, <2>2, ServeMoves DEF Served, Attending
    <3>2. QED
      BY <3>1, SameService
  <2>3. QED
    BY <2>1, <2>2
<1>2. ASSUME NEW s \in Sessions, HandshakeDone(s), HasSlot PROVE SlotInv'
  <2>1. /\ ~Served(s) /\ Served(s)'
        /\ \A t \in Sessions \ {s} : Served(t)' <=> Served(t)
        /\ slots' = slots + 1 /\ ceiling' = ceiling
    BY <1>2 DEF HandshakeDone, Goto, Served
  <2>2. QED
    BY <1>2, <2>1, SlotTaken
<1>3. ASSUME NEW s \in Sessions,
             \/ Dial(s) \/ Accept(s) \/ HandshakeFails(s)
             \/ HandshakeDone(s) /\ ~HasSlot
      PROVE  SlotInv'
  <2>1. /\ \A t \in Sessions : Served(t)' <=> Served(t)
        /\ UNCHANGED <<slots, ceiling>>
    BY <1>3 DEF Dial, Undialled, Accept, HandshakeFails, HandshakeDone, Goto, Served,
       acceptVars
  <2>2. QED
    BY <2>1, SameService
<1>4. CASE ShutdownClose
  <2>1. /\ \A t \in Sessions : Served(t)' <=> Served(t)
        /\ UNCHANGED <<slots, ceiling>>
    BY <1>4 DEF ShutdownClose, SigFrame, Served
  <2>2. QED
    BY <2>1, SameService
<1>5. CASE ProcessExit
  <2>1. InService' = {} /\ slots' = 0 /\ ceiling' = ceiling
    BY <1>5 DEF ProcessExit, InService, Served
  <2>2. QED
    BY <2>1, FS_EmptySet, CeilingIsPositive DEF SlotInv
<1>6. CASE UNCHANGED <<srv, slots, ceiling>>
  BY <1>6, SameService DEF Served
<1>7. ASSUME NEW s \in Sessions, Request(s) \/ ClientStep(s) \/ Watch(s)
      PROVE  UNCHANGED <<srv, slots, ceiling>>
  BY <1>7, ClientsKeep DEF Request, Watch, WatcherTakes, WatcherDone, WatcherSends,
     WatcherCloses, WatchFrame, serverVars, acceptVars
<1>8. WriteDisk \/ UNCHANGED vars => UNCHANGED <<srv, slots, ceiling>>
  BY DEF WriteDisk, vars, serverVars, acceptVars
<1>9. SighupReload \/ ShutdownBroadcast \/ SighupReplace \/ SighupBroadcast
        => UNCHANGED <<srv, slots, ceiling>>
  BY DEF SighupReload, ShutdownBroadcast, SighupReplace, SighupBroadcast, SigFrame
<1>10. QED
  BY <1>1, <1>2, <1>3, <1>4, <1>5, <1>6, <1>7, <1>8, <1>9, Steps DEF ServerStep,
     AcceptLoop, ProcessStep, SignalStep

LEMMA NextUndialled ==
  ASSUME Types, ReplyReady, Undialled, DirectoryIsServed, [Next]_vars
  PROVE  Undialled'
<1> USE DEF Types, ServerTypes, ClientTypes, Undialled
<1>1. ASSUME NEW s \in Sessions, ServerStep(s)
      PROVE  \A t \in Sessions : cl'[t] = "off" => srv'[t] \in {"none", "gone"}
  <2>1. \/ srv' = srv
        \/ /\ srv' = [srv EXCEPT ![s] = srv'[s]]
           /\ srv[s] \notin {"none", "gone"}
    <3>1. CASE DeferredClose(s)
      BY <3>1 DEF DeferredClose, ServeFrame, Goto
    <3>2. CASE Serve(s) /\ ~DeferredClose(s)
      BY <3>2, ServeMoves DEF Served
    <3>3. CASE Watch(s)
      BY <3>3 DEF Watch, WatcherTakes, WatcherDone, WatcherSends, WatcherCloses,
         WatchFrame
    <3>4. CASE AcceptLoop(s)
      BY <3>4 DEF AcceptLoop, Accept, HandshakeDone, HandshakeFails, Goto
    <3>5. QED
      BY <1>1, <3>1, <3>2, <3>3, <3>4 DEF ServerStep
  <2>2. QED
    BY <1>1, <2>1 DEF ServerStep, clientVars
<1>2. ASSUME NEW s \in Sessions, ClientStep(s) \/ Request(s) PROVE Undialled'
  <2>1. srv' = srv
    BY <1>2, ClientsKeep DEF Request, serverVars
  <2>2. \/ SendHello(s) \/ CallAnswered(s) \/ CallEnded(s) \/ DialFails(s)
        \/ Read(s) \/ ReadFails(s) \/ SendAudit(s) \/ CloseClient(s) \/ Crash(s)
        \/ \E m \in Requests : StartCall(s, m)
    BY <1>2 DEF Request, ClientStep, Log, ClientReturns, ClientReads, Greeted
  <2>3. ASSUME NEW m, NEW place \in {"hello", "call"}, NEW failed \in {"over", "idle"},
               BeginCall(s, m, place, failed)
        PROVE  \A t \in Sessions : cl'[t] = "off" => cl[t] = "off"
    BY <2>3 DEF BeginCall
  <2>4. CallAnswered(s) \/ CallEnded(s) \/ DialFails(s) \/ CloseClient(s) \/ Crash(s)
          => \E place \in {"idle", "over", "dead"} : cl' = [cl EXCEPT ![s] = place]
    BY DEF CallAnswered, CallEnded, DialFails, CloseClient, Crash
  <2>5. Read(s) \/ ReadFails(s) \/ SendAudit(s) => cl' = cl
    BY DEF Read, ReadFails, SendAudit
  <2>6. ASSUME NEW m, StartCall(s, m) PROVE Undialled'
    BY <2>1, <2>3, <2>6, "call" \in {"hello", "call"} DEF StartCall
  <2>7. CASE SendHello(s)
    BY <2>1, <2>3, <2>7 DEF SendHello
  <2>8. QED
    BY <2>1, <2>2, <2>4, <2>6, <2>7, <2>5
<1>3. ASSUME NEW s \in Sessions, Dial(s) PROVE Undialled'
  BY <1>3 DEF Dial, Goto
<1>4. CASE WriteDisk \/ UNCHANGED vars
  BY <1>4 DEF WriteDisk, vars, serverVars, clientVars
<1>5. CASE ProcessStep
  <2>1. ShutdownClose \/ ProcessExit => \A t \in Sessions : srv'[t] \in {srv[t], "gone"}
    BY DEF ShutdownClose, ProcessExit
  <2>2. ProcessStep => \/ srv' = srv \/ ShutdownClose \/ ProcessExit
    BY DEF ProcessStep, SignalStep, SighupReload, SighupReplace, SighupBroadcast,
       ShutdownBroadcast
  <2>3. cl' = cl
    BY <1>5 DEF ProcessStep, clientVars
  <2>4. QED
    BY <1>5, <2>1, <2>2, <2>3
<1>6. QED
  BY <1>1, <1>2, <1>3, <1>4, <1>5, Steps

LEMMA NextReplyReady ==
  ASSUME Types, ReplyReady, DirectoryIsServed, [Next]_vars
  PROVE  ReplyReady'
<1> USE DEF Types, ServerTypes, ReplyReady
<1>1. ASSUME NEW s \in Sessions, Serve(s) PROVE ReplyReady'
  <2>1. ASSUME NEW kind, NEW ok, NEW sent, NEW failed, Answering(s, kind, ok, sent,
               failed),
               srv' = [srv EXCEPT ![s] = "reply"]
        PROVE  ReplyReady'
    BY <2>1 DEF Answering
  <2>2. CASE DisconnectUser(s) \/ ReplaceState(s) \/ RebootRequest(s)
    BY <2>1, <2>2 DEF DisconnectUser, ReplaceState, RebootRequest, ServeFrame, Goto
  <2>3. CASE SendReply(s)
    <3>1. Head(reply[s]) \in Replies
      BY <2>3, SlotFacts DEF SendReply
    <3>2. srv' = [srv EXCEPT ![s] = srv'[s]] /\ srv'[s] # "reply"
      BY <2>3, <3>1 DEF SendReply, ServeFrame, Goto, Replies
    <3>3. QED
      BY <2>3, <3>2 DEF SendReply
  <2>4. CASE /\ UNCHANGED reply
             /\ ~ReplaceState(s) /\ ~DisconnectUser(s) /\ ~RebootRequest(s) /\ ~SendReply(s)
    <3>1. srv' = [srv EXCEPT ![s] = srv'[s]] /\ srv'[s] # "reply"
      BY <1>1, <2>4 DEF Serve, Hello, NoHello, Greet, ReceiveFails, Goodbye,
         AuditEvent, ListUsers, Refuse, RebootBroadcast, DeferredUnregister,
         DeferredClose, AfterFailedGreeting, ServeFrame, Goto
    <3>2. QED
      BY <2>4, <3>1
  <2>5. QED
    BY <1>1, <2>2, <2>4, <2>3 DEF Serve, Hello, NoHello, Greet, ReceiveFails, Goodbye,
       AuditEvent, ListUsers, Refuse, RebootBroadcast, DeferredUnregister,
       DeferredClose
<1>2. ASSUME UNCHANGED reply,
             \A s \in Sessions :
               srv'[s] \in {srv[s], "queued", "handshake", "hello", "gone"}
      PROVE  ReplyReady'
  BY <1>2
<1>3. ASSUME NEW s \in Sessions, AcceptLoop(s) \/ Dial(s) PROVE ReplyReady'
  BY <1>2, <1>3 DEF AcceptLoop, Accept, HandshakeDone, HandshakeFails, Dial, Goto
<1>4. ASSUME NEW s \in Sessions,
             Watch(s) \/ Request(s) \/ ClientStep(s) PROVE ReplyReady'
  BY <1>2, <1>4, ClientsKeep DEF Watch, WatcherTakes, WatcherDone, WatcherSends,
     WatcherCloses, WatchFrame, Request, serverVars
<1>5. WriteDisk \/ UNCHANGED vars => ReplyReady'
  BY <1>2 DEF WriteDisk, vars, serverVars
<1>6. CASE ProcessStep
  BY <1>2, <1>6 DEF ProcessStep, SignalStep, SighupReload, SighupReplace,
     SighupBroadcast, ShutdownBroadcast, ShutdownClose, ProcessExit, SigFrame
<1>7. QED
  BY <1>1, <1>3, <1>4, <1>5, <1>6, Steps DEF ServerStep

LEMMA NextDirectory ==
  ASSUME Types, ReplyReady, Undialled, DirectoryIsServed, [Next]_vars
  PROVE  DirectoryIsServed'
<1> USE DEF Types, DirectoryTypes, ServerTypes
<1>1. ASSUME NEW s \in Sessions, Serve(s) PROVE DirectoryIsServed'
  <2>1. CASE DeferredClose(s)
    BY <2>1 DEF DeferredClose, ServeFrame, Goto, DirectoryIsServed, directoryVars
  <2>2. CASE ~DeferredClose(s)
    BY <1>1, <2>2, ServeMoves DEF DirectoryIsServed, Attending
  <2>3. QED
    BY <2>1, <2>2
<1>2. ASSUME UNCHANGED registered,
             \A s \in Sessions : srv'[s] = srv[s] \/ srv[s] \notin Attending
      PROVE  DirectoryIsServed'
  BY <1>2 DEF DirectoryIsServed, Attending
<1>3. ASSUME NEW s \in Sessions, AcceptLoop(s) \/ Dial(s) PROVE DirectoryIsServed'
  BY <1>2, <1>3 DEF AcceptLoop, Accept, HandshakeDone, HandshakeFails, Dial, Goto,
     Undialled, Attending, directoryVars
<1>4. ASSUME NEW s \in Sessions, Watch(s) \/ Request(s) \/ ClientStep(s)
      PROVE  UNCHANGED <<registered, srv>>
  BY <1>4, ClientsKeep DEF Watch, WatcherTakes, WatcherDone, WatcherSends,
     WatcherCloses, WatchFrame, Request, serverVars, directoryVars
<1>5. WriteDisk \/ UNCHANGED vars => UNCHANGED <<registered, srv>>
  BY DEF WriteDisk, vars, serverVars, directoryVars
<1>6. CASE ProcessExit
  BY <1>6 DEF ProcessExit, DirectoryIsServed
<1>7. CASE ProcessStep /\ ~ProcessExit
  BY <1>2, <1>7 DEF ProcessStep, SignalStep, SighupReload, SighupReplace,
     SighupBroadcast, ShutdownBroadcast, ShutdownClose, SigFrame, BroadcastFarewell,
     Push, Attending, directoryVars
<1>8. QED
  BY <1>1, <1>2, <1>3, <1>4, <1>5, <1>6, <1>7, Steps DEF ServerStep

-----------------------------------------------------------------------------
(* Reboots.                                                                *)

Same == UNCHANGED stateVars /\ Loading' \subseteq Loading
Begun(r) == Load(r) /\ disk' = disk /\ Loading' \subseteq Loading \cup {r}
Installed(r) ==
  Replace(r) /\ disk' = disk /\ r \in Loading /\ Loading' \subseteq Loading \ {r}

LEMMA SameReboots == RebootInv /\ Same => RebootInv'
BY DEF RebootInv, Same, stateVars

LEMMA BegunReboot ==
  ASSUME Types, RebootInv, NEW r \in Rebooters, Begun(r) PROVE RebootInv'
<1>1. canonical \in Nat /\ disk \in Nat
  BY DEF Types, StateTypes
<1>2. canonical' = canonical /\ disk' = disk /\ overtaken' = overtaken
  BY DEF Begun, Load
<1>3. /\ loaded'[r] = disk
      /\ \A q \in Rebooters \ {r} : loaded'[q] = loaded[q]
  BY DEF Begun, Load, OnDisk, Types, StateTypes
<1>4. Loading \subseteq Rebooters
  BY DEF Loading, Rebooters
<1>5. QED
  BY <1>1, <1>2, <1>3, <1>4 DEF Begun, RebootInv

LEMMA DoneReboot ==
  ASSUME Types, RebootInv, NEW r \in Rebooters, Installed(r) PROVE RebootInv'
<1>1. Loading \subseteq Rebooters
  BY DEF Loading, Rebooters
<1>2. /\ canonical' = loaded[r] /\ disk' = disk
      /\ Loading' \subseteq overtaken'
      /\ \A q \in Loading' : loaded'[q] = loaded[q]
  BY <1>1 DEF Installed, Replace, Types, StateTypes
<1>3. QED
  BY <1>2 DEF Installed, RebootInv

LEMMA RebootSteps ==
  ASSUME Types, ReplyReady, Undialled, DirectoryIsServed, [Next]_vars, ~WriteDisk
  PROVE  Same \/ \E r \in Rebooters : Begun(r) \/ Installed(r)
<1> USE DEF Types, ServerTypes, stateVars
<1>1. Sighup \in Rebooters /\ Sessions \subseteq Rebooters /\ Sighup \notin Sessions
  BY ServerAssumption DEF Rebooters
<1>2. ASSUME NEW s \in Sessions, RebootRequest(s)
      PROVE  Same \/ Begun(s)
  <2>1. CASE Load(s) /\ ServeFrame(s, "replace")
    BY <1>2, <2>1 DEF Begun, Loading, ServeFrame, Goto
  <2>2. CASE ServeFrame(s, "reply") /\ UNCHANGED <<canonical, loaded, overtaken>>
    BY <1>2, <2>2 DEF Same, Loading, ServeFrame, Goto
  <2>3. QED
    BY <1>2, <2>1, <2>2 DEF RebootRequest
<1>3. ASSUME NEW s \in Sessions, ReplaceState(s) PROVE Installed(s)
  BY <1>1, <1>3 DEF ReplaceState, Installed, Loading, ServeFrame, Goto
<1>4. ASSUME NEW s \in Sessions, Serve(s), ~RebootRequest(s), ~ReplaceState(s)
      PROVE  Same
  <2>1. UNCHANGED <<canonical, loaded, overtaken, disk, sig>>
    BY <1>4 DEF Serve, Hello, NoHello, Greet, ReceiveFails, Goodbye, AuditEvent,
       ListUsers, Refuse, DisconnectUser, SendReply, RebootBroadcast,
       DeferredUnregister, DeferredClose, ServeFrame
  <2>2. CASE SendReply(s)
    <3>1. Head(reply[s]) \in Replies
      BY <2>2, SlotFacts DEF SendReply, ReplyReady
    <3>2. QED
      BY <2>1, <2>2, <3>1 DEF SendReply, ServeFrame, Goto, Replies, Same, Loading
  <2>3. CASE ~SendReply(s)
    <3>1. \E place \in {"greet", "loop", "reply", "leave", "close", "gone"} :
            srv' = [srv EXCEPT ![s] = place]
      BY <1>4, <2>3 DEF Serve, Hello, NoHello, Greet, ReceiveFails, Goodbye,
         AuditEvent, ListUsers, Refuse, DisconnectUser, RebootBroadcast,
         DeferredUnregister, DeferredClose, ServeFrame, Goto, AfterFailedGreeting
    <3>2. QED
      BY <2>1, <3>1 DEF Same, Loading
  <2>4. QED
    BY <2>2, <2>3
<1>5. ASSUME NEW s \in Sessions, AcceptLoop(s) \/ Dial(s) PROVE Same
  BY <1>5 DEF AcceptLoop, Accept, HandshakeDone, HandshakeFails, Dial, Goto, Same,
     Loading
<1>6. ASSUME NEW s \in Sessions, Watch(s) \/ Request(s) \/ ClientStep(s) PROVE Same
  <2>1. UNCHANGED <<stateVars, srv, sig>>
    BY <1>6, ClientsKeep DEF Watch, WatcherTakes, WatcherDone, WatcherSends,
       WatcherCloses, WatchFrame, Request, serverVars
  <2>2. QED
    BY <2>1 DEF Same, Loading
<1>7. CASE UNCHANGED vars
  BY <1>7 DEF vars, serverVars, Same, Loading
<1>8. ASSUME SighupReload PROVE Begun(Sighup)
  <2>1. disk' = disk /\ srv' = srv /\ sig' = "replace"
    BY <1>8 DEF SighupReload, SigFrame
  <2>2. QED
    BY <1>8, <2>1 DEF SighupReload, Begun, Loading
<1>9. ASSUME SighupReplace PROVE Installed(Sighup)
  <2>1. disk' = disk /\ srv' = srv /\ sig = "replace" /\ sig' = "broadcast"
    BY <1>9 DEF SighupReplace, SigFrame
  <2>2. QED
    BY <1>1, <1>9, <2>1 DEF SighupReplace, Installed, Loading
<1>10. CASE SighupBroadcast \/ ShutdownBroadcast
  BY <1>10 DEF SighupBroadcast, ShutdownBroadcast, SigFrame, Same, Loading
<1>11. CASE ShutdownClose \/ ProcessExit
  BY <1>11 DEF ShutdownClose, ProcessExit, SigFrame, Same, Loading
<1>12. QED
  BY <1>1, <1>2, <1>3, <1>4, <1>5, <1>6, <1>7, <1>8, <1>9, <1>10, <1>11, Steps
     DEF ServerStep, ProcessStep, SignalStep

LEMMA NextReboots ==
  ASSUME Types, ReplyReady, Undialled, DirectoryIsServed, RebootInv, [Next]_vars
  PROVE  RebootInv'
<1>1. CASE WriteDisk
  <2>1. disk' = disk + 1 /\ UNCHANGED <<canonical, loaded, overtaken, srv, sig>>
    BY <1>1 DEF WriteDisk
  <2>2. Loading' = Loading /\ Loading \subseteq Rebooters
    BY <2>1 DEF Loading, Rebooters
  <2>3. /\ disk \in Nat /\ canonical \in Nat
        /\ \A r \in Rebooters : loaded[r] \in Nat
    BY DEF Types, StateTypes
  <2>4. QED
    BY <2>1, <2>2, <2>3 DEF RebootInv
<1>2. CASE ~WriteDisk
  BY <1>2, RebootSteps, SameReboots, BegunReboot, DoneReboot
<1>3. QED
  BY <1>1, <1>2

\* What the canonical state goes back to is what an overtaken reboot read.
LEMMA NextOlder ==
  ASSUME Types, ReplyReady, Undialled, DirectoryIsServed, RebootInv, [Next]_vars,
         canonical' < canonical
  PROVE  \E r \in overtaken : canonical' = loaded[r]
<1>1. canonical \in Nat /\ \A r \in Rebooters : loaded[r] \in Nat
  BY DEF Types, StateTypes
<1>2. ~WriteDisk /\ ~Same
  BY <1>1 DEF WriteDisk, Same, stateVars
<1>3. PICK r \in Rebooters : Begun(r) \/ Installed(r)
  BY <1>2, RebootSteps
<1>4. r \in Loading /\ canonical' = loaded[r]
  BY <1>1, <1>3 DEF Begun, Load, Installed, Replace
<1>5. QED
  BY <1>1, <1>3, <1>4 DEF RebootInv

-----------------------------------------------------------------------------
(* What a client is told.                                                  *)

LEMMA FailKeeps ==
  ASSUME Types, NEW s \in Sessions, NEW t, Fail(s, t)
  PROVE  /\ \A c \in Sessions : Done(c) => told'[c] = told[c]
         /\ \A c \in Sessions \ {s} : told'[c] = told[c]
BY DEF Fail, Types, ClientTypes

LEMMA NextTold ==
  ASSUME Types, [Next]_vars
  PROVE  \A c \in Sessions : Done(c) => told'[c] = told[c]
<1>1. ASSUME NEW s \in Sessions, Request(s) \/ ClientStep(s)
      PROVE  told' = told \/ \E t : Fail(s, t)
  <2>1. ASSUME NEW m, NEW place, NEW failed, BeginCall(s, m, place, failed)
        PROVE  told' = told \/ \E t : Fail(s, t)
    BY <2>1 DEF BeginCall
  <2>2. CASE Request(s)
    BY <2>1, <2>2 DEF Request, StartCall
  <2>3. CASE Greeted(s)
    BY <2>1, <2>3 DEF Greeted, SendHello
  <2>4. CASE CallAnswered(s) \/ CallEnded(s) \/ DialFails(s) \/ Crash(s)
    BY <2>4 DEF CallAnswered, CallEnded, DialFails, Crash
  <2>5. CASE Read(s) \/ ReadFails(s) \/ SendAudit(s) \/ CloseClient(s)
    BY <2>5 DEF Read, ReadFails, SendAudit, CloseClient
  <2>6. QED
    BY <1>1, <2>2, <2>3, <2>4, <2>5 DEF ClientStep, Log, ClientReturns, ClientReads
<1>2. ASSUME NEW s \in Sessions, Dial(s) \/ ServerStep(s) PROVE told' = told
  BY <1>2 DEF Dial, ServerStep, clientVars
<1>3. WriteDisk \/ ProcessStep \/ UNCHANGED vars => told' = told
  BY DEF WriteDisk, ProcessStep, vars, clientVars
<1>4. QED
  BY <1>1, <1>2, <1>3, FailKeeps, Steps

-----------------------------------------------------------------------------
(* The exchange.                                                           *)

Shorter(r, q) == r \in {<<>>, q} \/ (q # <<>> /\ r = Tail(q))

LEMMA ShorterKeeps ==
  ASSUME NEW M, NEW q \in Seq(M), NEW r, Shorter(r, q), NEW K, NEW kind
  PROVE  /\ Has(r, K) => Has(q, K)
         /\ Once(q, K) => Once(r, K)
         /\ Only(q, K, kind) => Only(r, K, kind)
<1>1. CASE r \in {<<>>, q}
  BY <1>1, EmptyQueue
<1>2. CASE q # <<>> /\ r = Tail(q)
  BY <1>2, TakenKeeps
<1>3. QED
  BY <1>1, <1>2 DEF Shorter

\* What the client's goroutines know of c stays.
ClientSame(c) ==
  /\ cl'[c] = cl[c] /\ want'[c] = want[c] /\ result'[c] = result[c]
  /\ respCh'[c] = respCh[c] /\ told'[c] = told[c] /\ cliOpen'[c] = cliOpen[c]

\* The daemon stays where it was with c, or stops serving its request.
Passed(c) ==
  /\ ClientSame(c)
  /\ Shorter(up'[c], up[c]) /\ down'[c] = down[c]
  /\ \/ srv'[c] = srv[c] /\ reply'[c] = reply[c]
     \/ /\ srv'[c] \notin {"greet", "replace", "reply"}
        /\ srv'[c] \in Fresh => srv[c] \in Fresh
  /\ c \in granted => c \in granted'

LEMMA PassedKeeps ==
  ASSUME Types, NEW c \in Sessions, Orderly(c), Passed(c)
  PROVE  Orderly(c)'
<1> USE DEF ClientSame, Passed
<1>1. \A K, kind :
        /\ Has(up'[c], K) => Has(up[c], K)
        /\ Once(up[c], K) => Once(up'[c], K)
        /\ Only(up[c], K, kind) => Only(up'[c], K, kind)
  BY ShorterKeeps DEF Types, ConnTypes
<1>2. (Live(c)' <=> Live(c)) /\ (InCall(c)' <=> InCall(c))
  BY DEF Live, Done, InCall
<1>3. /\ Asked(c)' => Asked(c)
      /\ (Serving(c)' => Serving(c)) /\ (Answered(c)' <=> Answered(c))
      /\ (Handed(c)' <=> Handed(c))
  BY <1>1 DEF Asked, Serving, Answered, Handed
<1>4. CASE Live(c)
  <2> USE <1>4 DEF Orderly, Exchange
  <2>1. OnePlace(c)'
    BY <1>1, <1>3 DEF OnePlace
  <2>2. Wanted(c)'
    BY <1>1, <1>2, <1>3 DEF Wanted
  <2>3. Honest(c)'
    BY <1>1 DEF Honest, Vouched, Handed
  <2>4. Early(c)'
    <3>1. up[c] = <<>> => up'[c] = <<>>
      BY DEF Shorter
    <3>2. QED
      BY <1>1, <1>3, <3>1 DEF Early, Fresh
  <2>5. QED
    BY <2>1, <2>2, <2>3, <2>4 DEF Done, InCall
<1>5. QED
  BY <1>2, <1>4 DEF Orderly, Done, InCall

\* Of a client that is gone or has been told, nothing is asked any more.
LEMMA SilentKeeps ==
  ASSUME NEW c \in Sessions, Orderly(c), ClientSame(c), ~Live(c)
  PROVE  Orderly(c)'
BY DEF Orderly, ClientSame, Live, Done, InCall

\* The exchange of s is the daemon's: nothing of it is left elsewhere.
Theirs(s) == InCall(s) /\ ~Asked(s)' /\ ~Answered(s) /\ ~Handed(s)

LEMMA RequestTaken ==
  ASSUME Types, NEW s \in Sessions, Orderly(s), Live(s), up[s] # <<>>,
         up' = [up EXCEPT ![s] = Tail(@)], Head(up[s]).kind \in RequestKinds
  PROVE  Theirs(s) /\ Head(up[s]).kind = want[s] /\ Shorter(up'[s], up[s])
<1>1. up'[s] = Tail(up[s]) /\ up[s] \in Seq(Messages)
  BY DEF Types, ConnTypes
<1>2. Asked(s) /\ Once(up[s], RequestKinds) /\ Only(up[s], RequestKinds, want[s])
  BY <1>1, TakenKeeps DEF Asked, Orderly, Exchange, OnePlace, Wanted
<1>3. ~Has(Tail(up[s]), RequestKinds) /\ Head(up[s]).kind = want[s]
  BY <1>1, <1>2, TakenKeeps
<1>4. InCall(s) /\ ~Answered(s) /\ ~Handed(s)
  BY <1>2 DEF Orderly, Exchange, OnePlace, Wanted
<1>5. QED
  BY <1>1, <1>3, <1>4 DEF Theirs, Asked, Shorter

\* The daemon goes on serving the request it has.
LEMMA ServedOn ==
  ASSUME Types, NEW s \in Sessions, Orderly(s), ClientSame(s), Live(s) => Theirs(s),
         Shorter(up'[s], up[s]), down'[s] = down[s], s \in granted => s \in granted',
         Serving(s)',
         Live(s) => /\ srv'[s] = "greet" => want[s] = "Hello" /\ cl[s] = "hello"
                    /\ srv'[s] = "replace" => want[s] = "Reboot"
                    /\ srv'[s] = "reply" =>
                         reply'[s][1].kind = want[s] /\ Vouched(reply[s][1], s)'
  PROVE  Orderly(s)'
<1>1. \A K, kind :
        /\ Once(up[s], K) => Once(up'[s], K)
        /\ Only(up[s], K, kind) => Only(up'[s], K, kind)
  BY ShorterKeeps DEF Types, ConnTypes
<1>2. CASE Live(s)
  <2> USE <1>2 DEF ClientSame, Orderly, Exchange
  <2>1. ~Asked(s)' /\ ~Answered(s)' /\ ~Handed(s)' /\ InCall(s)' /\ InCall(s)
    BY DEF Theirs, Answered, Handed, InCall
  <2>2. OnePlace(s)'
    BY <1>1, <2>1 DEF OnePlace
  <2>3. Wanted(s)'
    BY <1>1, <2>1 DEF Wanted
  <2>4. Honest(s)'
    <3>1. \A i \in 1..Len(down[s]) : Vouched(down[s][i], s)
      BY DEF Honest
    <3>2. (\A i \in 1..Len(down[s]) : Vouched(down[s][i], s))'
      BY <3>1 DEF Vouched
    <3>3. ~(cl[s] = "idle")'
      BY <2>1 DEF InCall
    <3>4. (srv[s] = "reply" => Vouched(reply[s][1], s))'
      OBVIOUS
    <3>5. QED
      BY <2>1, <3>2, <3>3, <3>4 DEF Honest
  <2>5. Early(s)'
    <3>1. up[s] = <<>> => up'[s] = <<>>
      BY DEF Shorter
    <3>2. srv'[s] \notin Fresh
      BY DEF Serving, Fresh
    <3>3. QED
      BY <1>1, <3>1, <3>2 DEF Early
  <2>6. QED
    BY <2>2, <2>3, <2>4, <2>5 DEF Done, InCall
<1>3. QED
  BY <1>2, SilentKeeps

\* The daemon sends its answer.
LEMMA AnswerSent ==
  ASSUME Types, NEW s \in Sessions, Orderly(s), ClientSame(s), Live(s) => Theirs(s),
         Shorter(up'[s], up[s]), s \in granted => s \in granted',
         srv'[s] \in {"loop", "broadcast", "leave"}, NEW m \in Answers, SendDown(s, m),
         Live(s) => m.kind = want[s] /\ Vouched(m, s)
  PROVE  Orderly(s)'
<1>1. \A K, kind :
        /\ Once(up[s], K) => Once(up'[s], K)
        /\ Only(up[s], K, kind) => Only(up'[s], K, kind)
  BY ShorterKeeps DEF Types, ConnTypes
<1>2. /\ down[s] \in Seq(Answers \cup Farewells) /\ m \in Answers \cup Farewells
      /\ m.kind \in RequestKinds
  BY AnswerKinds DEF Types, ConnTypes
<1>3. /\ Has(down[s], RequestKinds) => Has(down'[s], RequestKinds)
      /\ Once(down[s], RequestKinds) /\ ~Has(down[s], RequestKinds) =>
           Once(down'[s], RequestKinds)
      /\ Only(down[s], RequestKinds, m.kind) => Only(down'[s], RequestKinds, m.kind)
      /\ (\A i \in 1..Len(down[s]) : Vouched(down[s][i], s)) /\ Vouched(m, s) =>
           \A i \in 1..Len(down'[s]) : Vouched(down'[s][i], s)
  <2>1. CASE CanSend(s)
    <3>1. down'[s] = Append(down[s], m)
      BY <2>1 DEF SendDown, Types, ConnTypes
    <3>2. Len(down[s]) \in Nat
      BY <1>2
    <3>3. \A i \in 1..Len(down'[s]) :
            down'[s][i] = m \/ (i \in 1..Len(down[s]) /\ down'[s][i] = down[s][i])
      BY <1>2, <3>1, <3>2, Appended
    <3>4. (\A i \in 1..Len(down[s]) : Vouched(down[s][i], s)) /\ Vouched(m, s) =>
           \A i \in 1..Len(down'[s]) : Vouched(down'[s][i], s)
      BY <3>3
    <3>5. /\ Has(Append(down[s], m), RequestKinds)
          /\ Once(down[s], RequestKinds) /\ ~Has(down[s], RequestKinds) =>
               Once(Append(down[s], m), RequestKinds)
          /\ Only(down[s], RequestKinds, m.kind) =>
               Only(Append(down[s], m), RequestKinds, m.kind)
      BY <1>2, Appended
    <3>6. QED
      BY <3>1, <3>4, <3>5
  <2>2. CASE ~CanSend(s)
    BY <2>2 DEF SendDown
  <2>3. QED
    BY <2>1, <2>2
<1>4. CASE Live(s)
  <2> USE <1>4 DEF ClientSame, Orderly, Exchange
  <2>1. ~Asked(s)' /\ ~Serving(s)' /\ ~Handed(s)' /\ InCall(s)' /\ InCall(s)
    BY DEF Theirs, Serving, Handed, InCall
  <2>2. OnePlace(s)'
    BY <1>1, <1>3, <2>1 DEF OnePlace, Theirs, Answered
  <2>3. Wanted(s)'
    BY <1>1, <1>3, <2>1 DEF Wanted
  <2>4. Honest(s)'
    BY <1>3, <2>1 DEF Honest, Vouched, InCall
  <2>5. Early(s)'
    <3>1. up[s] = <<>> => up'[s] = <<>>
      BY DEF Shorter
    <3>2. QED
      BY <1>1, <3>1 DEF Early, Fresh
  <2>6. QED
    BY <2>2, <2>3, <2>4, <2>5 DEF Done, InCall
<1>5. QED
  BY <1>4, SilentKeeps

LEMMA RequestHeld ==
  ASSUME NEW s \in Sessions, Orderly(s), Live(s), Serving(s), up'[s] = up[s]
  PROVE  Theirs(s)
BY DEF Orderly, Exchange, OnePlace, Wanted, Theirs, Asked

\* serveConnection touches its own connection only.
LEMMA ServeAlone ==
  ASSUME Types, NEW s \in Sessions, Serve(s), UNCHANGED clientVars
  PROVE  /\ ClientSame(s) /\ granted \subseteq granted'
         /\ \A c \in Sessions \ {s} :
              Passed(c) /\ srv'[c] = srv[c] /\ up'[c] = up[c]
<1> USE DEF Types
<1>1. \A c \in Sessions \ {s} : srv'[c] = srv[c]
  BY DEF Serve, Hello, NoHello, Greet, ReceiveFails, Goodbye, AuditEvent, ListUsers,
     Refuse, DisconnectUser, RebootRequest, ReplaceState, SendReply, RebootBroadcast,
     DeferredUnregister, DeferredClose, ServeFrame, Goto, ServerTypes
<1>2. \A c \in Sessions \ {s} : reply'[c] = reply[c]
  BY DEF Serve, Hello, NoHello, Greet, ReceiveFails, Goodbye, AuditEvent, ListUsers,
     Refuse, DisconnectUser, RebootRequest, ReplaceState, SendReply, RebootBroadcast,
     DeferredUnregister, DeferredClose, Answering, ServerTypes
<1>3. \A c \in Sessions \ {s} : up'[c] = up[c]
  BY DEF Serve, Hello, NoHello, Greet, ReceiveFails, Goodbye, AuditEvent, ListUsers,
     Refuse, DisconnectUser, RebootRequest, ReplaceState, SendReply, RebootBroadcast,
     DeferredUnregister, DeferredClose, Takes, CloseServerEnd, connVars, ConnTypes
<1>4. \A c \in Sessions \ {s} : down'[c] = down[c]
  BY DEF Serve, Hello, NoHello, Greet, ReceiveFails, Goodbye, AuditEvent, NoAnswer,
     ListUsers, Refuse, DisconnectUser, RebootRequest, ReplaceState, SendReply,
     RebootBroadcast, DeferredUnregister, DeferredClose, SendDown, connVars, ConnTypes
<1>5. cliOpen' = cliOpen /\ granted \subseteq granted'
  BY DEF Serve, Hello, NoHello, Greet, ReceiveFails, Goodbye, AuditEvent, ListUsers,
     Refuse, DisconnectUser, RebootRequest, ReplaceState, SendReply, RebootBroadcast,
     DeferredUnregister, DeferredClose, connVars
<1>6. QED
  BY <1>1, <1>2, <1>3, <1>4, <1>5 DEF Passed, ClientSame, Shorter, clientVars

\* What is received in the loop or as the Hello is the request that was sent.
LEMMA LoopTakes ==
  ASSUME Types, NEW s \in Sessions, NEW kind, Takes(s, kind)
  PROVE  /\ Shorter(up'[s], up[s])
         /\ Orderly(s) /\ Live(s) /\ kind \in RequestKinds => Theirs(s) /\ want[s] = kind
<1>1. /\ up' = [up EXCEPT ![s] = Tail(@)] /\ up[s] # <<>>
      /\ Head(up[s]).kind = kind
  BY DEF Takes
<1>2. up'[s] = Tail(up[s])
  BY <1>1 DEF Types, ConnTypes
<1>3. QED
  BY <1>1, <1>2, RequestTaken DEF Shorter

LEMMA HelloTaken ==
  ASSUME Types, NEW s \in Sessions, Orderly(s), Live(s), Hello(s)
  PROVE  Theirs(s) /\ want[s] = "Hello" /\ cl[s] = "hello"
<1>1. up[s] # <<>> /\ up' = [up EXCEPT ![s] = Tail(@)] /\ srv[s] = "hello"
  BY DEF Hello
<1>2. up[s] \in Seq(Messages) /\ Early(s)
  BY DEF Types, ConnTypes, Orderly, Exchange
<1>3. cl[s] = "hello" /\ want[s] = "Hello" /\ Only(up[s], UpKinds, "Hello")
  BY <1>1, <1>2 DEF Early, Fresh
<1>4. Head(up[s]).kind \in UpKinds
  BY <1>1, <1>2, Taken, MessageKinds DEF UpKinds
<1>5. Head(up[s]).kind = "Hello"
  BY <1>1, <1>2, <1>3, <1>4, TakenKeeps
<1>6. QED
  BY <1>1, <1>3, <1>5, RequestTaken DEF RequestKinds

LEMMA ServeKeeps ==
  ASSUME Types, ReplyReady, NEW s \in Sessions, Orderly(s), Serve(s),
         UNCHANGED clientVars
  PROVE  Orderly(s)'
<1>1. ClientSame(s) /\ (s \in granted => s \in granted')
  BY ServeAlone
<1> USE <1>1
<1>2. /\ srv \in [Sessions -> Places] /\ reply \in [Sessions -> Slot(Replies)]
      /\ up \in [Sessions -> Seq(Messages)]
  BY DEF Types, ServerTypes, ConnTypes
<1>3. CASE Hello(s)
  <2>1. /\ srv'[s] = "greet" /\ down'[s] = down[s]
        /\ up'[s] = Tail(up[s]) /\ up[s] # <<>>
    BY <1>2, <1>3 DEF Hello, ServeFrame, Goto
  <2>2. QED
    BY <1>3, <2>1, HelloTaken, ServedOn DEF Serving, Shorter
<1>4. CASE \/ NoHello(s) \/ ReceiveFails(s) \/ DeferredUnregister(s) \/ RebootBroadcast(s)
           \/ DeferredClose(s) \/ Goodbye(s) \/ AuditEvent(s)
  <2>1. srv'[s] \in {"close", "leave", "loop", "gone"} /\ down' = down
    BY <1>2, <1>4 DEF NoHello, ReceiveFails, DeferredUnregister, RebootBroadcast,
       DeferredClose, Goodbye, AuditEvent, NoAnswer, ServeFrame, Goto, connVars
  <2>2. Shorter(up'[s], up[s])
    <3>1. CASE Goodbye(s) \/ AuditEvent(s)
      BY <3>1, LoopTakes DEF Goodbye, AuditEvent
    <3>2. CASE DeferredClose(s)
      BY <3>2 DEF DeferredClose, CloseServerEnd, Shorter
    <3>3. CASE NoHello(s) \/ ReceiveFails(s) \/ DeferredUnregister(s) \/ RebootBroadcast(s)
      BY <3>3 DEF NoHello, ReceiveFails, DeferredUnregister, RebootBroadcast,
         connVars, Shorter
    <3>4. QED
      BY <1>4, <3>1, <3>2, <3>3
  <2>3. QED
    BY <2>1, <2>2, PassedKeeps DEF Passed, Fresh
<1>5. CASE Greet(s)
  <2> DEFINE m == [kind |-> "Hello", ok |-> TRUE]
  <2>1. m \in Answers /\ m.kind = "Hello"
    BY AnswerKinds DEF RequestKinds
  <2>2. srv'[s] \in {"loop", "leave"} /\ srv[s] = "greet" /\ up' = up /\ SendDown(s, m)
    BY <1>2, <1>5 DEF Greet, AfterFailedGreeting, ServeFrame, Goto
  <2>3. Live(s) => Theirs(s) /\ want[s] = "Hello"
    BY <2>2, RequestHeld DEF Serving, Orderly, Exchange, Wanted
  <2> HIDE DEF m
  <2>4. QED
    BY <2>1, <2>2, <2>3, AnswerSent DEF Shorter, Vouched
<1>6. CASE ListUsers(s)
  <2> DEFINE m == [kind |-> "ListUsers", ok |-> TRUE]
  <2>1. m \in Answers /\ m.kind = "ListUsers" /\ m.kind \in RequestKinds
    BY AnswerKinds DEF RequestKinds
  <2>2. srv'[s] \in {"loop", "leave"} /\ Takes(s, m.kind) /\ SendDown(s, m)
    BY <1>2, <1>6 DEF ListUsers, ServeFrame, Goto
  <2> HIDE DEF m
  <2>3. Shorter(up'[s], up[s]) /\ (Live(s) => Theirs(s) /\ want[s] = m.kind)
    BY <2>1, <2>2, LoopTakes
  <2>4. QED
    BY <2>1, <2>2, <2>3, AnswerSent DEF Vouched
<1>7. ASSUME NEW kind \in {"Disconnect", "Reboot"}, Refuse(s, kind) PROVE Orderly(s)'
  <2> DEFINE m == [kind |-> kind, ok |-> FALSE]
  <2>1. m \in Answers /\ m.kind = kind /\ kind \in RequestKinds /\ ~m.ok
    BY AnswerKinds DEF RequestKinds
  <2>2. srv'[s] \in {"loop", "leave"} /\ Takes(s, kind) /\ SendDown(s, m)
    BY <1>2, <1>7 DEF Refuse, ServeFrame, Goto
  <2> HIDE DEF m
  <2>3. Shorter(up'[s], up[s]) /\ (Live(s) => Theirs(s) /\ want[s] = kind)
    BY <2>1, <2>2, LoopTakes
  <2>4. QED
    BY <2>1, <2>2, <2>3, AnswerSent DEF Vouched
<1>8. ASSUME NEW kind \in {"Disconnect", "Reboot"}, NEW ok, NEW sent, NEW failed,
             Answering(s, kind, ok, sent, failed), ok => s \in granted'
      PROVE  reply'[s][1].kind = kind /\ Vouched(reply[s][1], s)'
  <2>1. reply'[s][1] = [kind |-> kind, ok |-> ok, sent |-> sent, failed |-> failed]
    BY <1>2, <1>8 DEF Answering
  <2>2. QED
    BY <1>8, <2>1 DEF Vouched
<1>9. CASE DisconnectUser(s)
  <2> DEFINE ok == Resolves(Head(up[s]).user, Head(up[s]).id)
  <2>1. /\ srv'[s] = "reply" /\ Takes(s, "Disconnect") /\ down' = down
        /\ Answering(s, "Disconnect", ok, "loop", "leave")
        /\ ok => s \in granted'
    BY <1>2, <1>9 DEF DisconnectUser, ServeFrame, Goto
  <2>2. Shorter(up'[s], up[s]) /\ (Live(s) => Theirs(s) /\ want[s] = "Disconnect")
    BY <2>1, LoopTakes DEF RequestKinds
  <2>3. reply'[s][1].kind = "Disconnect" /\ Vouched(reply[s][1], s)'
    BY <1>8, <2>1
  <2>4. QED
    BY <2>1, <2>2, <2>3, ServedOn DEF Serving
<1>10. CASE RebootRequest(s)
  <2>1. /\ srv'[s] \in {"replace", "reply"} /\ Takes(s, "Reboot") /\ down' = down
        /\ srv'[s] = "reply" => Answering(s, "Reboot", FALSE, "loop", "loop")
    BY <1>2, <1>10 DEF RebootRequest, ServeFrame, Goto
  <2>2. Shorter(up'[s], up[s]) /\ (Live(s) => Theirs(s) /\ want[s] = "Reboot")
    BY <2>1, LoopTakes DEF RequestKinds
  <2>3. srv'[s] = "reply" => reply'[s][1].kind = "Reboot" /\ Vouched(reply[s][1], s)'
    BY <1>8, <2>1
  <2>4. QED
    BY <2>1, <2>2, <2>3, ServedOn DEF Serving
<1>11. CASE ReplaceState(s)
  <2>1. /\ srv[s] = "replace" /\ srv'[s] = "reply" /\ up' = up /\ down' = down
        /\ Answering(s, "Reboot", TRUE, "broadcast", "leave") /\ s \in granted'
    BY <1>2, <1>11 DEF ReplaceState, ServeFrame, Goto, connVars
  <2>2. Live(s) => Theirs(s) /\ want[s] = "Reboot"
    BY <2>1, RequestHeld DEF Serving, Orderly, Exchange, Wanted
  <2>3. reply'[s][1].kind = "Reboot" /\ Vouched(reply[s][1], s)'
    BY <1>8, <2>1
  <2>4. QED
    BY <2>1, <2>2, <2>3, ServedOn DEF Serving, Shorter
<1>12. CASE SendReply(s)
  <2> DEFINE r == reply[s][1]
             m == [kind |-> r.kind, ok |-> r.ok]
  <2>1. srv[s] = "reply" /\ r \in Replies /\ Head(reply[s]) = r
    BY <1>2, <1>12, SlotFacts DEF SendReply, ReplyReady
  <2>2. m \in Answers /\ m.kind = r.kind /\ (Vouched(r, s) <=> Vouched(m, s))
    BY <2>1 DEF Replies, Answers, Vouched
  <2>3. /\ srv'[s] \in {"loop", "broadcast", "leave"} /\ up' = up
        /\ SendDown(s, m)
    BY <1>2, <1>12, <2>1 DEF SendReply, ServeFrame, Goto, Replies
  <2>4. Live(s) => Theirs(s) /\ want[s] = m.kind /\ Vouched(m, s)
    BY <2>1, <2>2, <2>3, RequestHeld DEF Serving, Orderly, Exchange, Wanted, Honest
  <2> HIDE DEF m
  <2>5. QED
    BY <2>2, <2>3, <2>4, AnswerSent DEF Shorter
<1>13. QED
  BY <1>3, <1>4, <1>5, <1>6, <1>7, <1>9, <1>10, <1>11, <1>12 DEF Serve

\* A farewell among the answers is none of them.
LEMMA FarewellSent ==
  ASSUME Types, NEW s \in Sessions, Orderly(s), ClientSame(s), UNCHANGED <<up, srv,
         reply, granted>>,
         NEW m \in Farewells, SendDown(s, m)
  PROVE  Orderly(s)'
<1>1. /\ down[s] \in Seq(Answers \cup Farewells) /\ m \in Answers \cup Farewells
      /\ m.kind = "Farewell" /\ m.kind \notin RequestKinds
  BY AnswerKinds DEF Types, ConnTypes, RequestKinds
<1>2. /\ Has(Append(down[s], m), RequestKinds) <=> Has(down[s], RequestKinds)
      /\ Once(down[s], RequestKinds) => Once(Append(down[s], m), RequestKinds)
      /\ \A kind : Only(down[s], RequestKinds, kind)
                    => Only(Append(down[s], m), RequestKinds, kind)
  BY <1>1, Appended
<1>3. down'[s] = down[s] \/ down'[s] = Append(down[s], m)
  BY DEF SendDown, Types, ConnTypes
<1>4. /\ Has(down'[s], RequestKinds) <=> Has(down[s], RequestKinds)
      /\ Once(down[s], RequestKinds) => Once(down'[s], RequestKinds)
      /\ \A kind : Only(down[s], RequestKinds, kind) => Only(down'[s], RequestKinds, kind)
  BY <1>2, <1>3
<1>5. /\ (Live(s)' <=> Live(s)) /\ (InCall(s)' <=> InCall(s)) /\ (Done(s)' <=> Done(s))
      /\ (Asked(s)' <=> Asked(s)) /\ (Serving(s)' <=> Serving(s))
      /\ (Answered(s)' <=> Answered(s)) /\ (Handed(s)' <=> Handed(s))
  BY <1>4 DEF ClientSame, Live, Done, InCall, Asked, Serving, Answered, Handed
<1>6. CASE Live(s)
  <2> USE <1>6 DEF ClientSame, Orderly, Exchange
  <2>1. OnePlace(s)'
    BY <1>4, <1>5 DEF OnePlace
  <2>2. Wanted(s)'
    BY <1>4, <1>5 DEF Wanted
  <2>3. Honest(s)'
    <3>1. Vouched(m, s)
      BY <1>1 DEF Vouched
    <3>2. \A i \in 1..Len(down'[s]) :
            down'[s][i] = m \/ (i \in 1..Len(down[s]) /\ down'[s][i] = down[s][i])
      BY <1>1, <1>3, Appended
    <3>3. (\A i \in 1..Len(down[s]) : Vouched(down[s][i], s))'
      BY <3>1, <3>2 DEF Honest, Vouched
    <3>4. QED
      BY <1>5, <3>3 DEF Honest, Vouched
  <2>4. Early(s)'
    BY <1>5 DEF Early
  <2>5. QED
    BY <1>5, <2>1, <2>2, <2>3, <2>4
<1>7. QED
  BY <1>5, <1>6, SilentKeeps DEF ClientSame, Orderly

LEMMA WatchKeeps ==
  ASSUME Types, ExchangeInv, NEW s \in Sessions, Watch(s), UNCHANGED clientVars
  PROVE  ExchangeInv'
<1>1. /\ \A c \in Sessions : ClientSame(c)
      /\ UNCHANGED <<srv, reply, granted>>
  BY DEF Watch, WatcherTakes, WatcherDone, WatcherSends, WatcherCloses, WatchFrame,
     clientVars, ClientSame
<1>2. ASSUME \A c \in Sessions : Shorter(up'[c], up[c]) /\ down'[c] = down[c]
      PROVE  ExchangeInv'
  BY <1>1, <1>2, PassedKeeps DEF Passed, ExchangeInv
<1>3. CASE WatcherTakes(s) \/ WatcherDone(s)
  BY <1>2, <1>3 DEF WatcherTakes, WatcherDone, Shorter
<1>4. CASE WatcherCloses(s)
  BY <1>2, <1>4 DEF WatcherCloses, CloseServerEnd, Shorter
<1>5. CASE WatcherSends(s)
  <2>1. UNCHANGED up /\ SendDown(s, [kind |-> "Farewell", text |-> text[s]])
    BY <1>5 DEF WatcherSends
  <2>2. [kind |-> "Farewell", text |-> text[s]] \in Farewells
    BY AnswerKinds DEF Types, ServerTypes
  <2>3. Orderly(s)'
    BY <1>1, <2>1, <2>2, FarewellSent DEF ExchangeInv
  <2>4. ASSUME NEW c \in Sessions \ {s} PROVE Orderly(c)'
    <3>1. down'[c] = down[c]
      BY <2>1 DEF SendDown, Types, ConnTypes
    <3>2. QED
      BY <1>1, <2>1, <3>1, PassedKeeps DEF Passed, Shorter, ExchangeInv
  <2>5. QED
    BY <2>3, <2>4 DEF ExchangeInv
<1>6. QED
  BY <1>3, <1>4, <1>5 DEF Watch

LEMMA ProcessKeeps ==
  ASSUME Types, ExchangeInv, UNCHANGED clientVars,
         \/ SighupReload \/ ShutdownBroadcast \/ SignalStep
         \/ \E s \in Sessions : AcceptLoop(s)
  PROVE  ExchangeInv'
<1>1. UNCHANGED <<down, cliOpen, reply, granted>>
  BY DEF SighupReload, ShutdownBroadcast, SignalStep, SighupReplace, SighupBroadcast,
     ShutdownClose, ProcessExit, SigFrame, AcceptLoop, Accept, HandshakeDone,
     HandshakeFails, connVars
<1>2. \A c \in Sessions : Shorter(up'[c], up[c])
  <2>1. up' = up \/ \E S : CloseServerEnd(S)
    BY DEF SighupReload, ShutdownBroadcast, SignalStep, SighupReplace,
       SighupBroadcast, ShutdownClose, ProcessExit, AcceptLoop, Accept, HandshakeDone,
       HandshakeFails, connVars
  <2>2. QED
    BY <2>1 DEF CloseServerEnd, Shorter
<1>3. \A c \in Sessions :
        \/ srv'[c] = srv[c] \/ srv'[c] = "gone"
        \/ srv'[c] \in {"handshake", "hello"} /\ srv[c] \in Fresh
  <2>1. CASE SighupReload \/ ShutdownBroadcast \/ SignalStep
    BY <2>1 DEF SighupReload, ShutdownBroadcast, SignalStep, SighupReplace,
       SighupBroadcast, ShutdownClose, ProcessExit
  <2>2. ASSUME NEW s \in Sessions, AcceptLoop(s)
        PROVE  \A c \in Sessions :
                 \/ srv'[c] = srv[c] \/ srv'[c] = "gone"
                 \/ srv'[c] \in {"handshake", "hello"} /\ srv[c] \in Fresh
    BY <2>2 DEF AcceptLoop, Accept, HandshakeDone, HandshakeFails, Goto, Fresh, Types,
       ServerTypes
  <2>3. QED
    BY <2>1, <2>2
<1>4. \A c \in Sessions : Passed(c)
  BY <1>1, <1>2, <1>3 DEF Passed, ClientSame, Fresh, clientVars
<1>5. QED
  BY <1>4, PassedKeeps DEF ExchangeInv

LEMMA QuietKeeps ==
  ASSUME NEW s, ~Live(s)', (Done(s) \/ respCh[s] = <<>>)',
         (InCall(s) \/ cl[s] = "idle" => cliOpen[s])'
  PROVE  Orderly(s)'
BY DEF Orderly

LEMMA Failed ==
  ASSUME Types, NEW s \in Sessions, NEW t, t # "none", Fail(s, t)
  PROVE  Done(s)' /\ ~Live(s)'
BY DEF Types, ClientTypes, Fail, Done, Live

\* Nothing is being exchanged with a client that is in no call.
LEMMA NoCall ==
  ASSUME NEW s \in Sessions, Orderly(s), Live(s), ~InCall(s)
  PROVE  ~Asked(s) /\ ~Serving(s) /\ ~Answered(s) /\ ~Handed(s)
BY DEF Orderly, Exchange, Wanted

\* A request goes out, or the connection is over.
LEMMA CallBegun ==
  ASSUME Types, NEW s \in Sessions, Orderly(s), UNCHANGED <<srv, reply>>,
         NEW m \in Messages, NEW place, NEW failed, BeginCall(s, m, place, failed),
         \/ cl[s] = "dial" /\ m.kind = "Hello" /\ place = "hello" /\ failed = "over"
         \/ /\ cl[s] = "idle" /\ m.kind \in RequestKinds
            /\ place = "call" /\ failed = "idle"
  PROVE  Orderly(s)'
<1>1. m.kind \in RequestKinds /\ m.kind \in UpKinds /\ up[s] \in Seq(Messages)
  BY DEF RequestKinds, UpKinds, Types, ConnTypes
<1>2. /\ want'[s] = m.kind /\ respCh' = respCh
      /\ CanSend(s) => /\ cl'[s] = place /\ UNCHANGED <<told, down, cliOpen>>
                      /\ up'[s] = Append(up[s], m)
      /\ ~CanSend(s) => cl'[s] = failed /\ Fail(s, "lost")
      /\ ~CanSend(s) /\ failed = "idle" => cliOpen' = cliOpen
  BY DEF BeginCall, SendUp, Types, ConnTypes, ClientTypes
<1>3. CASE ~CanSend(s)
  <2>1. Done(s)' /\ ~Live(s)'
    BY <1>2, <1>3, Failed
  <2>2. (InCall(s) \/ cl[s] = "idle" => cliOpen[s])'
    BY <1>2, <1>3 DEF InCall, Orderly
  <2>3. QED
    BY <2>1, <2>2, QuietKeeps
<1>4. CASE CanSend(s)
  <2>1. cliOpen[s] /\ cliOpen'[s] /\ (Done(s)' <=> Done(s))
    BY <1>2, <1>4 DEF CanSend, Done
  <2>2. CASE Done(s)
    BY <2>1, <2>2, QuietKeeps DEF Live
  <2>3. CASE ~Done(s)
    <3>1. Live(s) /\ Live(s)'
      BY <2>1, <2>3 DEF Live
    <3>2. ~Asked(s) /\ ~Serving(s) /\ ~Answered(s) /\ ~Handed(s)
      BY <3>1, NoCall DEF InCall
    <3>3. InCall(s)' /\ ~Serving(s)' /\ ~Answered(s)' /\ ~Handed(s)'
      BY <1>2, <1>4, <3>2 DEF InCall, Serving, Answered, Handed
    <3>4. /\ Once(up[s], RequestKinds) /\ Once(down[s], RequestKinds)
          /\ Only(up[s], RequestKinds, m.kind) /\ Only(down[s], RequestKinds, m.kind)
      BY <3>2 DEF Once, Only, Has, Asked, Answered
    <3>5. Once(up'[s], RequestKinds) /\ Only(up'[s], RequestKinds, m.kind)
      <4>1. /\ Once(Append(up[s], m), RequestKinds)
            /\ Only(Append(up[s], m), RequestKinds, m.kind)
        BY <1>1, <3>2, <3>4, Appended DEF Asked
      <4>2. QED
        BY <1>2, <1>4, <4>1
    <3>6. OnePlace(s)'
      BY <1>2, <1>4, <3>3, <3>4, <3>5 DEF OnePlace
    <3>7. Wanted(s)'
      BY <1>2, <1>4, <3>3, <3>4, <3>5 DEF Wanted, Serving
    <3>8. Honest(s)'
      <4>1. (\A i \in 1..Len(down[s]) : Vouched(down[s][i], s))'
        BY <1>2, <1>4, <3>2 DEF Vouched, Answered, Has, RequestKinds
      <4>2. QED
        BY <3>3, <4>1 DEF Honest, InCall, Serving
    <3>9. Early(s)'
      <4>1. Early(s) /\ cl'[s] = place /\ want'[s] = m.kind
        BY <1>2, <1>4, <3>1 DEF Orderly, Exchange
      <4>2. (cl[s] = "hello" => want[s] = "Hello" /\ Only(up[s], UpKinds, "Hello"))'
        <5>1. ASSUME cl[s] = "dial" PROVE Only(Append(up[s], m), UpKinds, "Hello")
          BY <1>1, <4>1, <5>1, Appended, EmptyQueue DEF Early
        <5>2. QED
          BY <1>2, <1>4, <4>1, <5>1
      <4>3. (srv[s] \in Fresh \cup {"greet"} => cl[s] \in {"off", "dial", "hello"})'
        BY <4>1 DEF Early
      <4>4. QED
        BY <3>3, <4>1, <4>2, <4>3 DEF Early
    <3>10. QED
      BY <3>1, <3>6, <3>7, <3>8, <3>9, <2>1, <1>4 DEF Orderly, Exchange
  <2>4. QED
    BY <2>2, <2>3
<1>5. QED
  BY <1>3, <1>4

\* The read loop takes a frame.
LEMMA ReadKeeps ==
  ASSUME Types, NEW s \in Sessions, Orderly(s), Read(s), UNCHANGED <<srv, reply,
         granted>>
  PROVE  Orderly(s)'
<1> DEFINE m == Head(down[s])
<1>1. /\ cliOpen[s] /\ down[s] # <<>> /\ down[s] \in Seq(Answers \cup Farewells)
      /\ down'[s] = Tail(down[s]) /\ UNCHANGED <<cl, want, result, up, cliOpen>>
  BY DEF Read, ClientReceiveFails, Types, ConnTypes
<1>2. (InCall(s) \/ cl[s] = "idle" => cliOpen[s])'
  BY <1>1 DEF InCall
<1>3. CASE m.kind = "Farewell"
  <2>1. m \in Farewells /\ Fail(s, FarewellText(m))
    BY <1>1, <1>3, Taken, AnswerKinds DEF Read
  <2>2. FarewellText(m) # "none"
    BY <2>1, AnswerKinds DEF FarewellText, Texts
  <2>3. Done(s)' /\ ~Live(s)'
    BY <2>1, <2>2, Failed
  <2>4. QED
    BY <1>2, <2>3, QuietKeeps
<1>4. CASE Done(s) /\ m.kind # "Farewell"
  <2>1. told' = told
    BY <1>4 DEF Read
  <2>2. Done(s)' /\ ~Live(s)'
    BY <1>4, <2>1 DEF Done, Live
  <2>3. QED
    BY <1>2, <2>2, QuietKeeps
<1>5. CASE ~Done(s) /\ m.kind # "Farewell"
  <2>1. /\ respCh[s] = <<>> /\ respCh'[s] = <<m>> /\ told' = told /\ Live(s) /\ Live(s)'
    BY <1>1, <1>5 DEF Read, Types, ClientTypes, Live, Done
  <2>2. m \in Answers /\ m.kind \in RequestKinds /\ m = down[s][1] /\ 1 \in 1..Len(down[s])
    BY <1>1, <1>5, Taken, AnswerKinds
  <2> HIDE DEF m
  <2>3. /\ OnePlace(s) /\ Wanted(s) /\ Honest(s) /\ Early(s)
    BY <2>1 DEF Orderly, Exchange
  <2>4. /\ Answered(s) /\ ~Has(Tail(down[s]), RequestKinds) /\ m.kind = want[s]
        /\ Once(Tail(down[s]), RequestKinds) /\ Only(Tail(down[s]), RequestKinds, want[s])
    BY <1>1, <2>2, <2>3, TakenKeeps DEF OnePlace, Wanted, Answered, m
  <2>5. /\ ~Asked(s)' /\ ~Serving(s)' /\ ~Answered(s)' /\ InCall(s)'
        /\ respCh'[s][1] = m
    BY <1>1, <2>1, <2>3, <2>4 DEF OnePlace, Wanted, Asked, Serving, Answered, InCall
  <2>6. OnePlace(s)'
    BY <1>1, <2>3, <2>4, <2>5 DEF OnePlace
  <2>7. Wanted(s)'
    BY <1>1, <2>3, <2>4, <2>5 DEF Wanted, Serving
  <2>8. Honest(s)'
    <3>1. Vouched(m, s)
      BY <2>2, <2>3 DEF Honest
    <3>2. (\A i \in 1..Len(down[s]) : Vouched(down[s][i], s))'
      BY <1>1, <2>3, Taken DEF Honest, Vouched
    <3>3. QED
      BY <2>5, <3>1, <3>2 DEF Honest, Vouched, Serving, InCall
  <2>9. Early(s)'
    BY <1>1, <2>3, <2>4, <2>5 DEF Early
  <2>10. QED
    BY <1>1, <1>2, <2>1, <2>6, <2>7, <2>8, <2>9 DEF Orderly, Exchange
<1>6. QED
  BY <1>3, <1>4, <1>5

\* A call takes the answer.
LEMMA CallAnsweredKeeps ==
  ASSUME Types, NEW s \in Sessions, Orderly(s), CallAnswered(s), UNCHANGED <<srv,
         reply, granted>>
  PROVE  Orderly(s)'
<1> DEFINE m == respCh[s][1]
<1>1. /\ InCall(s) /\ cliOpen[s] /\ Handed(s)
      /\ respCh[s] \in Slot(Answers) /\ Head(respCh[s]) = m /\ Tail(respCh[s]) = <<>>
  BY SlotFacts DEF CallAnswered, Handed, Orderly, Types, ClientTypes
<1>2. /\ respCh'[s] = <<>> /\ UNCHANGED <<want, told, up>>
      /\ result'[s] = AnswerOf(m, want[s])
      /\ \/ cl'[s] = "over" /\ cliOpen'[s] = FALSE
         \/ cl'[s] = "idle" /\ UNCHANGED <<down, cliOpen>>
  BY <1>1 DEF CallAnswered, CloseClientEnd, Types, ClientTypes, ConnTypes
<1> HIDE DEF m
<1>3. (InCall(s) \/ cl[s] = "idle" => cliOpen[s])'
  BY <1>1, <1>2 DEF InCall
<1>4. CASE ~Live(s)'
  BY <1>2, <1>3, <1>4, QuietKeeps
<1>5. CASE Live(s)'
  <2>1. Live(s) /\ cl'[s] = "idle" /\ UNCHANGED <<down, cliOpen>>
    BY <1>1, <1>2, <1>5 DEF Live, Done
  <2>2. OnePlace(s) /\ Wanted(s) /\ Honest(s) /\ Early(s)
    BY <2>1 DEF Orderly, Exchange
  <2>3. ~Asked(s)' /\ ~Serving(s)' /\ ~Answered(s)' /\ ~Handed(s)' /\ ~InCall(s)'
    BY <1>1, <1>2, <2>1, <2>2 DEF OnePlace, Asked, Serving, Answered, Handed, InCall
  <2>4. OnePlace(s)'
    BY <1>2, <2>1, <2>2, <2>3 DEF OnePlace
  <2>5. Wanted(s)'
    BY <1>2, <2>1, <2>2, <2>3 DEF Wanted, Serving
  <2>6. Honest(s)'
    <3>1. result'[s] = "ok" /\ want[s] \in {"Disconnect", "Reboot"} => s \in granted
      BY <1>1, <1>2, <2>2 DEF Honest, Vouched, AnswerOf, m
    <3>2. (\A i \in 1..Len(down[s]) : Vouched(down[s][i], s))'
      BY <2>1, <2>2 DEF Honest, Vouched
    <3>3. QED
      BY <1>2, <2>3, <3>1, <3>2 DEF Honest, Serving
  <2>7. Early(s)'
    <3>1. srv[s] \notin Fresh \cup {"greet"}
      BY <1>1, <2>2 DEF Early, OnePlace, Serving
    <3>2. QED
      BY <2>1, <3>1 DEF Early
  <2>8. QED
    BY <1>2, <1>3, <1>5, <2>4, <2>5, <2>6, <2>7 DEF Orderly, Exchange
<1>6. QED
  BY <1>4, <1>5

\* An audit event wants no answer.
LEMMA AuditKeeps ==
  ASSUME Types, NEW s \in Sessions, Orderly(s), SendAudit(s), UNCHANGED <<srv, reply,
         granted>>
  PROVE  Orderly(s)'
<1> DEFINE m == [kind |-> "Audit"]
<1>1. /\ m \in Messages /\ m.kind \notin RequestKinds /\ up[s] \in Seq(Messages)
      /\ UNCHANGED <<cl, want, result, respCh, down, cliOpen>> /\ cl[s] = "idle"
  BY MessageKinds DEF SendAudit, RequestKinds, Types, ConnTypes
<1>2. (InCall(s) \/ cl[s] = "idle" => cliOpen[s])'
  BY <1>1 DEF Orderly
<1>3. CASE ~CanSend(s)
  <2>1. Done(s)' /\ ~Live(s)'
    BY <1>3, Failed DEF SendAudit
  <2>2. QED
    BY <1>2, <2>1, QuietKeeps
<1>4. CASE CanSend(s)
  <2>1. told' = told /\ up'[s] = Append(up[s], m)
    BY <1>4 DEF SendAudit, SendUp, Types, ConnTypes
  <2> HIDE DEF m
  <2>2. /\ Has(Append(up[s], m), RequestKinds) <=> Has(up[s], RequestKinds)
        /\ Once(up[s], RequestKinds) => Once(Append(up[s], m), RequestKinds)
        /\ \A kind : Only(up[s], RequestKinds, kind)
                      => Only(Append(up[s], m), RequestKinds, kind)
    BY <1>1, Appended
  <2>3. /\ Asked(s)' <=> Asked(s)
        /\ Once(up[s], RequestKinds) => Once(up'[s], RequestKinds)
        /\ Only(up[s], RequestKinds, want[s]) => Only(up'[s], RequestKinds, want'[s])
    BY <1>1, <2>1, <2>2 DEF Asked
  <2>4. /\ (Live(s)' <=> Live(s)) /\ (InCall(s)' <=> InCall(s)) /\ (Done(s)' <=> Done(s))
        /\ (Serving(s)' <=> Serving(s)) /\ (Answered(s)' <=> Answered(s))
        /\ (Handed(s)' <=> Handed(s))
    BY <1>1, <2>1 DEF Live, Done, InCall, Serving, Answered, Handed
  <2>5. CASE Live(s)
    <3>1. OnePlace(s) /\ Wanted(s) /\ Honest(s) /\ Early(s)
      BY <2>5 DEF Orderly, Exchange
    <3>2. OnePlace(s)'
      BY <1>1, <2>3, <2>4, <3>1 DEF OnePlace
    <3>3. Wanted(s)'
      BY <1>1, <2>3, <2>4, <3>1 DEF Wanted
    <3>4. Honest(s)'
      BY <1>1, <2>4, <3>1 DEF Honest, Vouched
    <3>5. Early(s)'
      BY <1>1, <2>4, <3>1 DEF Early
    <3>6. QED
      BY <1>1, <1>2, <2>4, <3>2, <3>3, <3>4, <3>5 DEF Orderly, Exchange
  <2>6. CASE ~Live(s)
    BY <1>1, <1>2, <2>4, <2>6 DEF Orderly
  <2>7. QED
    BY <2>5, <2>6
<1>5. QED
  BY <1>3, <1>4

\* The client's end closes, or has been told that the connection is over.
LEMMA ClientEndKeeps ==
  ASSUME Types, NEW s \in Sessions, Orderly(s),
         DialFails(s) \/ CallEnded(s) \/ ReadFails(s) \/ CloseClient(s) \/ Crash(s)
  PROVE  Orderly(s)'
<1>1. CASE DialFails(s) \/ CloseClient(s) \/ Crash(s)
  <2>1. cliOpen'[s] = FALSE /\ cl'[s] \in {"over", "dead"}
    BY <1>1 DEF DialFails, CloseClient, Crash, CloseClientEnd, Types, ConnTypes,
       ClientTypes
  <2>2. Done(s) => Done(s)'
    BY <1>1 DEF DialFails, CloseClient, Crash, Fail, Done
  <2>3. Done(s) \/ respCh'[s] = <<>>
    <3>1. CASE Crash(s)
      BY <3>1 DEF Crash, Types, ClientTypes
    <3>2. CASE DialFails(s) \/ CloseClient(s)
      <4>1. ~InCall(s) /\ respCh' = respCh
        BY <3>2 DEF DialFails, CloseClient, InCall
      <4>2. QED
        BY <4>1, NoCall DEF Orderly, Live, Handed
    <3>3. QED
      BY <1>1, <3>1, <3>2
  <2>4. (InCall(s) \/ cl[s] = "idle" => cliOpen[s])' /\ ~Live(s)'
    BY <2>1 DEF InCall, Live
  <2>5. QED
    BY <2>2, <2>3, <2>4, QuietKeeps
<1>2. CASE CallEnded(s)
  <2>1. /\ Done(s)' /\ cliOpen[s]
        /\ cl'[s] = "over" \/ (cl'[s] = "idle" /\ cliOpen' = cliOpen)
    BY <1>2 DEF CallEnded, EndsWithConnection, Done, Orderly, Types, ClientTypes
  <2>2. (InCall(s) \/ cl[s] = "idle" => cliOpen[s])' /\ ~Live(s)'
    BY <2>1 DEF InCall, Live
  <2>3. QED
    BY <2>1, <2>2, QuietKeeps
<1>3. CASE ReadFails(s)
  <2>1. Done(s)' /\ ~Live(s)'
    BY <1>3, Failed DEF ReadFails
  <2>2. (InCall(s) \/ cl[s] = "idle" => cliOpen[s])'
    BY <1>3 DEF ReadFails, Orderly, InCall, connVars
  <2>3. QED
    BY <2>1, <2>2, QuietKeeps
<1>4. QED
  BY <1>1, <1>2, <1>3

\* A connection is dialled.
LEMMA DialKeeps ==
  ASSUME Types, NEW s \in Sessions, Orderly(s), Undialled, Dial(s)
  PROVE  Orderly(s)'
<1>1. /\ cl[s] = "off" /\ cl'[s] = "dial" /\ srv'[s] = "queued"
      /\ UNCHANGED <<up, down, cliOpen, want, result, respCh, told, granted>>
  BY DEF Dial, Goto, Types, ServerTypes, ClientTypes, connVars
<1>2. (Live(s)' <=> Live(s)) /\ (Done(s)' <=> Done(s))
  BY <1>1 DEF Live, Done
<1>3. CASE Live(s)
  <2>1. ~InCall(s) /\ ~InCall(s)'
    BY <1>1 DEF InCall
  <2>2. /\ ~Asked(s)' /\ ~Serving(s)' /\ ~Answered(s)' /\ ~Handed(s)'
    BY <1>1, <1>3, <2>1, NoCall DEF Asked, Serving, Answered, Handed
  <2>3. OnePlace(s) /\ Wanted(s) /\ Honest(s) /\ Early(s)
    BY <1>3 DEF Orderly, Exchange
  <2>4. OnePlace(s)'
    BY <1>1, <2>2, <2>3 DEF OnePlace
  <2>5. Wanted(s)'
    BY <1>1, <2>1, <2>2, <2>3 DEF Wanted
  <2>6. Honest(s)'
    BY <1>1, <2>2, <2>3 DEF Honest, Vouched
  <2>7. Early(s)'
    BY <1>1, <2>2, <2>3 DEF Early
  <2>8. QED
    BY <1>1, <1>2, <2>1, <2>4, <2>5, <2>6, <2>7 DEF Orderly, Exchange, Live
<1>4. CASE ~Live(s)
  BY <1>1, <1>2, <1>4 DEF Orderly, InCall
<1>5. QED
  BY <1>3, <1>4

\* What one client does concerns its own connection only.
LEMMA ClientAlone ==
  ASSUME Types, NEW s \in Sessions, NEW c \in Sessions, c # s,
         \/ SendHello(s) \/ CallAnswered(s) \/ CallEnded(s) \/ DialFails(s)
         \/ Read(s) \/ ReadFails(s) \/ SendAudit(s) \/ CloseClient(s) \/ Crash(s)
         \/ \E m : StartCall(s, m)
  PROVE  up'[c] = up[c] /\ down'[c] = down[c] /\ ClientSame(c)
<1> USE DEF Types, ConnTypes, ClientTypes, ClientSame
<1>1. ASSUME NEW m, NEW place, NEW failed, BeginCall(s, m, place, failed)
      PROVE  up'[c] = up[c] /\ down'[c] = down[c] /\ ClientSame(c)
  <2>1. up'[c] = up[c] /\ respCh' = respCh
    BY <1>1 DEF BeginCall, SendUp
  <2>2. cl'[c] = cl[c] /\ want'[c] = want[c] /\ result'[c] = result[c] /\ told'[c] = told[c]
    BY <1>1 DEF BeginCall, Fail
  <2>3. down'[c] = down[c] /\ cliOpen'[c] = cliOpen[c]
    BY <1>1 DEF BeginCall, CloseClientEnd
  <2>4. QED
    BY <2>1, <2>2, <2>3
<1>2. CASE SendHello(s) \/ \E m : StartCall(s, m)
  BY <1>1, <1>2 DEF SendHello, StartCall
<1>3. CASE CallAnswered(s) \/ CallEnded(s) \/ DialFails(s)
  BY <1>3 DEF CallAnswered, CallEnded, DialFails, CloseClientEnd
<1>4. CASE Read(s) \/ ReadFails(s)
  <2>1. CASE Read(s)
    <3>1. /\ down' = [down EXCEPT ![s] = Tail(@)]
          /\ UNCHANGED <<cl, want, result, up, cliOpen, srvOpen>>
      BY <2>1, Zenon DEF Read
    <3>2. respCh' = respCh \/ respCh' = [respCh EXCEPT ![s] = <<Head(down[s])>>]
      BY <2>1, Zenon DEF Read
    <3>3. told' = told \/ told' = [told EXCEPT ![s] = FarewellText(Head(down[s]))]
      BY <2>1, Zenon DEF Read, Fail
    <3>4. QED
      BY <3>1, <3>2, <3>3
  <2>2. CASE ReadFails(s)
    BY <2>2, SMTT(30) DEF ReadFails, Fail, connVars
  <2>3. QED
    BY <1>4, <2>1, <2>2
<1>5. CASE SendAudit(s)
  BY <1>5 DEF SendAudit, SendUp, Fail
<1>6. CASE CloseClient(s)
  BY <1>6 DEF CloseClient, SendUp, Fail, CloseClientEnd
<1>7. CASE Crash(s)
  BY <1>7 DEF Crash, CloseClientEnd
<1>8. QED
  BY <1>2, <1>3, <1>4, <1>5, <1>6, <1>7

LEMMA NextExchange ==
  ASSUME Types, ReplyReady, Undialled, ExchangeInv, [Next]_vars
  PROVE  ExchangeInv'
<1> USE DEF ExchangeInv
<1>1. ASSUME NEW s \in Sessions, Dial(s) PROVE ExchangeInv'
  <2>1. ASSUME NEW c \in Sessions, c # s PROVE Passed(c)
    BY <1>1, <2>1 DEF Dial, Goto, Passed, ClientSame, Shorter, connVars, Types,
       ServerTypes, ClientTypes
  <2>2. QED
    BY <1>1, <2>1, DialKeeps, PassedKeeps
<1>2. ASSUME NEW s \in Sessions, Request(s) PROVE ExchangeInv'
  <2>1. PICK m \in Requests : StartCall(s, m)
    BY <1>2 DEF Request
  <2>2. UNCHANGED <<srv, reply>> /\ granted' = granted \ {s}
    BY <1>2 DEF Request
  <2>3. ASSUME NEW c \in Sessions, c # s PROVE Passed(c)
    BY <2>1, <2>2, <2>3, ClientAlone DEF Passed, Shorter
  <2>4. /\ m \in Messages /\ m.kind \in RequestKinds /\ cl[s] = "idle"
        /\ BeginCall(s, m, "call", "idle")
    BY <2>1, MessageKinds DEF StartCall, RequestKinds
  <2>5. Orderly(s)'
    BY <2>2, <2>4, CallBegun
  <2>6. QED
    BY <2>3, <2>5, PassedKeeps
<1>3. ASSUME NEW s \in Sessions, ClientStep(s) PROVE ExchangeInv'
  <2>1. UNCHANGED <<srv, reply, granted>>
    BY <1>3, ClientsKeep DEF serverVars
  <2>2. \/ SendHello(s) \/ CallAnswered(s) \/ CallEnded(s) \/ DialFails(s)
        \/ Read(s) \/ ReadFails(s) \/ SendAudit(s) \/ CloseClient(s) \/ Crash(s)
    BY <1>3 DEF ClientStep, Log, ClientReturns, ClientReads, Greeted
  <2>3. ASSUME NEW c \in Sessions, c # s PROVE Passed(c)
    BY <2>1, <2>2, <2>3, ClientAlone DEF Passed, Shorter
  <2>4. Orderly(s)'
    <3>1. CASE SendHello(s)
      <4>1. [kind |-> "Hello"] \in Messages
        BY MessageKinds
      <4>2. QED
        BY <2>1, <3>1, <4>1, CallBegun DEF SendHello
    <3>2. CASE ~SendHello(s)
      BY <2>1, <2>2, <3>2, CallAnsweredKeeps, ReadKeeps, AuditKeeps, ClientEndKeeps
    <3>3. QED
      BY <3>1, <3>2
  <2>5. QED
    BY <2>3, <2>4, PassedKeeps
<1>4. ASSUME NEW s \in Sessions, ServerStep(s) PROVE ExchangeInv'
  <2>1. CASE Serve(s)
    BY <1>4, <2>1, ServeKeeps, ServeAlone, PassedKeeps DEF ServerStep
  <2>2. CASE Watch(s) \/ AcceptLoop(s)
    BY <1>4, <2>2, WatchKeeps, ProcessKeeps DEF ServerStep
  <2>3. QED
    BY <1>4, <2>1, <2>2 DEF ServerStep
<1>5. CASE WriteDisk \/ UNCHANGED vars
  <2>1. UNCHANGED <<connVars, srv, reply, granted, clientVars>>
    BY <1>5 DEF WriteDisk, vars, serverVars
  <2>2. \A c \in Sessions : Passed(c)
    BY <2>1 DEF Passed, ClientSame, Shorter, connVars, clientVars
  <2>3. QED
    BY <2>2, PassedKeeps
<1>6. CASE ProcessStep
  BY <1>6, ProcessKeeps DEF ProcessStep
<1>7. QED
  BY <1>1, <1>2, <1>3, <1>4, <1>5, <1>6, Steps

-----------------------------------------------------------------------------
(* The invariant, and what follows from it.                                *)

LEMMA InitIInv == Init => IInv
<1> SUFFICES ASSUME Init PROVE IInv
  OBVIOUS
<1>1. 0 \in 0..MaxWrites /\ MaxEvents \in 0..MaxEvents
  BY DaemonAssumption
<1>2. /\ srv = [s \in Sessions |-> "none"] /\ reply = [s \in Sessions |-> <<>>]
      /\ slots = 0 /\ registered = {} /\ sig = "wait" /\ disk = 0 /\ canonical = 0
  BY DEF Init, ServerInit, DirectoryInit
<1>3. Types
  BY <1>1, EmptyQueue DEF Types, ConnTypes, DirectoryTypes, ServerTypes, StateTypes,
     ClientTypes, Slot, Places, Texts, Init, ConnInit, DirectoryInit, ServerInit,
     ClientInit
<1>4. SlotInv
  <2>1. InService = {}
    BY <1>2 DEF InService, Served
  <2>2. QED
    BY <1>2, <1>3, <2>1, FS_EmptySet, CeilingIsPositive DEF SlotInv
<1>5. DirectoryIsServed /\ ReplyReady /\ Undialled
  BY <1>2 DEF DirectoryIsServed, ReplyReady, Undialled
<1>6. RebootInv
  <2>1. Loading = {}
    BY <1>2 DEF Loading
  <2>2. QED
    BY <1>2, <2>1 DEF RebootInv
<1>7. ASSUME NEW s \in Sessions PROVE Orderly(s)
  <2>1. /\ srv[s] = "none" /\ up[s] = <<>> /\ down[s] = <<>> /\ respCh[s] = <<>>
        /\ cl[s] = "off" /\ cliOpen[s]
    BY DEF Init, ConnInit, ServerInit, ClientInit
  <2>2. /\ ~Asked(s) /\ ~Serving(s) /\ ~Answered(s) /\ ~Handed(s) /\ ~InCall(s)
    BY <2>1, EmptyQueue DEF Asked, Serving, Answered, Handed, InCall
  <2>3. OnePlace(s)
    BY <2>1, <2>2, EmptyQueue DEF OnePlace
  <2>4. Wanted(s)
    BY <2>1, <2>2, EmptyQueue DEF Wanted
  <2>5. Honest(s) /\ Early(s)
    BY <2>1, <2>2 DEF Honest, Early
  <2>6. QED
    BY <2>1, <2>2, <2>3, <2>4, <2>5 DEF Orderly, Exchange
<1>8. QED
  BY <1>3, <1>4, <1>5, <1>6, <1>7 DEF IInv, ExchangeInv

LEMMA NextIInv == IInv /\ [Next]_vars => IInv'
BY NextTypes, NextSlots, NextDirectory, NextReplyReady, NextUndialled, NextReboots,
   NextExchange DEF IInv

LEMMA Invariance == Spec => []IInv
BY InitIInv, NextIInv, PTL DEF Spec

-----------------------------------------------------------------------------
(* What the invariant gives.                                               *)

\* Every variable of the daemon and of its clients keeps its type, for any
\* number of sessions; in particular slots never exceed the ceiling, and no
\* channel of one slot holds more.
THEOREM TypeCorrect == Spec => []TypeOK
<1>1. IInv => TypeOK
  <2> SUFFICES ASSUME IInv PROVE TypeOK
    OBVIOUS
  <2> USE DEF IInv, Types
  <2>1. \A s \in Sessions :
          /\ Len(farewell[s]) <= 1 /\ Len(reply[s]) <= 1 /\ Len(respCh[s]) <= 1
          /\ \A i \in DOMAIN respCh[s] : respCh[s][i] \in Answers
    BY SlotFacts DEF DirectoryTypes, ServerTypes, ClientTypes
  <2>2. slots \in 0..ceiling
    BY FS_CardinalityType, CeilingIsPositive DEF SlotInv
  <2>3. {disk, canonical} \subseteq 0..MaxWrites
    BY DEF StateTypes
  <2>4. /\ up \in [Sessions -> Seq(Messages)]
        /\ down \in [Sessions -> Seq(Answers \cup Farewells)]
        /\ cliOpen \in [Sessions -> BOOLEAN] /\ srvOpen \in [Sessions -> BOOLEAN]
    BY DEF ConnTypes
  <2>5. QED
    BY <2>1, <2>2, <2>3, <2>4 DEF TypeOK, Places, DirectoryTypes, ServerTypes,
       StateTypes, ClientTypes
<1>2. QED
  BY Invariance, <1>1, PTL

\* However its connection ends, every connection being served holds one slot,
\* and no other holds any.
THEOREM SlotsTheorem == Spec => []SlotsExact
<1>1. IInv => SlotsExact
  BY DEF IInv, SlotInv, InService, SlotsExact
<1>2. QED
  BY Invariance, <1>1, PTL

\* The directory lists no session whose connection has ended.
THEOREM DirectoryTheorem == Spec => []DirectoryIsServed
<1>1. IInv => DirectoryIsServed
  BY DEF IInv
<1>2. QED
  BY Invariance, <1>1, PTL

\* Although nothing ties an answer to its call, what the read loop hands over
\* is the answer to the call in progress.
THEOREM AnswerTheorem == Spec => []AnswerIsForCall
<1>1. IInv => AnswerIsForCall
  <2> SUFFICES ASSUME IInv, NEW s \in Sessions, respCh[s] # <<>>, ~Done(s)
               PROVE  InCall(s) /\ Head(respCh[s]).kind = want[s]
    BY DEF AnswerIsForCall
  <2>1. Live(s) /\ Handed(s) /\ Orderly(s)
    BY DEF IInv, ExchangeInv, Orderly, Live, Handed
  <2>2. InCall(s) /\ respCh[s][1].kind = want[s]
    BY <2>1 DEF Orderly, Exchange, Wanted
  <2>3. Head(respCh[s]) = respCh[s][1]
    BY SlotFacts DEF IInv, Types, ClientTypes
  <2>4. QED
    BY <2>2, <2>3
<1>2. QED
  BY Invariance, <1>1, PTL

\* A client that was told its request succeeded: the daemon did it.
THEOREM OkTheorem == Spec => []OkMeansDone
<1>1. IInv => OkMeansDone
  <2> SUFFICES ASSUME IInv, NEW s \in Sessions, cl[s] = "idle", ~Done(s),
                      result[s] = "ok",
                      want[s] \in {"Disconnect", "Reboot"}
               PROVE  s \in granted
    BY DEF OkMeansDone
  <2>1. Live(s) /\ Orderly(s)
    BY DEF IInv, ExchangeInv, Orderly, Live
  <2>2. QED
    BY <2>1 DEF Orderly, Exchange, Honest
<1>2. QED
  BY Invariance, <1>1, PTL

\* What the farewell channel of a client has been given is never replaced.
THEOREM ToldTheorem == Spec => ToldOnce
<1>1. IInv /\ [Next]_vars => [\A s \in Sessions : Done(s) => told'[s] = told[s]]_vars
  BY NextTold DEF IInv
<1>2. QED
  BY Invariance, <1>1, PTL DEF Spec, ToldOnce

\* However many reboots overlap, the canonical state goes back only to what a
\* reboot read before another installed its own.
THEOREM OlderTheorem == Spec => OlderOnlyIfOvertaken
<1>1. IInv /\ [Next]_vars =>
        [canonical' < canonical => \E r \in overtaken : canonical' = loaded[r]]_vars
  BY NextOlder DEF IInv
<1>2. QED
  BY Invariance, <1>1, PTL DEF Spec, OlderOnlyIfOvertaken

-----------------------------------------------------------------------------
(* Where nobody can move, nobody waits.                                    *)

\* The accept loop: whoever is queued is queued at an open listener, and a
\* goroutine that has returned has closed its end.
Listens ==
  /\ listening <=> sig \notin {"ended", "exited"}
  /\ \A s \in Sessions :
       /\ srv[s] = "queued" => listening
       /\ srv[s] = "none" => cl[s] = "off"
       /\ srv[s] = "gone" \/ sig = "exited" => ~srvOpen[s]
       /\ srv[s] = "gone" /\ cl[s] = "off" => sig = "exited"

\* A watcher runs while the loop does, and stops when the loop does or after
\* it has closed the connection.
InLoop == {"loop", "replace", "reply", "broadcast"}
Watched(s) ==
  /\ srv[s] \in InLoop => watcher[s] # "none"
  /\ watcher[s] # "none" => srv[s] \in InLoop \/ LoopOver(s)
  /\ watcher[s] = "done" => ~srvOpen[s] \/ LoopOver(s)

\* A client that is told, or about to be, is parting from a daemon that has
\* closed its end or is about to; until then somebody reads for it.
Parting(s) == ~srvOpen[s] \/ watcher[s] = "close"
Told(s) ==
  /\ Done(s) /\ cliOpen[s] => Parting(s)
  /\ Has(down[s], {"Farewell"}) => Parting(s)
  /\ InCall(s) \/ cl[s] = "idle" => Done(s) \/ reader[s] = "receive"

\* A call in progress is somewhere, as long as there is somebody to answer it.
Owed(s) ==
  InCall(s) /\ Live(s) /\ srvOpen[s] =>
    Asked(s) \/ Serving(s) \/ Answered(s) \/ Handed(s) \/ LoopOver(s)

RestInv == Listens /\ \A s \in Sessions : Watched(s) /\ Told(s) /\ Owed(s)

\* An end that is closed stays closed.
LEMMA EndsClose ==
  ASSUME Types, [Next]_vars, NEW c \in Sessions
  PROVE  (cliOpen'[c] => cliOpen[c]) /\ (srvOpen'[c] => srvOpen[c])
<1> USE DEF Types, ConnTypes
<1>1. ASSUME NEW s \in Sessions, Request(s) \/ ClientStep(s)
      PROVE  (cliOpen'[c] => cliOpen[c]) /\ srvOpen' = srvOpen
  <2>1. ASSUME NEW m, NEW place, NEW failed, BeginCall(s, m, place, failed)
        PROVE  (cliOpen'[c] => cliOpen[c]) /\ srvOpen' = srvOpen
    BY <2>1 DEF BeginCall, CloseClientEnd
  <2>2. CASE Request(s)
    BY <2>1, <2>2 DEF Request, StartCall
  <2>3. CASE Greeted(s)
    BY <2>1, <2>3 DEF Greeted, SendHello
  <2>4. CASE CallAnswered(s) \/ CallEnded(s) \/ DialFails(s) \/ Crash(s)
    BY <2>4 DEF CallAnswered, CallEnded, DialFails, Crash, CloseClientEnd
  <2>5. CASE Read(s) \/ ReadFails(s) \/ SendAudit(s) \/ CloseClient(s)
    BY <2>5 DEF Read, ReadFails, SendAudit, CloseClient, CloseClientEnd, connVars
  <2>6. QED
    BY <1>1, <2>2, <2>3, <2>4, <2>5 DEF ClientStep, Log, ClientReturns, ClientReads
<1>2. ASSUME NEW s \in Sessions, ServerStep(s) \/ Dial(s)
      PROVE  cliOpen' = cliOpen /\ (srvOpen'[c] => srvOpen[c])
  <2>1. CASE Serve(s)
    BY <2>1 DEF Serve, Hello, NoHello, Greet, ReceiveFails, Goodbye, AuditEvent, ListUsers,
       Refuse, DisconnectUser, RebootRequest, ReplaceState, SendReply, RebootBroadcast,
       DeferredUnregister, DeferredClose, CloseServerEnd, connVars
  <2>2. CASE Watch(s)
    BY <2>2 DEF Watch, WatcherTakes, WatcherDone, WatcherSends, WatcherCloses, WatchFrame,
       CloseServerEnd
  <2>3. CASE AcceptLoop(s) \/ Dial(s)
    BY <2>3 DEF AcceptLoop, Accept, HandshakeDone, HandshakeFails, Dial, CloseServerEnd,
       connVars
  <2>4. QED
    BY <1>2, <2>1, <2>2, <2>3 DEF ServerStep
<1>3. CASE WriteDisk \/ UNCHANGED vars
  BY <1>3 DEF WriteDisk, vars, connVars
<1>4. CASE ProcessStep
  BY <1>4 DEF ProcessStep, SignalStep, SighupReload, SighupReplace, SighupBroadcast,
     ShutdownBroadcast, ShutdownClose, ProcessExit, SigFrame, CloseServerEnd
<1>5. QED
  BY <1>1, <1>2, <1>3, <1>4, Steps

\* What a step does to where the daemon is with c.
LEMMA ServerMoves ==
  ASSUME Types, ReplyReady, DirectoryIsServed, [Next]_vars, NEW c \in Sessions
  PROVE  \/ srv'[c] = srv[c]
         \/ Dial(c) /\ srv'[c] = "queued"
         \/ srv'[c] \notin {"none", "queued", "gone"} /\ srv[c] \notin {"none", "gone"}
         \/ /\ srv'[c] = "gone" /\ ~srvOpen'[c]
            /\ srv[c] = "none" => sig' = "exited"
<1> USE DEF Types, ConnTypes, ServerTypes
<1>1. ASSUME NEW s \in Sessions, ServerStep(s), srv'[c] # srv[c]
      PROVE  \/ srv'[c] \notin {"none", "queued", "gone"} /\ srv[c] \notin {"none", "gone"}
             \/ srv'[c] = "gone" /\ ~srvOpen'[c] /\ srv[c] # "none"
  <2>1. CASE DeferredClose(s)
    BY <1>1, <2>1 DEF DeferredClose, ServeFrame, Goto, CloseServerEnd
  <2>2. CASE Serve(s) /\ ~DeferredClose(s)
    BY <1>1, <2>2, ServeMoves DEF Served, Attending
  <2>3. CASE Watch(s)
    BY <1>1, <2>3 DEF Watch, WatcherTakes, WatcherDone, WatcherSends, WatcherCloses,
       WatchFrame
  <2>4. CASE AcceptLoop(s)
    <3>1. c = s /\ srv[s] \in {"queued", "handshake"}
      BY <1>1, <2>4 DEF AcceptLoop, Accept, HandshakeDone, HandshakeFails, Goto
    <3>2. \/ srv'[s] \in {"handshake", "hello"}
          \/ srv'[s] = "gone" /\ CloseServerEnd({s})
      BY <2>4 DEF AcceptLoop, Accept, HandshakeDone, HandshakeFails, Goto
    <3>3. CloseServerEnd({s}) => ~srvOpen'[s]
      BY DEF CloseServerEnd
    <3>4. QED
      BY <3>1, <3>2, <3>3
  <2>5. QED
    BY <1>1, <2>1, <2>2, <2>3, <2>4 DEF ServerStep
<1>2. ASSUME NEW s \in Sessions, Request(s) \/ ClientStep(s) PROVE srv'[c] = srv[c]
  BY <1>2, ClientsKeep DEF Request, serverVars
<1>3. ASSUME NEW s \in Sessions, Dial(s)
      PROVE  srv'[c] = srv[c] \/ (Dial(c) /\ srv'[c] = "queued")
  BY <1>3 DEF Dial, Goto
<1>4. CASE WriteDisk \/ UNCHANGED vars
  BY <1>4 DEF WriteDisk, vars, serverVars
<1>5. CASE ProcessStep
  BY <1>5 DEF ProcessStep, SignalStep, SighupReload, SighupReplace, SighupBroadcast,
     ShutdownBroadcast, ShutdownClose, ProcessExit, CloseServerEnd, AllEnds
<1>6. QED
  BY <1>1, <1>2, <1>3, <1>4, <1>5, Steps

\* Who dials has not dialled, and only dialling is a client's first step.
LEMMA ClientStarts ==
  ASSUME Types, [Next]_vars, NEW c \in Sessions, ~Dial(c)
  PROVE  cl'[c] = "off" <=> cl[c] = "off"
<1> USE DEF Types, ClientTypes
<1>1. ASSUME NEW s \in Sessions, Request(s) \/ ClientStep(s) PROVE cl'[c] = "off" <=> cl[c] = "off"
  <2>1. ASSUME NEW m, NEW place, NEW failed, BeginCall(s, m, place, failed), cl[s] # "off",
               place \in {"hello", "call"}, failed \in {"over", "idle"}
        PROVE  cl'[c] = "off" <=> cl[c] = "off"
    BY <2>1 DEF BeginCall
  <2>2. CASE Request(s)
    BY <2>1, <2>2 DEF Request, StartCall
  <2>3. CASE Greeted(s)
    BY <2>1, <2>3 DEF Greeted, SendHello
  <2>4. CASE CallAnswered(s) \/ CallEnded(s) \/ DialFails(s) \/ Crash(s)
    BY <2>4 DEF CallAnswered, CallEnded, DialFails, Crash, InCall
  <2>5. CASE Read(s) \/ ReadFails(s) \/ SendAudit(s) \/ CloseClient(s)
    BY <2>5 DEF Read, ReadFails, SendAudit, CloseClient
  <2>6. QED
    BY <1>1, <2>2, <2>3, <2>4, <2>5 DEF ClientStep, Log, ClientReturns, ClientReads
<1>2. ASSUME NEW s \in Sessions, ServerStep(s) PROVE cl' = cl
  BY <1>2 DEF ServerStep, clientVars
<1>3. ASSUME NEW s \in Sessions, Dial(s) PROVE cl'[c] = "off" <=> cl[c] = "off"
  BY <1>3 DEF Dial
<1>4. WriteDisk \/ ProcessStep \/ UNCHANGED vars => cl' = cl
  BY DEF WriteDisk, ProcessStep, vars, clientVars
<1>5. QED
  BY <1>1, <1>2, <1>3, <1>4, Steps

\* Only the signal goroutine moves itself and closes the listener.
LEMMA SignalMoves ==
  ASSUME [Next]_vars, ~ProcessStep
  PROVE  UNCHANGED <<listening, sig>>
<1>1. ASSUME NEW s \in Sessions, Request(s) \/ ClientStep(s) PROVE UNCHANGED <<listening, sig>>
  BY <1>1, ClientsKeep DEF Request, serverVars, acceptVars
<1>2. ASSUME NEW s \in Sessions, ServerStep(s) PROVE UNCHANGED <<listening, sig>>
  BY <1>2 DEF ServerStep, Serve, Hello, NoHello, Greet, ReceiveFails, Goodbye, AuditEvent,
     ListUsers, Refuse, DisconnectUser, RebootRequest, ReplaceState, SendReply,
     RebootBroadcast, DeferredUnregister, DeferredClose, ServeFrame, Watch, WatcherTakes,
     WatcherDone, WatcherSends, WatcherCloses, WatchFrame, AcceptLoop, Accept,
     HandshakeDone, HandshakeFails, acceptVars
<1>3. ASSUME NEW s \in Sessions, Dial(s) PROVE UNCHANGED <<listening, sig>>
  BY <1>3 DEF Dial, acceptVars
<1>4. WriteDisk \/ UNCHANGED vars => UNCHANGED <<listening, sig>>
  BY DEF WriteDisk, vars, serverVars, acceptVars
<1>5. QED
  BY <1>1, <1>2, <1>3, <1>4, Steps

LEMMA NextListens ==
  ASSUME Types, ReplyReady, DirectoryIsServed, Undialled, Listens, [Next]_vars
  PROVE  Listens'
<1>1. \/ UNCHANGED <<listening, sig>>
      \/ /\ ProcessStep
         /\ \/ listening' = listening /\ sig' \in {"wait", "replace", "broadcast", "drained"}
               /\ sig \in {"wait", "replace", "broadcast"}
            \/ /\ ~listening' /\ sig = "drained" /\ sig' = "ended"
               /\ \A c \in Sessions : srv'[c] # "queued"
            \/ /\ listening' = listening /\ sig = "ended" /\ sig' = "exited"
               /\ \A c \in Sessions : ~srvOpen'[c]
  <2>1. CASE SighupReload \/ SighupReplace \/ SighupBroadcast \/ ShutdownBroadcast
    BY <2>1, SignalMoves DEF SighupReload, SighupReplace, SighupBroadcast, ShutdownBroadcast,
       SigFrame, ProcessStep, SignalStep
  <2>2. CASE ProcessStep /\ ShutdownClose
    <3>1. \A c \in Sessions : srv'[c] # "queued"
      BY <2>2 DEF ShutdownClose
    <3>2. QED
      BY <2>2, <3>1 DEF ShutdownClose, SigFrame
  <2>3. CASE ProcessStep /\ ProcessExit
    BY <2>3 DEF ProcessExit, CloseServerEnd, AllEnds
  <2>4. QED
    BY <2>1, <2>2, <2>3, SignalMoves DEF ProcessStep, SignalStep
<1>2. (listening <=> sig \notin {"ended", "exited"})'
  BY <1>1 DEF Listens
<1>3. ASSUME NEW c \in Sessions
      PROVE  /\ srv'[c] = "queued" => listening'
             /\ srv'[c] = "none" => cl'[c] = "off"
             /\ srv'[c] = "gone" => ~srvOpen'[c]
             /\ srv'[c] = "gone" /\ cl'[c] = "off" => sig' = "exited"
  <2>1. CASE Dial(c)
    BY <2>1 DEF Listens, Dial, Goto, acceptVars, connVars, Types, ServerTypes
  <2>2. CASE ~Dial(c)
    <3>1. \/ srv'[c] = srv[c]
          \/ srv'[c] \notin {"none", "queued", "gone"}
          \/ /\ srv'[c] = "gone" /\ ~srvOpen'[c]
             /\ srv[c] = "none" => sig' = "exited"
      BY <2>2, ServerMoves
    <3>2. cl'[c] = "off" <=> cl[c] = "off"
      BY <2>2, ClientStarts
    <3>3. srv[c] = "gone" => ~srvOpen'[c]
      BY EndsClose DEF Listens
    <3>4. cl[c] = "off" => srv[c] \in {"none", "gone"}
      BY DEF Undialled
    <3>5. sig = "exited" => sig' = "exited"
      BY <1>1
    <3>6. QED
      BY <1>1, <3>1, <3>2, <3>3, <3>4, <3>5 DEF Listens
  <2>3. QED
    BY <2>1, <2>2
<1>4. ASSUME NEW c \in Sessions, sig' = "exited" PROVE ~srvOpen'[c]
  BY <1>1, <1>4, EndsClose DEF Listens
<1>5. QED
  BY <1>2, <1>3, <1>4 DEF Listens

\* A loop is entered by greeting, and left for good.
LEMMA LoopMoves ==
  ASSUME Types, ReplyReady, NEW s \in Sessions, Serve(s), ~Greet(s)
  PROVE  /\ watcher' = watcher
         /\ \A c \in Sessions :
              /\ srv'[c] \in InLoop => srv[c] \in InLoop
              /\ LoopOver(c) => LoopOver(c)'
              /\ srv[c] \in InLoop => srv'[c] \in InLoop \/ LoopOver(c)'
<1> USE DEF Types, ServerTypes, ServeFrame, Goto, InLoop, LoopOver
<1>1. CASE Hello(s) \/ NoHello(s) \/ ReceiveFails(s) \/ Goodbye(s) \/ AuditEvent(s)
  BY <1>1 DEF Hello, NoHello, ReceiveFails, Goodbye, AuditEvent, Takes
<1>2. CASE ListUsers(s) \/ \E kind : Refuse(s, kind)
  BY <1>2 DEF ListUsers, Refuse, Takes
<1>3. CASE DisconnectUser(s) \/ RebootRequest(s) \/ ReplaceState(s) \/ RebootBroadcast(s)
  BY <1>3 DEF DisconnectUser, RebootRequest, ReplaceState, RebootBroadcast, Takes
<1>4. CASE SendReply(s)
  <2>1. Head(reply[s]) \in Replies
    BY <1>4, SlotFacts DEF SendReply, ReplyReady
  <2>2. Head(reply[s]).sent \in {"loop", "broadcast"}
        /\ Head(reply[s]).failed \in {"loop", "leave"}
    BY <2>1 DEF Replies
  <2>3. QED
    BY <1>4, <2>2 DEF SendReply
<1>5. CASE DeferredUnregister(s) \/ DeferredClose(s)
  BY <1>5 DEF DeferredUnregister, DeferredClose
<1>6. QED
  BY <1>1, <1>2, <1>3, <1>4, <1>5 DEF Serve

LEMMA NextWatched ==
  ASSUME Types, ReplyReady, Undialled, Listens, [Next]_vars, NEW c \in Sessions, Watched(c)
  PROVE  Watched(c)' /\ (Parting(c) => Parting(c)')
<1> USE DEF Types, ServerTypes
<1>1. srvOpen'[c] => srvOpen[c]
  BY EndsClose
<1>2. ASSUME watcher'[c] = watcher[c], srv'[c] \in InLoop => srv[c] \in InLoop,
             LoopOver(c) => LoopOver(c)',
             srv[c] \in InLoop => srv'[c] \in InLoop \/ LoopOver(c)'
      PROVE  Watched(c)' /\ (Parting(c) => Parting(c)')
  BY <1>1, <1>2 DEF Watched, Parting, InLoop
<1>3. ASSUME NEW s \in Sessions, Serve(s), Greet(s)
      PROVE  Watched(c)' /\ (Parting(c) => Parting(c)')
  <2>1. CASE c = s
    <3>1. srv[c] = "greet" /\ srvOpen' = srvOpen
      BY <1>3, <2>1 DEF Greet
    <3>2. \/ srv'[c] = "loop" /\ watcher'[c] = "select" /\ srvOpen[c]
          \/ srv'[c] = "leave" /\ watcher'[c] = watcher[c]
      BY <1>3, <2>1 DEF Greet, ServeFrame, Goto, AfterFailedGreeting, CanSend
    <3>3. watcher[c] = "none"
      BY <3>1 DEF Watched, InLoop, LoopOver
    <3>4. QED
      BY <3>1, <3>2, <3>3 DEF Watched, Parting, LoopOver, InLoop
  <2>2. CASE c # s
    <3>1. watcher'[c] = watcher[c] /\ srv'[c] = srv[c]
      BY <1>3, <2>2 DEF Greet, ServeFrame, Goto
    <3>2. QED
      BY <1>2, <3>1 DEF LoopOver
  <2>3. QED
    BY <2>1, <2>2
<1>4. ASSUME NEW s \in Sessions, Watch(s)
      PROVE  Watched(c)' /\ (Parting(c) => Parting(c)')
  <2>1. srv' = srv
    BY <1>4 DEF Watch, WatcherTakes, WatcherDone, WatcherSends, WatcherCloses, WatchFrame
  <2>2. CASE c # s
    <3>1. watcher'[c] = watcher[c]
      BY <1>4, <2>2 DEF Watch, WatcherTakes, WatcherDone, WatcherSends, WatcherCloses,
         WatchFrame
    <3>2. QED
      BY <1>2, <2>1, <3>1 DEF LoopOver
  <2>3. CASE c = s
    <3>1. /\ watcher[c] # "none"
          /\ \/ watcher'[c] \in {"send", "close"} /\ watcher[c] # "close"
             \/ watcher'[c] = "done" /\ watcher[c] # "close" /\ LoopOver(c)
             \/ watcher'[c] = "done" /\ ~srvOpen'[c]
      <4>1. CASE WatcherTakes(s) \/ WatcherDone(s) \/ WatcherSends(s)
        BY <2>3, <4>1 DEF WatcherTakes, WatcherDone, WatcherSends, WatchFrame, SeesDone
      <4>2. CASE WatcherCloses(s)
        BY <2>3, <4>2 DEF WatcherCloses, WatchFrame, CloseServerEnd, ClosedByWatcher
      <4>3. QED
        BY <1>4, <4>1, <4>2 DEF Watch
    <3>2. srv'[c] = srv[c]
      BY <2>1
    <3>3. QED
      BY <1>1, <3>1, <3>2 DEF Watched, Parting, LoopOver, InLoop
  <2>4. QED
    BY <2>2, <2>3
<1>5. ASSUME NEW s \in Sessions, AcceptLoop(s)
      PROVE  Watched(c)' /\ (Parting(c) => Parting(c)')
  <2>1. /\ watcher' = watcher
        /\ \/ srv'[c] = srv[c] \/ srv'[c] = "gone"
           \/ srv'[c] \in {"handshake", "hello"} /\ srv[c] \in {"queued", "handshake"}
    <3>1. CASE Accept(s) \/ HandshakeFails(s)
      BY <3>1 DEF Accept, HandshakeFails, Goto
    <3>2. CASE HandshakeDone(s)
      BY <3>2 DEF HandshakeDone, Goto
    <3>3. QED
      BY <1>5, <3>1, <3>2 DEF AcceptLoop
  <2>2. QED
    BY <1>2, <2>1 DEF LoopOver, InLoop
<1>6. ASSUME NEW s \in Sessions, Dial(s)
      PROVE  Watched(c)' /\ (Parting(c) => Parting(c)')
  <2>1. /\ watcher' = watcher /\ srvOpen' = srvOpen
        /\ srv'[c] = srv[c] \/ srv'[c] = "queued"
    BY <1>6 DEF Dial, Goto, connVars
  <2>2. cl[s] = "off" /\ srv[s] = "none"
    BY <1>6 DEF Dial, Undialled, Listens
  <2>3. srv'[c] = srv[c] \/ srv[c] = "none"
    BY <1>6, <2>2 DEF Dial, Goto
  <2>4. QED
    BY <2>1, <2>3 DEF Watched, Parting, LoopOver, InLoop
<1>7. ASSUME NEW s \in Sessions, Request(s) \/ ClientStep(s)
      PROVE  watcher' = watcher /\ srv' = srv
  BY <1>7, ClientsKeep DEF Request, serverVars
<1>8. CASE WriteDisk \/ UNCHANGED vars
  BY <1>2, <1>8 DEF WriteDisk, vars, serverVars, LoopOver
<1>9. CASE ProcessStep
  <2>1. CASE ProcessExit
    BY <1>1, <2>1 DEF ProcessExit, Watched, Parting, LoopOver, InLoop, CloseServerEnd, AllEnds
  <2>2. CASE ~ProcessExit
    <3>1. watcher' = watcher /\ (srv'[c] = srv[c] \/ srv'[c] = "gone")
      BY <1>9, <2>2 DEF ProcessStep, SignalStep, SighupReload, SighupReplace,
         SighupBroadcast, ShutdownBroadcast, ShutdownClose, SigFrame
    <3>2. QED
      BY <1>2, <3>1 DEF LoopOver, InLoop
  <2>3. QED
    BY <2>1, <2>2
<1>10. ASSUME NEW s \in Sessions, Serve(s), ~Greet(s)
       PROVE  Watched(c)' /\ (Parting(c) => Parting(c)')
  BY <1>2, <1>10, LoopMoves
<1>11. QED
  BY <1>2, <1>3, <1>4, <1>5, <1>6, <1>7, <1>8, <1>9, <1>10, Steps DEF ServerStep, LoopOver

\* A farewell is on its way to nobody but the client of a watcher that closes.
LEMMA DownMoves ==
  ASSUME Types, ReplyReady, [Next]_vars, NEW c \in Sessions,
         Has(down'[c], {"Farewell"})
  PROVE  Has(down[c], {"Farewell"}) \/ watcher'[c] = "close"
<1> USE DEF Types, ConnTypes
<1>1. CASE Shorter(down'[c], down[c])
  BY <1>1, ShorterKeeps
<1>2. ASSUME NEW s \in Sessions, NEW k \in RequestKinds, NEW b \in BOOLEAN,
             SendDown(s, [kind |-> k, ok |-> b])
      PROVE  Has(down[c], {"Farewell"})
  <2> DEFINE m == [kind |-> k, ok |-> b]
  <2>1. m \in Answers \cup Farewells /\ m.kind # "Farewell"
    BY AnswerKinds DEF RequestKinds
  <2> HIDE DEF m
  <2>2. Has(Append(down[c], m), {"Farewell"}) <=> Has(down[c], {"Farewell"})
    <3>1. down[c] \in Seq(Answers \cup Farewells) /\ m.kind \notin {"Farewell"}
      BY <2>1
    <3>2. QED
      BY <2>1, <3>1, Appended
  <2>3. down'[c] = down[c] \/ down'[c] = Append(down[c], m)
    BY <1>2 DEF SendDown, m
  <2>4. QED
    BY <2>2, <2>3
<1>3. ASSUME NEW s \in Sessions, Serve(s)
      PROVE  \/ down' = down
             \/ \E k \in RequestKinds, b \in BOOLEAN : SendDown(s, [kind |-> k, ok |-> b])
  <2>1. CASE SendReply(s)
    <3>1. Head(reply[s]) \in Replies
      BY <2>1, SlotFacts DEF SendReply, ReplyReady, ServerTypes
    <3>2. Head(reply[s]).kind \in RequestKinds /\ Head(reply[s]).ok \in BOOLEAN
      BY <3>1 DEF Replies, RequestKinds
    <3>3. QED
      BY <2>1, <3>2 DEF SendReply
  <2>2. CASE Greet(s) \/ ListUsers(s)
    BY <2>2 DEF Greet, ListUsers, RequestKinds
  <2>3. ASSUME NEW kind \in {"Disconnect", "Reboot"}, Refuse(s, kind)
        PROVE  \E k \in RequestKinds, b \in BOOLEAN : SendDown(s, [kind |-> k, ok |-> b])
    BY <2>3 DEF Refuse, RequestKinds
  <2>4. CASE \/ Hello(s) \/ NoHello(s) \/ ReceiveFails(s) \/ Goodbye(s) \/ AuditEvent(s)
             \/ DisconnectUser(s) \/ RebootRequest(s) \/ ReplaceState(s)
             \/ RebootBroadcast(s) \/ DeferredUnregister(s) \/ DeferredClose(s)
    BY <2>4 DEF Hello, NoHello, ReceiveFails, Goodbye, AuditEvent, NoAnswer, DisconnectUser,
       RebootRequest, ReplaceState, RebootBroadcast, DeferredUnregister, DeferredClose,
       connVars
  <2>5. QED
    BY <1>3, <2>1, <2>2, <2>3, <2>4 DEF Serve
<1>4. ASSUME NEW s \in Sessions, Watch(s)
      PROVE  down'[c] = down[c] \/ (c = s /\ watcher'[c] = "close")
  <2>1. CASE WatcherSends(s)
    BY <2>1 DEF WatcherSends, WatchFrame, SendDown, ServerTypes
  <2>2. CASE ~WatcherSends(s)
    BY <1>4, <2>2 DEF Watch, WatcherTakes, WatcherDone, WatcherCloses
  <2>3. QED
    BY <2>1, <2>2
<1>5. ASSUME NEW s \in Sessions, Dial(s) \/ AcceptLoop(s) PROVE down' = down
  BY <1>5 DEF Dial, AcceptLoop, Accept, HandshakeDone, HandshakeFails, connVars
<1>6. WriteDisk \/ ProcessStep \/ UNCHANGED vars => down' = down
  BY DEF WriteDisk, ProcessStep, SignalStep, SighupReload, SighupReplace,
     SighupBroadcast, ShutdownBroadcast, ShutdownClose, ProcessExit, SigFrame, vars,
     connVars
<1>7. ASSUME NEW s \in Sessions, Request(s) \/ ClientStep(s)
      PROVE  Shorter(down'[c], down[c])
  <2>1. CloseClientEnd(s) => Shorter(down'[c], down[c])
    BY DEF CloseClientEnd, Shorter
  <2>2. down' = down => Shorter(down'[c], down[c])
    BY DEF Shorter
  <2>3. ASSUME NEW m, NEW place, NEW failed, BeginCall(s, m, place, failed)
        PROVE  down' = down \/ CloseClientEnd(s)
    BY <2>3 DEF BeginCall
  <2>4. CASE Request(s)
    BY <2>1, <2>2, <2>3, <2>4 DEF Request, StartCall
  <2>5. CASE Greeted(s)
    BY <2>1, <2>2, <2>3, <2>5 DEF Greeted, SendHello
  <2>6. CASE CallAnswered(s) \/ CallEnded(s) \/ DialFails(s) \/ Crash(s) \/ CloseClient(s)
    BY <2>1, <2>2, <2>6 DEF CallAnswered, CallEnded, DialFails, Crash, CloseClient
  <2>7. CASE Read(s)
    BY <2>7 DEF Read, Shorter
  <2>8. CASE ReadFails(s) \/ SendAudit(s)
    BY <2>2, <2>8 DEF ReadFails, SendAudit, connVars
  <2>9. QED
    BY <1>7, <2>4, <2>5, <2>6, <2>7, <2>8 DEF ClientStep, Log, ClientReturns, ClientReads
<1>8. QED
  BY <1>1, <1>2, <1>3, <1>4, <1>5, <1>6, <1>7, Steps DEF ServerStep

\* Who is told first: by a farewell, by an end that is closed, or by nobody.
LEMMA FirstTold ==
  ASSUME Types, [Next]_vars, NEW c \in Sessions, ~Done(c), Done(c)'
  PROVE  ~CanSend(c) \/ Has(down[c], {"Farewell"})
<1> USE DEF Types, ClientTypes
<1>1. ASSUME NEW s \in Sessions, NEW t, Fail(s, t) PROVE c = s
  BY <1>1 DEF Fail, Done
<1>2. ASSUME NEW s \in Sessions, Request(s) \/ ClientStep(s)
      PROVE  c = s /\ (~CanSend(s) \/ Has(down[s], {"Farewell"}))
  <2>1. ASSUME NEW m, NEW place, NEW failed, BeginCall(s, m, place, failed)
        PROVE  c = s /\ ~CanSend(s)
    BY <1>1, <2>1 DEF BeginCall, Done
  <2>2. CASE Request(s)
    BY <2>1, <2>2 DEF Request, StartCall
  <2>3. CASE Greeted(s)
    BY <2>1, <2>3 DEF Greeted, SendHello
  <2>4. CASE CallAnswered(s) \/ CallEnded(s) \/ DialFails(s) \/ Crash(s)
    BY <2>4 DEF CallAnswered, CallEnded, DialFails, Crash, Done
  <2>5. CASE Read(s)
    <3>1. told' # told
      BY DEF Done
    <3>2. /\ down[s] # <<>> /\ Head(down[s]).kind = "Farewell"
          /\ Fail(s, FarewellText(Head(down[s])))
      BY <2>5, <3>1 DEF Read
    <3>3. down[s] \in Seq(Answers \cup Farewells)
      BY DEF ConnTypes
    <3>4. Head(down[s]).kind \in {"Farewell"} => Has(down[s], {"Farewell"})
      BY <3>2, <3>3, TakenKeeps
    <3>5. QED
      BY <1>1, <3>2, <3>4
  <2>6. CASE ReadFails(s)
    BY <1>1, <2>6 DEF ReadFails, ClientReceiveFails, CanSend
  <2>7. CASE SendAudit(s) \/ CloseClient(s)
    BY <1>1, <2>7 DEF SendAudit, CloseClient, Done
  <2>8. QED
    BY <1>2, <2>2, <2>3, <2>4, <2>5, <2>6, <2>7
       DEF ClientStep, Log, ClientReturns, ClientReads
<1>3. ASSUME NEW s \in Sessions, Dial(s) \/ ServerStep(s) PROVE told' = told
  BY <1>3 DEF Dial, ServerStep, clientVars
<1>4. WriteDisk \/ ProcessStep \/ UNCHANGED vars => told' = told
  BY DEF WriteDisk, ProcessStep, vars, clientVars
<1>5. QED
  BY <1>2, <1>3, <1>4, Steps DEF Done

\* A client is greeted with a read loop running; it returns when it has told.
LEMMA ReaderMoves ==
  ASSUME Types, [Next]_vars, NEW c \in Sessions, InCall(c)' \/ cl'[c] = "idle"
  PROVE  \/ (InCall(c) \/ cl[c] = "idle") /\ reader'[c] = reader[c]
         \/ Done(c)' \/ reader'[c] = "receive"
<1> USE DEF Types, ClientTypes, InCall
<1>1. ASSUME NEW s \in Sessions, Request(s) \/ ClientStep(s)
      PROVE  \/ (InCall(c) \/ cl[c] = "idle") /\ reader'[c] = reader[c]
             \/ Done(c)' \/ reader'[c] = "receive"
  <2>1. CASE Request(s)
    BY <2>1 DEF Request, StartCall, BeginCall
  <2>2. CASE Greeted(s)
    BY <2>2 DEF Greeted, SendHello, BeginCall
  <2>3. CASE CallAnswered(s) \/ CallEnded(s)
    BY <2>3 DEF CallAnswered, CallEnded
  <2>4. CASE DialFails(s) \/ Crash(s) \/ CloseClient(s) \/ SendAudit(s)
    BY <2>4 DEF DialFails, Crash, CloseClient, SendAudit
  <2>5. CASE Read(s)
    <3>1. cl' = cl /\ \/ reader' = reader
                      \/ reader' = [reader EXCEPT ![s] = "returned"] /\ Done(s)'
      <4>1. ASSUME NEW m \in Farewells, Fail(s, FarewellText(m)) PROVE Done(s)'
        <5>1. FarewellText(m) # "none"
          BY <4>1, AnswerKinds DEF FarewellText, Texts
        <5>2. QED
          BY <4>1, <5>1, Failed
      <4>2. down[s] # <<>> => Head(down[s]) \in Answers \cup Farewells
        BY Taken DEF ConnTypes
      <4>3. QED
        BY <2>5, <4>1, <4>2, AnswerKinds DEF Read, ReadReturns, Done
    <3>2. QED
      BY <3>1
  <2>6. CASE ReadFails(s)
    BY <2>6, Failed DEF ReadFails, ReadReturns
  <2>7. QED
    BY <1>1, <2>1, <2>2, <2>3, <2>4, <2>5, <2>6
       DEF ClientStep, Log, ClientReturns, ClientReads
<1>2. ASSUME NEW s \in Sessions, Dial(s)
      PROVE  (InCall(c) \/ cl[c] = "idle") /\ reader'[c] = reader[c]
  BY <1>2 DEF Dial
<1>3. ASSUME NEW s \in Sessions, ServerStep(s) PROVE UNCHANGED <<cl, reader>>
  BY <1>3 DEF ServerStep, clientVars
<1>4. WriteDisk \/ ProcessStep \/ UNCHANGED vars => UNCHANGED <<cl, reader>>
  BY DEF WriteDisk, ProcessStep, vars, clientVars
<1>5. QED
  BY <1>1, <1>2, <1>3, <1>4, Steps

LEMMA NextToldFor ==
  ASSUME Types, ReplyReady, Undialled, Listens, [Next]_vars,
         NEW c \in Sessions, Watched(c), Told(c)
  PROVE  Told(c)'
<1>1. Parting(c) => Parting(c)'
  BY NextWatched
<1>2. Has(down'[c], {"Farewell"}) => Parting(c)'
  BY <1>1, DownMoves DEF Told, Parting
<1>3. Done(c)' /\ cliOpen'[c] => Parting(c)'
  BY <1>1, FirstTold, EndsClose DEF Told, CanSend, Parting
<1>4. Done(c) => Done(c)'
  BY NextTold DEF Done
<1>5. (InCall(c) \/ cl[c] = "idle" => Done(c) \/ reader[c] = "receive")'
  BY <1>4, ReaderMoves DEF Told
<1>6. QED
  BY <1>2, <1>3, <1>5 DEF Told

\* What was sent down arrives, whatever else is on its way.
LEMMA AnswersWait ==
  ASSUME Types, NEW s \in Sessions, NEW m \in Answers \cup Farewells, SendDown(s, m)
  PROVE  /\ \A c \in Sessions : Answered(c) => Answered(c)'
         /\ CanSend(s) /\ m.kind \in RequestKinds => Answered(s)'
<1> USE DEF Types, ConnTypes, Answered
<1>1. \A c \in Sessions :
        /\ Has(Append(down[c], m), RequestKinds) <=>
             Has(down[c], RequestKinds) \/ m.kind \in RequestKinds
  <2>1. ASSUME NEW c \in Sessions
        PROVE  Has(Append(down[c], m), RequestKinds) <=>
                 Has(down[c], RequestKinds) \/ m.kind \in RequestKinds
    <3>1. down[c] \in Seq(Answers \cup Farewells)
      OBVIOUS
    <3>2. QED
      BY <3>1, Appended
  <2>2. QED
    BY <2>1
<1>2. \A c \in Sessions : down'[c] = down[c] \/ down'[c] = Append(down[c], m)
  BY DEF SendDown
<1>3. CanSend(s) => down'[s] = Append(down[s], m)
  BY DEF SendDown
<1>4. QED
  BY <1>1, <1>2, <1>3

\* The place a call has reached.
Reached(c) == Asked(c) \/ Serving(c) \/ Answered(c) \/ Handed(c) \/ LoopOver(c)

\* serveConnection hands a request on, to the queue of answers in the end.
LEMMA ServeOwed ==
  ASSUME Types, ReplyReady, NEW s \in Sessions, Serve(s), UNCHANGED clientVars,
         Live(s), srvOpen'[s], srvOpen[s], Reached(s)
  PROVE  Reached(s)'
<1> USE DEF Reached
<1>1. CanSend(s)
  BY DEF Live, CanSend
<1>2. CASE Hello(s) \/ DisconnectUser(s) \/ RebootRequest(s) \/ ReplaceState(s)
  <2>1. srv'[s] \in {"greet", "replace", "reply"}
    BY <1>2 DEF Hello, DisconnectUser, RebootRequest, ReplaceState, ServeFrame, Goto, Types,
       ServerTypes
  <2>2. QED
    BY <2>1 DEF Serving
<1>3. CASE NoHello(s)
  BY <1>3 DEF NoHello, ServerReceiveFails, Live
<1>4. CASE Greet(s) \/ ListUsers(s)
  <2>1. PICK k \in {"Hello", "ListUsers"} : SendDown(s, [kind |-> k, ok |-> TRUE])
    BY <1>4 DEF Greet, ListUsers
  <2>2. /\ [kind |-> k, ok |-> TRUE] \in Answers \cup Farewells
        /\ [kind |-> k, ok |-> TRUE].kind \in RequestKinds
    BY AnswerKinds DEF RequestKinds
  <2>3. Answered(s)'
    BY <1>1, <2>1, <2>2, AnswersWait
  <2>4. QED
    BY <2>3
<1>5. ASSUME NEW kind \in {"Disconnect", "Reboot"}, Refuse(s, kind) PROVE Reached(s)'
  <2>1. SendDown(s, [kind |-> kind, ok |-> FALSE])
    BY <1>5 DEF Refuse
  <2>2. /\ [kind |-> kind, ok |-> FALSE] \in Answers \cup Farewells
        /\ [kind |-> kind, ok |-> FALSE].kind \in RequestKinds
    BY AnswerKinds DEF RequestKinds
  <2>3. Answered(s)'
    BY <1>1, <2>1, <2>2, AnswersWait
  <2>4. QED
    BY <2>3
<1>6. CASE SendReply(s)
  <2> DEFINE r == Head(reply[s])
  <2>1. r \in Replies
    BY <1>6, SlotFacts DEF SendReply, ReplyReady, Types, ServerTypes
  <2>2. r.kind \in RequestKinds /\ r.ok \in BOOLEAN
    BY <2>1 DEF Replies, RequestKinds
  <2>3. SendDown(s, [kind |-> r.kind, ok |-> r.ok])
    BY <1>6 DEF SendReply
  <2> HIDE DEF r
  <2>4. [kind |-> r.kind, ok |-> r.ok] \in Answers \cup Farewells
    BY <2>2, AnswerKinds
  <2>5. Answered(s)'
    BY <1>1, <2>2, <2>3, <2>4, AnswersWait
  <2>6. QED
    BY <2>5
<1>7. CASE ReceiveFails(s) \/ Goodbye(s) \/ DeferredUnregister(s) \/ DeferredClose(s)
  <2>1. srv'[s] \in {"leave", "close", "gone"}
    BY <1>7 DEF ReceiveFails, Goodbye, DeferredUnregister, DeferredClose, ServeFrame, Goto,
       Types, ServerTypes
  <2>2. QED
    BY <2>1 DEF LoopOver
<1>8. CASE AuditEvent(s)
  <2>1. /\ srv[s] = "loop" /\ up[s] # <<>> /\ Head(up[s]).kind = "Audit"
        /\ up' = [up EXCEPT ![s] = Tail(@)] /\ down' = down
    BY <1>8 DEF AuditEvent, Takes, NoAnswer
  <2>2. ~Serving(s) /\ ~LoopOver(s)
    BY <2>1 DEF Serving, LoopOver
  <2>3. up[s] \in Seq(Messages) /\ up'[s] = Tail(up[s])
    BY <2>1 DEF Types, ConnTypes
  <2>4. Asked(s) => Asked(s)'
    <3> SUFFICES ASSUME NEW i \in 1..Len(up[s]), up[s][i].kind \in RequestKinds
                 PROVE  Has(Tail(up[s]), RequestKinds)
      BY <2>3 DEF Asked, Has
    <3>1. i # 1
      BY <2>1, <2>3 DEF RequestKinds
    <3>2. i - 1 \in 1..Len(Tail(up[s])) /\ Tail(up[s])[i - 1] = up[s][i]
      BY <2>1, <2>3, <3>1
    <3>3. QED
      BY <3>2 DEF Has
  <2>5. (Answered(s) => Answered(s)') /\ (Handed(s) => Handed(s)')
    BY <2>1 DEF Answered, Handed, clientVars
  <2>6. QED
    BY <2>2, <2>4, <2>5
<1>9. CASE RebootBroadcast(s)
  BY <1>9 DEF RebootBroadcast, Asked, Serving, Answered, Handed, LoopOver, connVars,
     clientVars
<1>10. QED
  BY <1>2, <1>3, <1>4, <1>5, <1>6, <1>7, <1>8, <1>9 DEF Serve

LEMMA NextOwed ==
  ASSUME Types, ReplyReady, DirectoryIsServed, [Next]_vars, NEW c \in Sessions, Owed(c)
  PROVE  Owed(c)'
<1> SUFFICES ASSUME InCall(c)', Live(c)', srvOpen'[c] PROVE Reached(c)'
  BY DEF Owed, Reached
<1>1. Live(c) /\ srvOpen[c] /\ CanSend(c)
  BY EndsClose, NextTold DEF Live, Done, CanSend
<1>2. InCall(c) => Reached(c)
  BY <1>1 DEF Owed, Reached
<1>3. ASSUME InCall(c), up'[c] = up[c], respCh'[c] = respCh[c], Answered(c) => Answered(c)',
             Serving(c) \/ LoopOver(c) => srv'[c] = srv[c]
      PROVE  Reached(c)'
  BY <1>2, <1>3 DEF Reached, Asked, Serving, Handed, LoopOver
<1>4. ASSUME NEW s \in Sessions, Request(s) \/ ClientStep(s) PROVE Reached(c)'
  <2>1. UNCHANGED srv
    BY <1>4, ClientsKeep DEF Request, serverVars
  <2>2. \/ SendHello(s) \/ CallAnswered(s) \/ CallEnded(s) \/ DialFails(s)
        \/ Read(s) \/ ReadFails(s) \/ SendAudit(s) \/ CloseClient(s) \/ Crash(s)
        \/ \E m \in Requests : StartCall(s, m)
    BY <1>4 DEF Request, ClientStep, Log, ClientReturns, ClientReads, Greeted
  <2>3. CASE c # s
    <3>1. up'[c] = up[c] /\ down'[c] = down[c] /\ ClientSame(c)
      BY <2>2, <2>3, ClientAlone
    <3>2. QED
      BY <1>3, <2>1, <3>1 DEF ClientSame, Answered, InCall
  <2>4. CASE c = s
    <3>1. ASSUME NEW m \in Messages, m.kind \in RequestKinds, NEW place, NEW failed,
                 BeginCall(s, m, place, failed)
          PROVE  Asked(s)'
      <4>1. up'[s] = Append(up[s], m) /\ up[s] \in Seq(Messages)
        BY <1>1, <2>4, <3>1 DEF BeginCall, SendUp, Types, ConnTypes
      <4>2. Has(Append(up[s], m), RequestKinds)
        BY <3>1, <4>1, Appended
      <4>3. QED
        BY <4>1, <4>2 DEF Asked
    <3>2. CASE SendHello(s)
      <4>1. [kind |-> "Hello"] \in Messages /\ [kind |-> "Hello"].kind \in RequestKinds
        BY MessageKinds DEF RequestKinds
      <4>2. QED
        BY <2>4, <3>1, <3>2, <4>1 DEF SendHello, Reached
    <3>3. CASE \E m \in Requests : StartCall(s, m)
      <4>1. PICK m \in Requests : StartCall(s, m)
        BY <3>3
      <4>2. m \in Messages /\ m.kind \in RequestKinds
        BY MessageKinds DEF RequestKinds
      <4>3. QED
        BY <2>4, <3>1, <4>1, <4>2 DEF StartCall, Reached
    <3>4. CASE CallAnswered(s) \/ CallEnded(s)
      <4>1. cl'[s] \in {"over", "idle"}
        BY <3>4 DEF CallAnswered, CallEnded, Types, ClientTypes
      <4>2. QED
        BY <2>4, <4>1 DEF InCall
    <3>5. CASE DialFails(s) \/ CloseClient(s) \/ Crash(s) \/ SendAudit(s)
      <4>1. cl'[s] \in {"over", "idle", "dead"}
        BY <3>5 DEF DialFails, CloseClient, Crash, SendAudit, Types, ClientTypes
      <4>2. QED
        BY <2>4, <4>1 DEF InCall
    <3>6. CASE ReadFails(s)
      BY <2>4, <3>6, Failed DEF ReadFails
    <3>7. CASE Read(s)
      <4>1. ASSUME NEW m \in Farewells, Fail(s, FarewellText(m)) PROVE FALSE
        <5>1. FarewellText(m) # "none"
          BY <4>1, AnswerKinds DEF FarewellText, Texts
        <5>2. QED
          BY <2>4, <4>1, <5>1, Failed
      <4>2. down[s] # <<>> => Head(down[s]) \in Answers \cup Farewells
        BY Taken DEF Types, ConnTypes
      <4>3. respCh' = [respCh EXCEPT ![s] = <<Head(down[s])>>]
        BY <1>1, <2>4, <3>7, <4>1, <4>2, AnswerKinds DEF Read, Live
      <4>4. respCh'[s] # <<>>
        BY <4>3 DEF Types, ClientTypes
      <4>5. QED
        BY <2>4, <4>4 DEF Reached, Handed
    <3>8. QED
      BY <2>2, <3>2, <3>3, <3>4, <3>5, <3>6, <3>7
  <2>5. QED
    BY <2>3, <2>4
<1>5. ASSUME NEW s \in Sessions, Serve(s), UNCHANGED clientVars PROVE Reached(c)'
  <2>1. CASE c = s
    <3>1. InCall(c)
      BY <1>5 DEF InCall, clientVars
    <3>2. QED
      BY <1>1, <1>2, <1>5, <2>1, <3>1, ServeOwed
  <2>2. CASE c # s
    <3>1. Passed(c) /\ srv'[c] = srv[c] /\ up'[c] = up[c]
      BY <1>5, <2>2, ServeAlone
    <3>2. QED
      BY <1>3, <3>1 DEF Passed, ClientSame, Answered, InCall
  <2>3. QED
    BY <2>1, <2>2
<1>6. ASSUME NEW s \in Sessions, Watch(s), UNCHANGED clientVars PROVE Reached(c)'
  <2>1. srv' = srv /\ respCh' = respCh /\ InCall(c)
    BY <1>6 DEF Watch, WatcherTakes, WatcherDone, WatcherSends, WatcherCloses, WatchFrame,
       clientVars, InCall
  <2>2. up'[c] = up[c]
    <3>1. CASE WatcherCloses(s)
      BY <3>1 DEF WatcherCloses, CloseServerEnd, ClosedByWatcher
    <3>2. CASE ~WatcherCloses(s)
      BY <1>6, <3>2 DEF Watch, WatcherTakes, WatcherDone, WatcherSends
    <3>3. QED
      BY <3>1, <3>2
  <2>3. Answered(c) => Answered(c)'
    <3>1. CASE WatcherSends(s)
      <4>1. [kind |-> "Farewell", text |-> text[s]] \in Farewells
        BY AnswerKinds DEF Types, ServerTypes
      <4>2. QED
        BY <3>1, <4>1, AnswersWait DEF WatcherSends
    <3>2. CASE ~WatcherSends(s)
      BY <1>6, <3>2 DEF Watch, WatcherTakes, WatcherDone, WatcherCloses, Answered
    <3>3. QED
      BY <3>1, <3>2
  <2>4. QED
    BY <1>3, <2>1, <2>2, <2>3
<1>7. ASSUME NEW s \in Sessions, AcceptLoop(s), UNCHANGED clientVars PROVE Reached(c)'
  <2>1. down' = down /\ respCh' = respCh /\ InCall(c)
    BY <1>7 DEF AcceptLoop, Accept, HandshakeDone, HandshakeFails, connVars, clientVars,
       InCall
  <2>2. up'[c] = up[c]
    BY <1>7 DEF AcceptLoop, Accept, HandshakeDone, HandshakeFails, connVars, CloseServerEnd
  <2>3. Serving(c) \/ LoopOver(c) => srv'[c] = srv[c]
    BY <1>7 DEF AcceptLoop, Accept, HandshakeDone, HandshakeFails, Goto, Serving, LoopOver,
       Types, ServerTypes
  <2>4. QED
    BY <1>3, <2>1, <2>2, <2>3 DEF Answered
<1>8. ASSUME NEW s \in Sessions, Dial(s) PROVE Reached(c)'
  <2>1. /\ UNCHANGED <<up, down, respCh>> /\ cl' = [cl EXCEPT ![s] = "dial"]
        /\ srv' = [srv EXCEPT ![s] = "queued"]
    BY <1>8 DEF Dial, Goto, connVars
  <2>2. c # s
    BY <2>1 DEF InCall, Types, ClientTypes
  <2>3. srv'[c] = srv[c] /\ cl'[c] = cl[c]
    BY <2>1, <2>2 DEF Types, ServerTypes, ClientTypes
  <2>4. QED
    BY <1>3, <2>1, <2>3 DEF Answered, InCall
<1>9. CASE WriteDisk \/ UNCHANGED vars
  <2>1. UNCHANGED <<up, down, respCh, srv, cl>>
    BY <1>9 DEF WriteDisk, vars, connVars, serverVars, clientVars
  <2>2. QED
    BY <1>3, <2>1 DEF Answered, InCall
<1>10. CASE ProcessStep
  <2>1. down' = down /\ respCh' = respCh /\ InCall(c)
    BY <1>10 DEF ProcessStep, SignalStep, SighupReload, SighupReplace, SighupBroadcast,
       ShutdownBroadcast, ShutdownClose, ProcessExit, SigFrame, clientVars, InCall
  <2>2. CASE ProcessExit
    BY <2>2 DEF ProcessExit, CloseServerEnd, AllEnds
  <2>3. CASE ~ProcessExit
    <3>1. up'[c] = up[c]
      BY <1>10, <2>3 DEF ProcessStep, SignalStep, SighupReload, SighupReplace,
         SighupBroadcast, ShutdownBroadcast, ShutdownClose, CloseServerEnd
    <3>2. Serving(c) \/ LoopOver(c) => srv'[c] = srv[c]
      BY <1>10, <2>3 DEF ProcessStep, SignalStep, SighupReload, SighupReplace,
         SighupBroadcast, ShutdownBroadcast, ShutdownClose, Serving, LoopOver
    <3>3. QED
      BY <1>3, <2>1, <3>1, <3>2 DEF Answered
  <2>4. QED
    BY <2>2, <2>3
<1>11. QED
  BY <1>4, <1>5, <1>6, <1>7, <1>8, <1>9, <1>10, Steps DEF ServerStep

LEMMA InitRest == Init => RestInv
<1> SUFFICES ASSUME Init PROVE RestInv
  OBVIOUS
<1>1. /\ listening /\ sig = "wait"
      /\ \A s \in Sessions :
           /\ srv[s] = "none" /\ cl[s] = "off" /\ watcher[s] = "none" /\ told[s] = "none"
           /\ down[s] = <<>>
  BY DEF Init, ServerInit, ClientInit, ConnInit
<1>2. Listens
  BY <1>1 DEF Listens
<1>3. \A s \in Sessions : Watched(s) /\ Told(s) /\ Owed(s)
  BY <1>1, EmptyQueue DEF Watched, Told, Owed, InLoop, Done, InCall
<1>4. QED
  BY <1>2, <1>3 DEF RestInv

LEMMA NextRest == IInv /\ RestInv /\ [Next]_vars => RestInv'
<1> SUFFICES ASSUME IInv, RestInv, [Next]_vars PROVE RestInv'
  OBVIOUS
<1> USE DEF IInv, RestInv
<1>1. Listens'
  BY NextListens
<1>2. \A s \in Sessions : Watched(s)' /\ Told(s)' /\ Owed(s)'
  BY NextWatched, NextToldFor, NextOwed
<1>3. QED
  BY <1>1, <1>2

\* Whoever has nothing to wait for moves; where everybody waits, the daemon
\* waits for signals, or is gone, and no two of its ends wait on each other.
LEMMA RestIsRest ==
  ASSUME IInv, RestInv, ~CanStep
  PROVE  AtRest
<1> USE DEF IInv, RestInv
<1>1. ASSUME NEW s \in Sessions
      PROVE  ~CanServe(s) /\ ~CanWatch(s) /\ ~CanReturn(s) /\ ~CanRead(s)
  BY DEF CanStep
<1>2. \A s \in Sessions : srv[s] # "handshake"
  BY <1>1 DEF CanServe, TimesOut
<1>3. sig \in {"wait", "exited"}
  BY <1>2 DEF CanStep, CanSignal, Types, ServerTypes
<1>4. ASSUME NEW s \in Sessions
      PROVE  /\ srv[s] \in {"none", "hello", "loop", "gone"}
             /\ srv[s] \in {"hello", "loop"} => up[s] = <<>> /\ CanSend(s)
  <2>1. srv[s] # "queued"
    BY <1>1, <1>2 DEF CanServe, Listens
  <2>2. srv[s] \notin {"greet", "replace", "reply", "broadcast", "leave", "close"}
    BY <1>1 DEF CanServe
  <2>3. srv[s] \in {"hello", "loop"} => up[s] = <<>> /\ ~ServerReceiveFails(s)
    BY <1>1 DEF CanServe
  <2>4. QED
    BY <1>2, <2>1, <2>2, <2>3 DEF Types, ServerTypes, Places, ServerReceiveFails, CanSend
<1>5. ASSUME NEW s \in Sessions PROVE watcher[s] \notin {"send", "close"}
  BY <1>1 DEF CanWatch
<1>6. ASSUME NEW s \in Sessions PROVE LoopOver(s) => watcher[s] \in {"none", "done"}
  BY <1>1, <1>5 DEF CanWatch, SeesDone, Types, ServerTypes
<1>7. ASSUME NEW s \in Sessions, Served(s) PROVE cliOpen[s] /\ ~Done(s)
  <2>1. CanSend(s)
    BY <1>4, <1>7 DEF Served
  <2>2. QED
    BY <1>5, <2>1 DEF CanSend, Told, Parting
<1>8. ASSUME NEW s \in Sessions, farewell[s] # <<>> PROVE s \notin registered
  <2>1. SUFFICES ASSUME s \in registered PROVE FALSE
    OBVIOUS
  <2>2. srv[s] = "loop" /\ CanSend(s)
    BY <1>4, <2>1 DEF DirectoryIsServed
  <2>3. watcher[s] \in {"select", "done"}
    BY <1>5, <2>2 DEF Watched, InLoop, Types, ServerTypes
  <2>4. watcher[s] # "select"
    BY <1>1, <1>8 DEF CanWatch
  <2>5. QED
    BY <2>2, <2>3, <2>4 DEF Watched, CanSend, LoopOver
<1>9. ASSUME NEW s \in Sessions, InCall(s) \/ cl[s] = "idle", ~Done(s), respCh[s] = <<>>
      PROVE  CanSend(s) /\ down[s] = <<>>
  <2>1. reader[s] = "receive"
    BY <1>9 DEF Told
  <2>2. ~ClientReceiveFails(s) /\ down[s] = <<>>
    BY <1>1, <1>9, <2>1 DEF CanRead
  <2>3. QED
    BY <2>2 DEF ClientReceiveFails, CanSend
<1>10. ASSUME NEW s \in Sessions PROVE ~InCall(s)
  <2>1. SUFFICES ASSUME InCall(s) PROVE FALSE
    OBVIOUS
  <2>2. respCh[s] = <<>> /\ ~Done(s)
    BY <1>1, <2>1 DEF CanReturn, EndsWithConnection
  <2>3. CanSend(s) /\ down[s] = <<>>
    BY <1>9, <2>1, <2>2
  <2>4. Live(s) /\ srvOpen[s]
    BY <2>2, <2>3 DEF Live, CanSend
  <2>5. srv[s] # "gone" /\ srv[s] # "none"
    BY <2>1, <2>4 DEF Listens, InCall
  <2>6. up[s] = <<>> /\ ~Serving(s) /\ ~LoopOver(s)
    BY <1>4, <2>5 DEF Serving, LoopOver
  <2>7. ~Asked(s) /\ ~Answered(s) /\ ~Handed(s)
    BY <2>2, <2>3, <2>6, EmptyQueue DEF Asked, Answered, Handed
  <2>8. QED
    BY <2>1, <2>4, <2>6, <2>7 DEF Owed
<1>11. ASSUME NEW s \in Sessions, sig = "exited", cl[s] = "idle" PROVE Done(s)
  <2>1. SUFFICES ASSUME ~Done(s) PROVE FALSE
    OBVIOUS
  <2>2. respCh[s] = <<>>
    <3>1. Orderly(s)
      BY DEF ExchangeInv
    <3>2. Live(s) => ~Handed(s)
      BY <1>11, <3>1, NoCall DEF InCall
    <3>3. QED
      BY <2>1, <3>1, <3>2 DEF Orderly, Live, Handed
  <2>3. srvOpen[s]
    BY <1>9, <1>11, <2>1, <2>2 DEF CanSend
  <2>4. QED
    BY <1>11, <2>3 DEF Listens
<1>12. QED
  BY <1>3, <1>6, <1>7, <1>8, <1>10, <1>11 DEF AtRest

\* Of any number of sessions and whatever was done to them: if no goroutine
\* has what it waits for, then none was left to wait for somebody else.
THEOREM RestTheorem == Spec => []NothingStuck
<1>1. IInv /\ RestInv => NothingStuck
  BY RestIsRest DEF NothingStuck
<1>2. QED
  BY Invariance, InitRest, NextRest, <1>1, PTL DEF Spec

-----------------------------------------------------------------------------
(* The program's own steps run out.                                        *)

LEMMA Weights ==
  /\ ServeOwes("queued") = 15 /\ ServeOwes("handshake") = 14
  /\ ServeOwes("hello") = 13 /\ ServeOwes("greet") = 12 /\ ServeOwes("replace") = 8
  /\ ServeOwes("reply") = 7 /\ ServeOwes("broadcast") = 4 /\ ServeOwes("loop") = 3
  /\ ServeOwes("leave") = 2 /\ ServeOwes("close") = 1 /\ ServeOwes("gone") = 0
  /\ ServeOwes("none") = 0
  /\ WatchOwes("select") = 5 /\ WatchOwes("send") = 4 /\ WatchOwes("close") = 1
  /\ WatchOwes("none") = 0 /\ WatchOwes("done") = 0
  /\ CallOwes("dial") = 9 /\ CallOwes("hello") = 1 /\ CallOwes("call") = 1
  /\ CallOwes("idle") = 0 /\ CallOwes("over") = 0 /\ CallOwes("off") = 0
  /\ ReadOwes("receive") = 1 /\ ReadOwes("returned") = 0 /\ ReadOwes("off") = 0
  /\ SignalOwes("replace") = 2 /\ SignalOwes("drained") = 2
  /\ SignalOwes("broadcast") = 1 /\ SignalOwes("ended") = 1
  /\ SignalOwes("wait") = 0 /\ SignalOwes("exited") = 0
BY DEF ServeOwes, WatchOwes, CallOwes, ReadOwes, SignalOwes

LEMMA WeightTypes ==
  ASSUME NEW p
  PROVE  /\ ServeOwes(p) \in Nat /\ WatchOwes(p) \in Nat /\ CallOwes(p) \in Nat
         /\ ReadOwes(p) \in Nat /\ SignalOwes(p) \in Nat
BY DEF ServeOwes, WatchOwes, CallOwes, ReadOwes, SignalOwes

LEMMA Lengths ==
  ASSUME Types, NEW s \in Sessions
  PROVE  Len(up[s]) \in Nat /\ Len(down[s]) \in Nat /\ Len(respCh[s]) \in Nat
<1>1. up[s] \in Seq(Messages) /\ down[s] \in Seq(Answers \cup Farewells)
  BY DEF Types, ConnTypes
<1>2. ASSUME NEW m PROVE Len(<<m>>) \in Nat
  OBVIOUS
<1>3. Len(<<>>) \in Nat
  OBVIOUS
<1>4. respCh[s] = <<>> \/ \E m \in Answers : respCh[s] = <<m>>
  BY DEF Types, ClientTypes, Slot
<1>5. QED
  BY <1>1, <1>2, <1>3, <1>4

LEMMA LengthsNext ==
  ASSUME Types', NEW s \in Sessions
  PROVE  Len(up'[s]) \in Nat /\ Len(down'[s]) \in Nat /\ Len(respCh'[s]) \in Nat
<1>1. up'[s] \in Seq(Messages) /\ down'[s] \in Seq(Answers \cup Farewells)
  BY DEF Types, ConnTypes
<1>2. ASSUME NEW m PROVE Len(<<m>>) \in Nat
  OBVIOUS
<1>3. Len(<<>>) \in Nat
  OBVIOUS
<1>4. respCh'[s] = <<>> \/ \E m \in Answers : respCh'[s] = <<m>>
  BY DEF Types, ClientTypes, Slot
<1>5. QED
  BY <1>1, <1>2, <1>3, <1>4

\* What a session owes: where its goroutines are, and what its queues hold.
LEMMA Sums ==
  ASSUME NEW s \in Sessions
  PROVE  /\ Owes(s) = ServeOwes(srv[s]) + WatchOwes(watcher[s]) + CallOwes(cl[s])
                        + ReadOwes(reader[s])
                        + 6 * Len(up[s]) + 2 * Len(down[s]) + Len(respCh[s])
         /\ Owes(s)' = ServeOwes(srv'[s]) + WatchOwes(watcher'[s]) + CallOwes(cl'[s])
                         + ReadOwes(reader'[s])
                         + 6 * Len(up'[s]) + 2 * Len(down'[s]) + Len(respCh'[s])
<1>1. s # Sighup
  BY ServerAssumption
<1>2. QED
  BY <1>1, Zenon DEF Owes

LEMMA SameOwed ==
  ASSUME NEW c \in Sessions,
         srv'[c] = srv[c], watcher'[c] = watcher[c], cl'[c] = cl[c], reader'[c] = reader[c],
         up'[c] = up[c], down'[c] = down[c], respCh'[c] = respCh[c]
  PROVE  Owes(c)' = Owes(c)
BY Sums

\* The daemon's half and the client's, each while the other stands still.
ServerOwes(s) == ServeOwes(srv[s]) + WatchOwes(watcher[s]) + 6 * Len(up[s]) + 2 * Len(down[s])
ClientOwes(s) ==
  CallOwes(cl[s]) + ReadOwes(reader[s]) + 6 * Len(up[s]) + 2 * Len(down[s]) + Len(respCh[s])

LEMMA ServerOwed ==
  ASSUME Types, Types', NEW s \in Sessions, cl'[s] = cl[s], reader'[s] = reader[s],
         respCh'[s] = respCh[s], ServerOwes(s)' < ServerOwes(s)
  PROVE  Owes(s)' < Owes(s)
<1> DEFINE p == ServeOwes(srv[s])     p1 == ServeOwes(srv'[s])
           w == WatchOwes(watcher[s]) w1 == WatchOwes(watcher'[s])
           c == CallOwes(cl[s])       r == ReadOwes(reader[s])
           u == Len(up[s])            u1 == Len(up'[s])
           d == Len(down[s])          d1 == Len(down'[s])
           a == Len(respCh[s])
<1>1. u \in Nat /\ u1 \in Nat /\ d \in Nat /\ d1 \in Nat /\ a \in Nat
  BY Lengths, LengthsNext
<1>2. p \in Nat /\ p1 \in Nat /\ w \in Nat /\ w1 \in Nat /\ c \in Nat /\ r \in Nat
  BY WeightTypes
<1>3. p1 + w1 + 6 * u1 + 2 * d1 < p + w + 6 * u + 2 * d
  BY DEF ServerOwes
<1>4. Owes(s) = p + w + c + r + 6 * u + 2 * d + a
      /\ Owes(s)' = p1 + w1 + c + r + 6 * u1 + 2 * d1 + a
  BY Sums
<1> HIDE DEF p, p1, w, w1, c, r, u, u1, d, d1, a
<1>5. p1 + w1 + c + r + 6 * u1 + 2 * d1 + a < p + w + c + r + 6 * u + 2 * d + a
  BY <1>1, <1>2, <1>3
<1>6. QED
  BY <1>4, <1>5

LEMMA ClientOwed ==
  ASSUME Types, Types', NEW s \in Sessions, srv'[s] = srv[s], watcher'[s] = watcher[s],
         ClientOwes(s)' < ClientOwes(s)
  PROVE  Owes(s)' < Owes(s)
<1> DEFINE p == ServeOwes(srv[s])  w == WatchOwes(watcher[s])
           c == CallOwes(cl[s])    c1 == CallOwes(cl'[s])
           r == ReadOwes(reader[s]) r1 == ReadOwes(reader'[s])
           u == Len(up[s])         u1 == Len(up'[s])
           d == Len(down[s])       d1 == Len(down'[s])
           a == Len(respCh[s])     a1 == Len(respCh'[s])
<1>1. /\ u \in Nat /\ u1 \in Nat /\ d \in Nat /\ d1 \in Nat
      /\ a \in Nat /\ a1 \in Nat
  BY Lengths, LengthsNext
<1>2. p \in Nat /\ w \in Nat /\ c \in Nat /\ c1 \in Nat /\ r \in Nat /\ r1 \in Nat
  BY WeightTypes
<1>3. c1 + r1 + 6 * u1 + 2 * d1 + a1 < c + r + 6 * u + 2 * d + a
  BY DEF ClientOwes
<1>4. Owes(s) = p + w + c + r + 6 * u + 2 * d + a
      /\ Owes(s)' = p + w + c1 + r1 + 6 * u1 + 2 * d1 + a1
  BY Sums
<1> HIDE DEF p, w, c, c1, r, r1, u, u1, d, d1, a, a1
<1>5. p + w + c1 + r1 + 6 * u1 + 2 * d1 + a1 < p + w + c + r + 6 * u + 2 * d + a
  BY <1>1, <1>2, <1>3
<1>6. QED
  BY <1>4, <1>5

\* The sum falls when one weight outweighs what the others gain.
LEMMA ServerLess ==
  ASSUME Types, Types', NEW s \in Sessions,
         LET p == ServeOwes(srv[s])   p1 == ServeOwes(srv'[s])
             w == WatchOwes(watcher[s])  w1 == WatchOwes(watcher'[s])
             u == Len(up[s])    u1 == Len(up'[s])
             d == Len(down[s])  d1 == Len(down'[s])
         IN  \/ p1 <= p /\ w1 <= w /\ u1 <= u /\ d1 <= d /\ (p1 < p \/ w1 < w)
             \/ u1 = u - 1 /\ w1 = w /\ p1 <= p + 5 /\ d1 = d
             \/ u1 = u - 1 /\ w1 = w /\ p1 <= p /\ d1 <= d + 1
             \/ u1 = u /\ w1 = w /\ p1 + 3 <= p /\ d1 <= d + 1
             \/ u1 = u /\ p1 = p /\ w1 + 3 <= w /\ d1 <= d + 1
             \/ u1 = u /\ p = 12 /\ p1 = 3 /\ w1 = 5 /\ d1 <= d + 1
  PROVE  ServerOwes(s)' < ServerOwes(s)
<1> DEFINE p == ServeOwes(srv[s])     p1 == ServeOwes(srv'[s])
           w == WatchOwes(watcher[s]) w1 == WatchOwes(watcher'[s])
           u == Len(up[s])            u1 == Len(up'[s])
           d == Len(down[s])          d1 == Len(down'[s])
<1>1. u \in Nat /\ u1 \in Nat /\ d \in Nat /\ d1 \in Nat
  BY Lengths, LengthsNext
<1>2. p \in Nat /\ p1 \in Nat /\ w \in Nat /\ w1 \in Nat
  BY WeightTypes
<1>3. /\ ServerOwes(s) = p + w + 6 * u + 2 * d
      /\ ServerOwes(s)' = p1 + w1 + 6 * u1 + 2 * d1
  BY DEF ServerOwes
<1>4. \/ p1 <= p /\ w1 <= w /\ u1 <= u /\ d1 <= d /\ (p1 < p \/ w1 < w)
      \/ u1 = u - 1 /\ w1 = w /\ p1 <= p + 5 /\ d1 = d
      \/ u1 = u - 1 /\ w1 = w /\ p1 <= p /\ d1 <= d + 1
      \/ u1 = u /\ w1 = w /\ p1 + 3 <= p /\ d1 <= d + 1
      \/ u1 = u /\ p1 = p /\ w1 + 3 <= w /\ d1 <= d + 1
      \/ u1 = u /\ p = 12 /\ p1 = 3 /\ w1 = 5 /\ d1 <= d + 1
  OBVIOUS
<1> HIDE DEF p, p1, w, w1, u, u1, d, d1
<1>5. p1 + w1 + 6 * u1 + 2 * d1 < p + w + 6 * u + 2 * d
  <2>1. CASE p1 <= p /\ w1 <= w /\ u1 <= u /\ d1 <= d /\ (p1 < p \/ w1 < w)
    BY <1>1, <1>2, <2>1
  <2>2. CASE u1 = u - 1 /\ w1 = w /\ p1 <= p + 5 /\ d1 = d
    BY <1>1, <1>2, <2>2
  <2>3. CASE u1 = u - 1 /\ w1 = w /\ p1 <= p /\ d1 <= d + 1
    BY <1>1, <1>2, <2>3
  <2>4. CASE u1 = u /\ w1 = w /\ p1 + 3 <= p /\ d1 <= d + 1
    BY <1>1, <1>2, <2>4
  <2>5. CASE u1 = u /\ p1 = p /\ w1 + 3 <= w /\ d1 <= d + 1
    BY <1>1, <1>2, <2>5
  <2>6. CASE u1 = u /\ p = 12 /\ p1 = 3 /\ w1 = 5 /\ d1 <= d + 1
    BY <1>1, <1>2, <2>6
  <2>7. QED
    BY <1>4, <2>1, <2>2, <2>3, <2>4, <2>5, <2>6
<1>6. QED
  BY <1>3, <1>5

LEMMA SentLength ==
  ASSUME Types, NEW s \in Sessions, NEW m \in Answers \cup Farewells, SendDown(s, m)
  PROVE  /\ Len(down'[s]) \in Nat /\ Len(down'[s]) <= Len(down[s]) + 1
         /\ ~CanSend(s) => down'[s] = down[s]
         /\ \A c \in Sessions \ {s} : down'[c] = down[c]
<1>1. down[s] \in Seq(Answers \cup Farewells)
  BY DEF Types, ConnTypes
<1>2. Len(Append(down[s], m)) = Len(down[s]) + 1 /\ Len(down[s]) \in Nat
  BY <1>1, Appended
<1>3. /\ down'[s] = down[s] \/ down'[s] = Append(down[s], m)
      /\ ~CanSend(s) => down'[s] = down[s]
      /\ \A c \in Sessions \ {s} : down'[c] = down[c]
  BY DEF SendDown, Types, ConnTypes
<1>4. QED
  BY <1>2, <1>3

LEMMA TookLength ==
  ASSUME Types, NEW s \in Sessions, up[s] # <<>>, up' = [up EXCEPT ![s] = Tail(@)]
  PROVE  Len(up'[s]) = Len(up[s]) - 1 /\ Len(up[s]) \in Nat
<1>1. up[s] \in Seq(Messages) /\ up'[s] = Tail(up[s])
  BY DEF Types, ConnTypes
<1>2. QED
  BY <1>1, Taken

LEMMA ClosedLengths ==
  ASSUME Types
  PROVE  /\ \A S : CloseServerEnd(S) =>
              \A c \in Sessions : Len(up'[c]) <= Len(up[c]) /\ Len(up'[c]) \in Nat
         /\ \A s \in Sessions : CloseClientEnd(s) =>
              \A c \in Sessions : Len(down'[c]) <= Len(down[c]) /\ Len(down'[c]) \in Nat
<1>1. \A c \in Sessions : Len(up[c]) \in Nat /\ Len(down[c]) \in Nat
  BY Lengths
<1>2. Len(<<>>) = 0
  OBVIOUS
<1>3. ASSUME NEW S, CloseServerEnd(S), NEW c \in Sessions
      PROVE  Len(up'[c]) <= Len(up[c]) /\ Len(up'[c]) \in Nat
  BY <1>1, <1>2, <1>3 DEF CloseServerEnd
<1>4. ASSUME NEW s \in Sessions, CloseClientEnd(s), NEW c \in Sessions
      PROVE  Len(down'[c]) <= Len(down[c]) /\ Len(down'[c]) \in Nat
  <2>1. down'[c] \in {<<>>, down[c]}
    BY <1>4 DEF CloseClientEnd, Types, ConnTypes
  <2>2. QED
    BY <1>1, <1>2, <2>1
<1>5. QED
  BY <1>3, <1>4

\* The order of the places, and how far apart they are where that counts.
LEMMA Falls ==
  /\ ServeOwes("greet") < ServeOwes("hello") /\ ServeOwes("close") < ServeOwes("hello")
  /\ ServeOwes("leave") < ServeOwes("loop") /\ ServeOwes("loop") < ServeOwes("broadcast")
  /\ ServeOwes("reply") < ServeOwes("replace") /\ ServeOwes("close") < ServeOwes("leave")
  /\ ServeOwes("gone") < ServeOwes("close") /\ ServeOwes("handshake") < ServeOwes("queued")
  /\ ServeOwes("hello") < ServeOwes("handshake") /\ ServeOwes("gone") < ServeOwes("handshake")
BY Weights

LEMMA Spans ==
  /\ \A q \in {"loop", "leave"} : ServeOwes(q) <= ServeOwes("loop")
  /\ \A q \in {"loop", "leave", "reply", "replace"} : ServeOwes(q) <= ServeOwes("loop") + 5
  /\ \A q \in {"loop", "leave", "broadcast"} : ServeOwes(q) + 3 <= ServeOwes("reply")
  /\ ServeOwes("leave") + 3 <= ServeOwes("greet")
  /\ WatchOwes("close") + 3 <= WatchOwes("send")
  /\ \A w \in {"send", "done"} :
       WatchOwes(w) < WatchOwes("select") /\ WatchOwes(w) <= WatchOwes("select")
  /\ WatchOwes("done") < WatchOwes("close") /\ WatchOwes("done") <= WatchOwes("close")
BY Weights

\* serveConnection moves on with what it has ...
LEMMA MovedOn ==
  ASSUME Types, Types', NEW s \in Sessions, NEW q, srv'[s] = q, watcher'[s] = watcher[s],
         ServeOwes(q) < ServeOwes(srv[s]), down' = down,
         \/ up' = up
         \/ up[s] # <<>> /\ up' = [up EXCEPT ![s] = Tail(@)]
         \/ CloseServerEnd({s})
  PROVE  ServerOwes(s)' < ServerOwes(s)
<1>1. /\ Len(up[s]) \in Nat /\ Len(down[s]) \in Nat /\ Len(up'[s]) \in Nat
      /\ Len(down'[s]) = Len(down[s])
  BY Lengths, LengthsNext
<1>2. Len(up'[s]) <= Len(up[s])
  <2>1. CASE up' = up
    BY <1>1, <2>1
  <2>2. CASE up[s] # <<>> /\ up' = [up EXCEPT ![s] = Tail(@)]
    BY <1>1, <2>2, TookLength
  <2>3. CASE CloseServerEnd({s})
    BY <2>3, ClosedLengths
  <2>4. QED
    BY <2>1, <2>2, <2>3
<1>3. /\ ServeOwes(srv'[s]) < ServeOwes(srv[s])
      /\ WatchOwes(watcher'[s]) = WatchOwes(watcher[s])
      /\ ServeOwes(srv'[s]) \in Nat /\ ServeOwes(srv[s]) \in Nat
      /\ WatchOwes(watcher[s]) \in Nat
  BY WeightTypes
<1>4. QED
  BY <1>1, <1>2, <1>3, ServerLess

\* ... or takes a message in the loop, and answers it at once if at all.
LEMMA TookOne ==
  ASSUME Types, Types', NEW s \in Sessions, NEW kind, Takes(s, kind),
         NEW q \in {"loop", "leave", "reply", "replace"},
         srv'[s] = q, watcher'[s] = watcher[s],
         \/ down' = down
         \/ q \in {"loop", "leave"} /\ \E m \in Answers : SendDown(s, m)
  PROVE  ServerOwes(s)' < ServerOwes(s)
<1>1. Len(up'[s]) = Len(up[s]) - 1 /\ srv[s] = "loop"
  BY TookLength DEF Takes
<1>2. Len(down[s]) \in Nat /\ Len(down'[s]) \in Nat
  BY Lengths, LengthsNext
<1>3. WatchOwes(watcher'[s]) = WatchOwes(watcher[s])
  OBVIOUS
<1>4. CASE down' = down
  <2>1. ServeOwes(srv'[s]) <= ServeOwes(srv[s]) + 5
    BY <1>1, Spans
  <2>2. Len(down'[s]) = Len(down[s])
    BY <1>4
  <2>3. QED
    BY <1>1, <1>3, <2>1, <2>2, ServerLess
<1>5. CASE q \in {"loop", "leave"} /\ \E m \in Answers : SendDown(s, m)
  <2>1. ServeOwes(srv'[s]) <= ServeOwes(srv[s])
    BY <1>1, <1>5, Spans
  <2>2. Len(down'[s]) <= Len(down[s]) + 1
    BY <1>5, SentLength
  <2>3. QED
    BY <1>1, <1>3, <2>1, <2>2, ServerLess
<1>6. QED
  BY <1>4, <1>5

\* What serveConnection does, and whom it costs.
LEMMA GreetLess ==
  ASSUME Types, Types', NEW s \in Sessions, Greet(s)
  PROVE  ServerOwes(s)' < ServerOwes(s)
<1>1. [kind |-> "Hello", ok |-> TRUE] \in Answers
  BY AnswerKinds DEF RequestKinds
<1>2. /\ Len(down'[s]) <= Len(down[s]) + 1
      /\ ~CanSend(s) => down'[s] = down[s]
  BY <1>1, SentLength DEF Greet
<1>3. /\ srv[s] = "greet" /\ up'[s] = up[s]
      /\ srv'[s] = IF CanSend(s) THEN "loop" ELSE AfterFailedGreeting
      /\ watcher'[s] = IF CanSend(s) THEN "select" ELSE watcher[s]
  BY DEF Greet, ServeFrame, Goto, Types, ServerTypes
<1>4. Len(up'[s]) = Len(up[s])
  BY <1>3
<1>5. CASE CanSend(s)
  <2>1. ServeOwes(srv[s]) = 12 /\ ServeOwes(srv'[s]) = 3 /\ WatchOwes(watcher'[s]) = 5
    BY <1>3, <1>5, Weights, Zenon
  <2>2. QED
    BY <1>2, <1>4, <2>1, ServerLess
<1>6. CASE ~CanSend(s)
  <2>1. srv'[s] = "leave" /\ WatchOwes(watcher'[s]) = WatchOwes(watcher[s])
    BY <1>3, <1>6 DEF AfterFailedGreeting
  <2>2. ServeOwes(srv'[s]) + 3 <= ServeOwes(srv[s])
    BY <1>3, <2>1, Spans, Zenon
  <2>3. QED
    BY <1>2, <1>4, <2>1, <2>2, ServerLess
<1>7. QED
  BY <1>5, <1>6

LEMMA ReplyLess ==
  ASSUME Types, Types', ReplyReady, NEW s \in Sessions, SendReply(s)
  PROVE  ServerOwes(s)' < ServerOwes(s)
<1> DEFINE r == Head(reply[s])
<1>1. r \in Replies
  BY SlotFacts DEF SendReply, ReplyReady, Types, ServerTypes
<1>2. /\ r.kind \in RequestKinds /\ r.ok \in BOOLEAN
      /\ r.sent \in {"loop", "broadcast"} /\ r.failed \in {"loop", "leave"}
  BY <1>1 DEF Replies, RequestKinds
<1>3. /\ srv[s] = "reply" /\ SendDown(s, [kind |-> r.kind, ok |-> r.ok])
      /\ srv'[s] = IF CanSend(s) THEN r.sent ELSE r.failed
      /\ watcher'[s] = watcher[s] /\ up' = up
  BY DEF SendReply, ServeFrame, Goto, Types, ServerTypes
<1> HIDE DEF r
<1>4. [kind |-> r.kind, ok |-> r.ok] \in Answers
  BY <1>2, AnswerKinds
<1>5. Len(down'[s]) <= Len(down[s]) + 1
  BY <1>3, <1>4, SentLength
<1>6. srv'[s] \in {"loop", "leave", "broadcast"}
  BY <1>2, <1>3
<1>7. ServeOwes(srv'[s]) + 3 <= ServeOwes(srv[s])
  BY <1>3, <1>6, Spans
<1>8. WatchOwes(watcher'[s]) = WatchOwes(watcher[s]) /\ Len(up'[s]) = Len(up[s])
  BY <1>3
<1>9. QED
  BY <1>5, <1>7, <1>8, ServerLess

LEMMA ServeLess ==
  ASSUME Types, Types', ReplyReady, NEW s \in Sessions, Serve(s)
  PROVE  ServerOwes(s)' < ServerOwes(s)
<1> USE DEF ServeFrame, Goto, Types, ServerTypes
<1>1. CASE Hello(s)
  BY <1>1, MovedOn, Falls DEF Hello
<1>2. CASE NoHello(s)
  BY <1>2, MovedOn, Falls DEF NoHello, connVars
<1>3. CASE ReceiveFails(s)
  BY <1>3, MovedOn, Falls DEF ReceiveFails, connVars
<1>4. CASE RebootBroadcast(s)
  BY <1>4, MovedOn, Falls DEF RebootBroadcast, connVars
<1>5. CASE DeferredUnregister(s)
  BY <1>5, MovedOn, Falls DEF DeferredUnregister, connVars
<1>6. CASE ReplaceState(s)
  BY <1>6, MovedOn, Falls DEF ReplaceState, connVars
<1>7. CASE DeferredClose(s)
  BY <1>7, MovedOn, Falls DEF DeferredClose
<1>8. CASE Goodbye(s)
  BY <1>8, TookOne DEF Goodbye
<1>9. CASE AuditEvent(s)
  BY <1>9, TookOne DEF AuditEvent, NoAnswer
<1>10. CASE ListUsers(s)
  <2>1. [kind |-> "ListUsers", ok |-> TRUE] \in Answers
    BY AnswerKinds DEF RequestKinds
  <2>2. QED
    BY <1>10, <2>1, TookOne DEF ListUsers
<1>11. ASSUME NEW kind \in {"Disconnect", "Reboot"}, Refuse(s, kind)
       PROVE  ServerOwes(s)' < ServerOwes(s)
  <2>1. [kind |-> kind, ok |-> FALSE] \in Answers
    BY AnswerKinds DEF RequestKinds
  <2>2. QED
    BY <1>11, <2>1, TookOne DEF Refuse
<1>12. CASE DisconnectUser(s)
  BY <1>12, TookOne DEF DisconnectUser
<1>13. CASE RebootRequest(s)
  BY <1>13, TookOne DEF RebootRequest
<1>14. QED
  BY <1>1, <1>2, <1>3, <1>4, <1>5, <1>6, <1>7, <1>8, <1>9, <1>10, <1>11, <1>12, <1>13,
     GreetLess, ReplyLess DEF Serve

LEMMA ServeLowers ==
  ASSUME Types, Types', ReplyReady, NEW s \in Sessions, Serve(s), UNCHANGED clientVars
  PROVE  /\ Owes(s)' < Owes(s) /\ sig' = sig
         /\ \A c \in Sessions \ {s} : Owes(c)' = Owes(c)
<1>1. Owes(s)' < Owes(s)
  BY ServeLess, ServerOwed DEF clientVars
<1>2. \A c \in Sessions \ {s} : watcher'[c] = watcher[c]
  BY LoopMoves DEF Greet, Types, ServerTypes
<1>3. \A c \in Sessions \ {s} : Owes(c)' = Owes(c)
  BY <1>2, ServeAlone, SameOwed DEF Passed, clientVars
<1>4. sig' = sig
  BY DEF Serve, Hello, NoHello, Greet, ReceiveFails, Goodbye, AuditEvent, ListUsers, Refuse,
     DisconnectUser, RebootRequest, ReplaceState, SendReply, RebootBroadcast,
     DeferredUnregister, DeferredClose, ServeFrame
<1>5. QED
  BY <1>1, <1>3, <1>4

\* The farewell watcher's steps.
LEMMA WatchLowers ==
  ASSUME Types, Types', NEW s \in Sessions, Watch(s), UNCHANGED clientVars
  PROVE  /\ Owes(s)' < Owes(s) /\ sig' = sig
         /\ \A c \in Sessions \ {s} : Owes(c)' = Owes(c)
<1>1. /\ Len(up[s]) \in Nat /\ Len(down[s]) \in Nat
      /\ Len(up'[s]) \in Nat /\ Len(down'[s]) \in Nat
  BY Lengths, LengthsNext
<1>2. srv' = srv /\ sig' = sig
  BY DEF Watch, WatcherTakes, WatcherDone, WatcherSends, WatcherCloses, WatchFrame
<1>3. \A c \in Sessions \ {s} : watcher'[c] = watcher[c]
  BY DEF Watch, WatcherTakes, WatcherDone, WatcherSends, WatcherCloses, WatchFrame, Types,
     ServerTypes
<1>4. ServeOwes(srv'[s]) = ServeOwes(srv[s]) /\ ServeOwes(srv'[s]) <= ServeOwes(srv[s])
  BY <1>2, WeightTypes
<1>5. /\ ServerOwes(s)' < ServerOwes(s)
      /\ \A c \in Sessions \ {s} : up'[c] = up[c] /\ down'[c] = down[c]
  <2>1. CASE WatcherTakes(s) \/ WatcherDone(s)
    <3>1. /\ watcher[s] = "select" /\ watcher'[s] \in {"send", "done"}
          /\ up' = up /\ down' = down
      BY <2>1 DEF WatcherTakes, WatcherDone, WatchFrame, Types, ServerTypes
    <3>2. /\ WatchOwes(watcher'[s]) < WatchOwes(watcher[s])
          /\ WatchOwes(watcher'[s]) <= WatchOwes(watcher[s])
      BY <3>1, Spans
    <3>3. Len(up'[s]) <= Len(up[s]) /\ Len(down'[s]) <= Len(down[s])
      BY <1>1, <3>1
    <3>4. QED
      BY <1>4, <3>1, <3>2, <3>3, ServerLess
  <2>2. CASE WatcherSends(s)
    <3>1. [kind |-> "Farewell", text |-> text[s]] \in Answers \cup Farewells
      BY AnswerKinds DEF Types, ServerTypes
    <3>2. /\ Len(down'[s]) <= Len(down[s]) + 1
          /\ \A c \in Sessions \ {s} : down'[c] = down[c]
      BY <2>2, <3>1, SentLength DEF WatcherSends
    <3>3. watcher[s] = "send" /\ watcher'[s] = "close" /\ up' = up
      BY <2>2 DEF WatcherSends, WatchFrame, Types, ServerTypes
    <3>4. WatchOwes(watcher'[s]) + 3 <= WatchOwes(watcher[s]) /\ Len(up'[s]) = Len(up[s])
      BY <3>3, Spans, Zenon
    <3>5. QED
      BY <1>4, <3>2, <3>3, <3>4, ServerLess
  <2>3. CASE WatcherCloses(s)
    <3>1. /\ Len(up'[s]) <= Len(up[s]) /\ down' = down
          /\ watcher[s] = "close" /\ watcher'[s] = "done"
      BY <2>3, ClosedLengths DEF WatcherCloses, WatchFrame, ClosedByWatcher, Types, ServerTypes
    <3>2. \A c \in Sessions \ {s} : up'[c] = up[c]
      BY <2>3 DEF WatcherCloses, CloseServerEnd, ClosedByWatcher
    <3>3. /\ WatchOwes(watcher'[s]) < WatchOwes(watcher[s])
          /\ WatchOwes(watcher'[s]) <= WatchOwes(watcher[s])
      BY <3>1, Spans, Zenon
    <3>4. Len(down'[s]) <= Len(down[s])
      BY <1>1, <3>1
    <3>5. QED
      BY <1>4, <3>1, <3>2, <3>3, <3>4, ServerLess
  <2>4. QED
    BY <2>1, <2>2, <2>3 DEF Watch
<1>6. Owes(s)' < Owes(s)
  BY <1>5, ServerOwed DEF clientVars
<1>7. QED
  BY <1>2, <1>3, <1>5, <1>6, SameOwed DEF clientVars

\* The accept loop's.
LEMMA AcceptLowers ==
  ASSUME Types, Types', NEW s \in Sessions, AcceptLoop(s), UNCHANGED clientVars
  PROVE  /\ Owes(s)' < Owes(s) /\ sig' = sig
         /\ \A c \in Sessions \ {s} : Owes(c)' = Owes(c)
<1>1. down' = down /\ watcher' = watcher /\ sig' = sig
  BY DEF AcceptLoop, Accept, HandshakeDone, HandshakeFails, connVars
<1>2. up' = up \/ CloseServerEnd({s})
  BY DEF AcceptLoop, Accept, HandshakeDone, HandshakeFails, connVars
<1>3. \A c \in Sessions \ {s} : up'[c] = up[c]
  BY <1>2 DEF CloseServerEnd
<1>4. /\ \A c \in Sessions \ {s} : srv'[c] = srv[c]
      /\ \/ srv[s] = "queued" /\ srv'[s] = "handshake"
         \/ srv[s] = "handshake" /\ srv'[s] = "hello"
         \/ srv[s] = "handshake" /\ srv'[s] = "gone"
  BY DEF AcceptLoop, Accept, HandshakeDone, HandshakeFails, Goto, Types, ServerTypes
<1>5. ServeOwes(srv'[s]) < ServeOwes(srv[s])
  BY <1>4, Falls, Zenon
<1>6. Owes(s)' < Owes(s)
  BY <1>1, <1>2, <1>5, MovedOn, ServerOwed DEF clientVars
<1>7. QED
  BY <1>1, <1>3, <1>4, <1>6, SameOwed DEF clientVars

\* What the program does at the client's end, and whom it costs.
LEMMA ClientLess ==
  ASSUME Types, Types', NEW s \in Sessions,
         LET c == CallOwes(cl[s])     c1 == CallOwes(cl'[s])
             r == ReadOwes(reader[s]) r1 == ReadOwes(reader'[s])
             u == Len(up[s])          u1 == Len(up'[s])
             d == Len(down[s])        d1 == Len(down'[s])
             a == Len(respCh[s])      a1 == Len(respCh'[s])
         IN  \/ c1 <= c /\ r1 <= r /\ u1 = u /\ d1 <= d /\ a1 <= a
                  /\ (c1 < c \/ r1 < r \/ a1 < a)
             \/ u1 = u /\ d1 = d - 1 /\ c1 = c /\ r1 <= r /\ a1 <= a + 1
             \/ u1 <= u + 1 /\ d1 <= d /\ c = 9 /\ c1 <= 1 /\ r1 <= 1 /\ a1 = a
  PROVE  ClientOwes(s)' < ClientOwes(s)
<1> DEFINE c == CallOwes(cl[s])     c1 == CallOwes(cl'[s])
           r == ReadOwes(reader[s]) r1 == ReadOwes(reader'[s])
           u == Len(up[s])          u1 == Len(up'[s])
           d == Len(down[s])        d1 == Len(down'[s])
           a == Len(respCh[s])      a1 == Len(respCh'[s])
<1>1. /\ u \in Nat /\ u1 \in Nat /\ d \in Nat /\ d1 \in Nat
      /\ a \in Nat /\ a1 \in Nat
  BY Lengths, LengthsNext
<1>2. c \in Nat /\ c1 \in Nat /\ r \in Nat /\ r1 \in Nat
  BY WeightTypes
<1>3. /\ ClientOwes(s) = c + r + 6 * u + 2 * d + a
      /\ ClientOwes(s)' = c1 + r1 + 6 * u1 + 2 * d1 + a1
  BY DEF ClientOwes
<1>4. \/ c1 <= c /\ r1 <= r /\ u1 = u /\ d1 <= d /\ a1 <= a
           /\ (c1 < c \/ r1 < r \/ a1 < a)
      \/ u1 = u /\ d1 = d - 1 /\ c1 = c /\ r1 <= r /\ a1 <= a + 1
      \/ u1 <= u + 1 /\ d1 <= d /\ c = 9 /\ c1 <= 1 /\ r1 <= 1 /\ a1 = a
  OBVIOUS
<1> HIDE DEF c, c1, r, r1, u, u1, d, d1, a, a1
<1>5. c1 + r1 + 6 * u1 + 2 * d1 + a1 < c + r + 6 * u + 2 * d + a
  <2>1. CASE c1 <= c /\ r1 <= r /\ u1 = u /\ d1 <= d /\ a1 <= a
               /\ (c1 < c \/ r1 < r \/ a1 < a)
    BY <1>1, <1>2, <2>1
  <2>2. CASE u1 = u /\ d1 = d - 1 /\ c1 = c /\ r1 <= r /\ a1 <= a + 1
    BY <1>1, <1>2, <2>2
  <2>3. CASE u1 <= u + 1 /\ d1 <= d /\ c = 9 /\ c1 <= 1 /\ r1 <= 1 /\ a1 = a
    BY <1>1, <1>2, <2>3
  <2>4. QED
    BY <1>4, <2>1, <2>2, <2>3
<1>6. QED
  BY <1>3, <1>5

LEMMA ClientSpans ==
  /\ \A q \in {"hello", "over"} : CallOwes(q) <= 1 /\ CallOwes(q) < CallOwes("dial")
  /\ \A p \in {"hello", "call"}, q \in {"over", "idle"} : CallOwes(q) < CallOwes(p)
  /\ CallOwes("dial") = 9 /\ ReadOwes("receive") <= 1
  /\ ReadOwes("returned") < ReadOwes("receive")
  /\ \A q \in {"receive", "returned"} : ReadOwes(q) <= ReadOwes("receive")
BY Weights

\* Answers handed over, one at a time.
LEMMA HandedLengths ==
  ASSUME Types, NEW s \in Sessions
  PROVE  /\ respCh'[s] = respCh[s] => Len(respCh'[s]) <= Len(respCh[s])
         /\ respCh[s] # <<>> /\ respCh'[s] = Tail(respCh[s]) =>
              Len(respCh'[s]) <= Len(respCh[s])
         /\ respCh'[s] = respCh[s] => Len(respCh'[s]) <= Len(respCh[s]) + 1
         /\ \A m : respCh[s] = <<>> /\ respCh'[s] = <<m>> =>
              Len(respCh'[s]) <= Len(respCh[s]) + 1
<1>1. \A m : Len(<<m>>) = 1 /\ Tail(<<m>>) = <<>> /\ Len(<<>>) = 0
  OBVIOUS
<1>2. respCh[s] = <<>> \/ \E m \in Answers : respCh[s] = <<m>>
  BY DEF Types, ClientTypes, Slot
<1>3. Len(respCh[s]) \in Nat
  BY Lengths
<1>4. ASSUME respCh'[s] = respCh[s]
      PROVE  Len(respCh'[s]) <= Len(respCh[s]) /\ Len(respCh'[s]) <= Len(respCh[s]) + 1
  BY <1>3, <1>4
<1>5. ASSUME respCh[s] # <<>>, respCh'[s] = Tail(respCh[s])
      PROVE  Len(respCh'[s]) <= Len(respCh[s])
  <2>1. PICK m \in Answers : respCh[s] = <<m>>
    BY <1>2, <1>5
  <2>2. Len(respCh'[s]) = 0 /\ Len(respCh[s]) = 1
    BY <1>1, <1>5, <2>1, Zenon
  <2>3. QED
    BY <2>2
<1>6. ASSUME NEW m, respCh[s] = <<>>, respCh'[s] = <<m>>
      PROVE  Len(respCh'[s]) <= Len(respCh[s]) + 1
  <2>1. Len(respCh'[s]) = 1 /\ Len(respCh[s]) = 0
    BY <1>1, <1>6, Zenon
  <2>2. QED
    BY <2>1
<1>7. QED
  BY <1>4, <1>5, <1>6

LEMMA SentUpLength ==
  ASSUME Types, NEW s \in Sessions, NEW m \in Messages, SendUp(s, m)
  PROVE  Len(up'[s]) <= Len(up[s]) + 1
<1>1. up[s] \in Seq(Messages)
  BY DEF Types, ConnTypes
<1>2. Len(Append(up[s], m)) = Len(up[s]) + 1 /\ Len(up[s]) \in Nat
  BY <1>1, Appended
<1>3. up'[s] = up[s] \/ up'[s] = Append(up[s], m)
  BY DEF SendUp, Types, ConnTypes
<1>4. QED
  BY <1>2, <1>3

LEMMA HelloLess ==
  ASSUME Types, Types', NEW s \in Sessions, SendHello(s)
  PROVE  ClientOwes(s)' < ClientOwes(s)
<1>1. [kind |-> "Hello"] \in Messages
  BY MessageKinds DEF Messages
<1>2. Len(up'[s]) <= Len(up[s]) + 1
  BY <1>1, SentUpLength DEF SendHello, BeginCall
<1>3. /\ cl[s] = "dial" /\ cl'[s] \in {"hello", "over"} /\ reader'[s] = "receive"
      /\ respCh'[s] = respCh[s]
  BY DEF SendHello, BeginCall, Types, ClientTypes
<1>4. Len(down'[s]) <= Len(down[s])
  <2>1. down' = down \/ CloseClientEnd(s)
    BY DEF SendHello, BeginCall
  <2>2. Len(down[s]) \in Nat
    BY Lengths
  <2>3. CASE down' = down
    BY <2>2, <2>3
  <2>4. CASE CloseClientEnd(s)
    BY <2>4, ClosedLengths
  <2>5. QED
    BY <2>1, <2>3, <2>4
<1>5. CallOwes(cl[s]) = 9 /\ CallOwes(cl'[s]) <= 1 /\ ReadOwes(reader'[s]) <= 1
  BY <1>3, ClientSpans
<1>6. Len(respCh'[s]) = Len(respCh[s])
  BY <1>3
<1>7. QED
  BY <1>2, <1>4, <1>5, <1>6, ClientLess

LEMMA ReturnLess ==
  ASSUME Types, Types', NEW s \in Sessions,
         CallAnswered(s) \/ CallEnded(s) \/ DialFails(s)
  PROVE  ClientOwes(s)' < ClientOwes(s)
<1>1. /\ \/ cl[s] \in {"hello", "call"} /\ cl'[s] \in {"over", "idle"}
         \/ cl[s] = "dial" /\ cl'[s] = "over"
      /\ reader'[s] = reader[s] /\ up'[s] = up[s]
      /\ \/ respCh'[s] = respCh[s]
         \/ respCh[s] # <<>> /\ respCh'[s] = Tail(respCh[s])
      /\ down' = down \/ CloseClientEnd(s)
  <2>1. CASE CallAnswered(s)
    <3>1. /\ cl[s] \in {"hello", "call"} /\ cl'[s] \in {"over", "idle"}
          /\ reader'[s] = reader[s] /\ up'[s] = up[s]
      BY <2>1 DEF CallAnswered, InCall, Types, ClientTypes
    <3>2. respCh[s] # <<>> /\ respCh'[s] = Tail(respCh[s])
      BY <2>1 DEF CallAnswered, Types, ClientTypes
    <3>3. down' = down \/ CloseClientEnd(s)
      BY <2>1, Zenon DEF CallAnswered
    <3>4. QED
      BY <3>1, <3>2, <3>3
  <2>2. CASE CallEnded(s)
    <3>1. /\ cl[s] \in {"hello", "call"} /\ cl'[s] \in {"over", "idle"}
          /\ reader'[s] = reader[s] /\ up'[s] = up[s] /\ respCh'[s] = respCh[s]
      BY <2>2 DEF CallEnded, InCall, Types, ClientTypes
    <3>2. down' = down \/ CloseClientEnd(s)
      BY <2>2, Zenon DEF CallEnded
    <3>3. QED
      BY <3>1, <3>2
  <2>3. CASE DialFails(s)
    BY <2>3 DEF DialFails, Types, ClientTypes
  <2>4. QED
    BY <2>1, <2>2, <2>3
<1>2. Len(up[s]) \in Nat /\ Len(down[s]) \in Nat /\ Len(respCh[s]) \in Nat
  BY Lengths
<1>3. CallOwes(cl'[s]) < CallOwes(cl[s])
  BY <1>1, ClientSpans
<1>4. Len(respCh'[s]) <= Len(respCh[s])
  BY <1>1, HandedLengths, Zenon
<1>5. Len(down'[s]) <= Len(down[s])
  <2>1. CASE down' = down
    BY <1>2, <2>1
  <2>2. CASE CloseClientEnd(s)
    BY <2>2, ClosedLengths
  <2>3. QED
    BY <1>1, <2>1, <2>2
<1>6. /\ CallOwes(cl'[s]) <= CallOwes(cl[s])
      /\ ReadOwes(reader'[s]) <= ReadOwes(reader[s]) /\ Len(up'[s]) = Len(up[s])
  BY <1>1, <1>3, WeightTypes
<1>7. QED
  BY <1>3, <1>4, <1>5, <1>6, ClientLess

LEMMA ReadLess ==
  ASSUME Types, Types', NEW s \in Sessions, Read(s)
  PROVE  ClientOwes(s)' < ClientOwes(s)
<1>1. down[s] # <<>> /\ down'[s] = Tail(down[s]) /\ down[s] \in Seq(Answers \cup Farewells)
  BY DEF Read, Types, ConnTypes
<1>2. Len(down'[s]) = Len(down[s]) - 1
  BY <1>1, Taken
<1>3. /\ cl'[s] = cl[s] /\ up'[s] = up[s] /\ reader[s] = "receive"
      /\ reader'[s] \in {"receive", "returned"}
      /\ \/ respCh'[s] = respCh[s]
         \/ respCh[s] = <<>> /\ \E m : respCh'[s] = <<m>>
  BY DEF Read, ReadReturns, Types, ClientTypes
<1>5. Len(respCh'[s]) <= Len(respCh[s]) + 1
  BY <1>3, HandedLengths, Zenon
<1>6. ReadOwes(reader'[s]) <= ReadOwes(reader[s])
  BY <1>3, ClientSpans
<1>7. CallOwes(cl'[s]) = CallOwes(cl[s]) /\ Len(up'[s]) = Len(up[s])
  BY <1>3
<1>8. QED
  BY <1>2, <1>5, <1>6, <1>7, ClientLess

LEMMA ReadFailsLess ==
  ASSUME Types, Types', NEW s \in Sessions, ReadFails(s)
  PROVE  ClientOwes(s)' < ClientOwes(s)
<1>1. /\ cl' = cl /\ up' = up /\ down' = down /\ respCh' = respCh
      /\ reader[s] = "receive" /\ reader'[s] = "returned"
  BY DEF ReadFails, ReadReturns, Types, ClientTypes, connVars
<1>2. Len(up[s]) \in Nat /\ Len(down[s]) \in Nat /\ Len(respCh[s]) \in Nat
  BY Lengths
<1>3. ReadOwes(reader'[s]) < ReadOwes(reader[s])
  BY <1>1, ClientSpans, Zenon
<1>4. /\ Len(up'[s]) = Len(up[s]) /\ Len(down'[s]) <= Len(down[s])
      /\ Len(respCh'[s]) <= Len(respCh[s]) /\ CallOwes(cl'[s]) <= CallOwes(cl[s])
      /\ ReadOwes(reader'[s]) <= ReadOwes(reader[s])
  BY <1>1, <1>2, <1>3, WeightTypes
<1>5. QED
  BY <1>3, <1>4, ClientLess

LEMMA ClientLowers ==
  ASSUME Types, Types', NEW s \in Sessions, ClientReturns(s) \/ ClientReads(s),
         UNCHANGED serverVars
  PROVE  /\ Owes(s)' < Owes(s) /\ sig' = sig
         /\ \A c \in Sessions \ {s} : Owes(c)' = Owes(c)
<1>1. srv' = srv /\ watcher' = watcher /\ sig' = sig
  BY DEF serverVars
<1>2. \/ SendHello(s) \/ CallAnswered(s) \/ CallEnded(s) \/ DialFails(s)
      \/ Read(s) \/ ReadFails(s)
  BY DEF ClientReturns, ClientReads, Greeted
<1>3. ClientOwes(s)' < ClientOwes(s)
  BY <1>2, HelloLess, ReturnLess, ReadLess, ReadFailsLess
<1>4. Owes(s)' < Owes(s)
  BY <1>1, <1>3, ClientOwed
<1>5. ASSUME NEW c \in Sessions \ {s}
      PROVE  /\ up'[c] = up[c] /\ down'[c] = down[c] /\ ClientSame(c)
             /\ reader'[c] = reader[c]
  <2>1. up'[c] = up[c] /\ down'[c] = down[c] /\ ClientSame(c)
    BY <1>2, ClientAlone
  <2>2. reader'[c] = reader[c]
    BY <1>2 DEF SendHello, BeginCall, CallAnswered, CallEnded, DialFails, Read, ReadReturns,
       ReadFails, Types, ClientTypes
  <2>3. QED
    BY <2>1, <2>2
<1>6. \A c \in Sessions \ {s} : Owes(c)' = Owes(c)
  BY <1>1, <1>5, SameOwed DEF ClientSame
<1>7. QED
  BY <1>1, <1>4, <1>6

\* A sum is no larger when three of its terms are not.
LEMMA SumFalls ==
  ASSUME NEW p \in Nat, NEW p1 \in Nat, p1 <= p,
         NEW w \in Nat, NEW w1 \in Nat, w1 <= w,
         NEW u \in Nat, NEW u1 \in Nat, u1 <= u,
         NEW k \in Nat, NEW r \in Nat, NEW d \in Nat, NEW a \in Nat
  PROVE  p1 + w1 + k + r + 6 * u1 + 2 * d + a <= p + w + k + r + 6 * u + 2 * d + a
OBVIOUS

\* The end of the daemon: whoever it ends owes nothing more on its account.
LEMMA EndedOwes ==
  ASSUME Types, Types', NEW c \in Sessions,
         srv'[c] = srv[c] \/ srv'[c] = "gone",
         watcher'[c] = watcher[c] \/ watcher'[c] = "done",
         up'[c] = up[c] \/ up'[c] = <<>>,
         down'[c] = down[c], respCh'[c] = respCh[c], cl'[c] = cl[c], reader'[c] = reader[c]
  PROVE  Owes(c)' <= Owes(c)
<1> DEFINE p == ServeOwes(srv[c])     p1 == ServeOwes(srv'[c])
           w == WatchOwes(watcher[c]) w1 == WatchOwes(watcher'[c])
           k == CallOwes(cl[c])       r == ReadOwes(reader[c])
           u == Len(up[c])            u1 == Len(up'[c])
           d == Len(down[c])          a == Len(respCh[c])
<1>1. u \in Nat /\ u1 \in Nat /\ d \in Nat /\ a \in Nat
  BY Lengths, LengthsNext
<1>2. p \in Nat /\ w \in Nat /\ k \in Nat /\ r \in Nat
  BY WeightTypes
<1>3. (p1 = p \/ p1 = 0) /\ (w1 = w \/ w1 = 0)
  BY Weights, Zenon
<1>4. Len(<<>>) = 0
  OBVIOUS
<1>5. u1 = u \/ u1 = 0
  BY <1>4, Zenon
<1>6. Owes(c) = p + w + k + r + 6 * u + 2 * d + a
      /\ Owes(c)' = p1 + w1 + k + r + 6 * u1 + 2 * d + a
  BY Sums
<1> HIDE DEF p, p1, w, w1, k, r, u, u1, d, a
<1>7. p1 + w1 + k + r + 6 * u1 + 2 * d + a <= p + w + k + r + 6 * u + 2 * d + a
  <2>1. p1 \in Nat /\ p1 <= p /\ w1 \in Nat /\ w1 <= w
    BY <1>2, <1>3
  <2>2. u1 <= u
    BY <1>1, <1>5
  <2>3. QED
    BY <1>1, <1>2, <2>1, <2>2, SumFalls
<1>8. QED
  BY <1>6, <1>7

LEMMA SignalFalls ==
  /\ SignalOwes("broadcast") < SignalOwes("replace")
  /\ SignalOwes("wait") < SignalOwes("broadcast")
  /\ SignalOwes("ended") < SignalOwes("drained")
  /\ SignalOwes("exited") < SignalOwes("ended")
BY Weights

LEMMA SignalLowers ==
  ASSUME Types, Types', SignalStep, UNCHANGED clientVars
  PROVE  /\ Owes(Sighup)' < Owes(Sighup)
         /\ \A c \in Sessions : Owes(c)' <= Owes(c)
<1>1. Owes(Sighup) = SignalOwes(sig) /\ Owes(Sighup)' = SignalOwes(sig')
  BY Zenon DEF Owes
<1>2. \/ sig = "replace" /\ sig' = "broadcast"
      \/ sig = "broadcast" /\ sig' = "wait"
      \/ sig = "drained" /\ sig' = "ended"
      \/ sig = "ended" /\ sig' = "exited"
  BY DEF SignalStep, SighupReplace, SighupBroadcast, ShutdownClose, ProcessExit, SigFrame
<1>3. SignalOwes(sig') < SignalOwes(sig)
  BY <1>2, SignalFalls, Zenon
<1>4. ASSUME NEW c \in Sessions
      PROVE  Owes(c)' <= Owes(c)
  <2>1. down'[c] = down[c]
    BY DEF SignalStep, SighupReplace, SighupBroadcast, ShutdownClose, ProcessExit, SigFrame
  <2>2. watcher'[c] = watcher[c] \/ watcher'[c] = "done"
    BY DEF SignalStep, SighupReplace, SighupBroadcast, ShutdownClose, ProcessExit, SigFrame
  <2>3. srv'[c] = srv[c] \/ srv'[c] = "gone"
    BY DEF SignalStep, SighupReplace, SighupBroadcast, ShutdownClose, ProcessExit
  <2>4. up'[c] = up[c] \/ up'[c] = <<>>
    BY DEF SignalStep, SighupReplace, SighupBroadcast, ShutdownClose, ProcessExit,
       CloseServerEnd
  <2>5. QED
    BY <2>1, <2>2, <2>3, <2>4, EndedOwes DEF clientVars
<1>5. QED
  BY <1>1, <1>3, <1>4

LEMMA OwesNat ==
  ASSUME Types, NEW c \in Sessions
  PROVE  Owes(c) \in Nat
<1> DEFINE p == ServeOwes(srv[c]) w == WatchOwes(watcher[c]) k == CallOwes(cl[c])
           r == ReadOwes(reader[c]) u == Len(up[c]) d == Len(down[c]) a == Len(respCh[c])
<1>1. u \in Nat /\ d \in Nat /\ a \in Nat
  BY Lengths
<1>2. p \in Nat /\ w \in Nat /\ k \in Nat /\ r \in Nat
  BY WeightTypes
<1>3. Owes(c) = p + w + k + r + 6 * u + 2 * d + a
  BY Sums
<1> HIDE DEF p, w, k, r, u, d, a
<1>4. p + w + k + r + 6 * u + 2 * d + a \in Nat
  BY <1>1, <1>2
<1>5. QED
  BY <1>3, <1>4

LEMMA OwesNatNext ==
  ASSUME Types', NEW c \in Sessions
  PROVE  Owes(c)' \in Nat
<1> DEFINE p == ServeOwes(srv'[c]) w == WatchOwes(watcher'[c]) k == CallOwes(cl'[c])
           r == ReadOwes(reader'[c]) u == Len(up'[c]) d == Len(down'[c]) a == Len(respCh'[c])
<1>1. u \in Nat /\ d \in Nat /\ a \in Nat
  BY LengthsNext
<1>2. p \in Nat /\ w \in Nat /\ k \in Nat /\ r \in Nat
  BY WeightTypes
<1>3. Owes(c)' = p + w + k + r + 6 * u + 2 * d + a
  BY Sums
<1> HIDE DEF p, w, k, r, u, d, a
<1>4. p + w + k + r + 6 * u + 2 * d + a \in Nat
  BY <1>1, <1>2
<1>5. QED
  BY <1>3, <1>4

\* Each of the program's own steps costs somebody and nobody else.
LEMMA EveryStepLowers ==
  ASSUME Types, Types', ReplyReady, ProgramsOwn
  PROVE  /\ \A r \in Rebooters : Owes(r)' <= Owes(r)
         /\ \E r \in Rebooters : Owes(r)' < Owes(r)
<1>1. ASSUME NEW s \in Sessions, Owes(s)' < Owes(s), sig' = sig,
             \A c \in Sessions \ {s} : Owes(c)' = Owes(c)
      PROVE  /\ \A r \in Rebooters : Owes(r)' <= Owes(r)
             /\ \E r \in Rebooters : Owes(r)' < Owes(r)
  <2>1. Owes(Sighup) = SignalOwes(sig) /\ Owes(Sighup)' = SignalOwes(sig)
    BY <1>1, Zenon DEF Owes
  <2>2. Owes(Sighup)' <= Owes(Sighup)
    BY <2>1, WeightTypes
  <2>3. \A c \in Sessions : Owes(c) \in Nat
    BY OwesNat
  <2>4. Owes(s)' \in Nat
    BY OwesNatNext
  <2>5. \A c \in Sessions : Owes(c)' <= Owes(c)
    BY <1>1, <2>3, <2>4
  <2>6. QED
    BY <1>1, <2>2, <2>5 DEF Rebooters
<1>2. CASE SignalStep /\ UNCHANGED clientVars
  <2>1. /\ Owes(Sighup)' < Owes(Sighup)
        /\ \A c \in Sessions : Owes(c)' <= Owes(c)
    BY <1>2, SignalLowers
  <2>2. Owes(Sighup)' <= Owes(Sighup)
    <3>1. Owes(Sighup) = SignalOwes(sig) /\ Owes(Sighup)' = SignalOwes(sig')
      BY Zenon DEF Owes
    <3>2. SignalOwes(sig) \in Nat /\ SignalOwes(sig') \in Nat
      BY WeightTypes
    <3>3. QED
      BY <2>1, <3>1, <3>2
  <2>3. QED
    BY <2>1, <2>2 DEF Rebooters
<1>3. ASSUME NEW s \in Sessions, Serve(s) \/ Watch(s) \/ AcceptLoop(s), UNCHANGED clientVars
      PROVE  /\ \A r \in Rebooters : Owes(r)' <= Owes(r)
             /\ \E r \in Rebooters : Owes(r)' < Owes(r)
  BY <1>1, <1>3, ServeLowers, WatchLowers, AcceptLowers
<1>4. ASSUME NEW s \in Sessions, ClientReturns(s) \/ ClientReads(s), UNCHANGED serverVars
      PROVE  /\ \A r \in Rebooters : Owes(r)' <= Owes(r)
             /\ \E r \in Rebooters : Owes(r)' < Owes(r)
  BY <1>1, <1>4, ClientLowers
<1>5. QED
  BY <1>2, <1>3, <1>4 DEF ProgramsOwn, ProgramStep, AcceptLoop

\* Left to itself the program comes to rest: every step of its own costs one of
\* its goroutines something and none of the others anything, whatever answers
\* and farewells it makes them handle.
THEOREM StepsTheorem == Spec => StepsRunOut
<1>1. IInv /\ [Next]_vars =>
        [ProgramsOwn =>
           /\ \A r \in Rebooters : Owes(r)' <= Owes(r)
           /\ \E r \in Rebooters : Owes(r)' < Owes(r)]_vars
  <2> SUFFICES ASSUME IInv, Next, ProgramsOwn
               PROVE  /\ \A r \in Rebooters : Owes(r)' <= Owes(r)
                      /\ \E r \in Rebooters : Owes(r)' < Owes(r)
    OBVIOUS
  <2>1. Types /\ ReplyReady /\ Types'
    BY NextTypes DEF IInv
  <2>2. QED
    BY <2>1, EveryStepLowers
<1>2. QED
  BY Invariance, <1>1, PTL DEF Spec, StepsRunOut

\* Those who owe anything: whatever happens, happens to one session, or takes
\* something from everybody.
Owing == {r \in Rebooters : Owes(r) # 0}

LEMMA OthersOwe ==
  ASSUME Types, Types', ReplyReady, [Next]_vars
  PROVE  \/ \A c \in Sessions : Owes(c)' <= Owes(c)
         \/ \E s \in Sessions : \A c \in Sessions \ {s} : Owes(c)' = Owes(c)
<1>1. ASSUME NEW s \in Sessions, ServerStep(s)
      PROVE  \A c \in Sessions \ {s} : Owes(c)' = Owes(c)
  BY <1>1, ServeLowers, WatchLowers, AcceptLowers DEF ServerStep
<1>2. ASSUME NEW s \in Sessions, Dial(s)
      PROVE  \A c \in Sessions \ {s} : Owes(c)' = Owes(c)
  BY <1>2, SameOwed DEF Dial, Goto, Types, ServerTypes, ClientTypes, connVars
<1>3. ASSUME NEW s \in Sessions, Request(s) \/ ClientStep(s)
      PROVE  \A c \in Sessions \ {s} : Owes(c)' = Owes(c)
  <2>1. CASE (ClientReturns(s) \/ ClientReads(s)) /\ UNCHANGED serverVars
    BY <2>1, ClientLowers
  <2>2. CASE \/ SendAudit(s) \/ CloseClient(s) \/ Crash(s)
             \/ \E m : StartCall(s, m)
    <3>1. srv' = srv /\ watcher' = watcher
      BY <1>3, ClientsKeep DEF Request, serverVars
    <3>2. ASSUME NEW c \in Sessions \ {s}
          PROVE  /\ up'[c] = up[c] /\ down'[c] = down[c] /\ ClientSame(c)
                 /\ reader'[c] = reader[c]
      <4>1. up'[c] = up[c] /\ down'[c] = down[c] /\ ClientSame(c)
        BY <2>2, ClientAlone
      <4>2. reader'[c] = reader[c]
        BY <2>2 DEF SendAudit, CloseClient, Crash, StartCall, Types, ClientTypes
      <4>3. QED
        BY <4>1, <4>2
    <3>3. QED
      BY <3>1, <3>2, SameOwed DEF ClientSame
  <2>3. QED
    BY <1>3, <2>1, <2>2 DEF Request, ClientStep, Log, serverVars
<1>4. CASE WriteDisk \/ UNCHANGED vars
  <2>1. \A c \in Sessions : Owes(c)' = Owes(c)
    BY <1>4, SameOwed DEF WriteDisk, vars, connVars, clientVars, serverVars
  <2>2. QED
    BY <2>1, OwesNat
<1>5. CASE ProcessStep
  <2>1. CASE SignalStep /\ UNCHANGED clientVars
    BY <2>1, SignalLowers
  <2>2. CASE (SighupReload \/ ShutdownBroadcast) /\ UNCHANGED clientVars
    <3>1. /\ srv' = srv /\ watcher' = watcher /\ up' = up /\ down' = down
      BY <2>2 DEF SighupReload, ShutdownBroadcast, SigFrame
    <3>2. \A c \in Sessions : Owes(c)' = Owes(c)
      BY <2>2, <3>1, SameOwed DEF clientVars
    <3>3. QED
      BY <3>2, OwesNat
  <2>3. QED
    BY <1>5, <2>1, <2>2 DEF ProcessStep
<1>6. QED
  BY <1>1, <1>2, <1>3, <1>4, <1>5, Steps

\* However many connections are attempted, only finitely many goroutines owe
\* anything at any one time, so that what the program owes is a finite sum.
THEOREM OwingTheorem == Spec => []IsFiniteSet(Owing)
<1>1. Init => IsFiniteSet(Owing)
  <2> SUFFICES ASSUME Init PROVE IsFiniteSet(Owing)
    OBVIOUS
  <2>1. ASSUME NEW c \in Sessions PROVE Owes(c) = 0
    <3>1. /\ srv[c] = "none" /\ watcher[c] = "none" /\ cl[c] = "off" /\ reader[c] = "off"
          /\ up[c] = <<>> /\ down[c] = <<>> /\ respCh[c] = <<>>
      BY DEF Init, ServerInit, ClientInit, ConnInit
    <3>2. /\ ServeOwes(srv[c]) = 0 /\ WatchOwes(watcher[c]) = 0 /\ CallOwes(cl[c]) = 0
          /\ ReadOwes(reader[c]) = 0
      BY <3>1, Weights, Zenon
    <3>3. Len(<<>>) = 0
      OBVIOUS
    <3>4. Len(up[c]) = 0 /\ Len(down[c]) = 0 /\ Len(respCh[c]) = 0
      BY <3>1, <3>3, Zenon
    <3>5. Owes(c) = 0 + 0 + 0 + 0 + 6 * 0 + 2 * 0 + 0
      BY <3>2, <3>4, Sums, Zenon
    <3>6. QED
      BY <3>5
  <2>2. Owing \subseteq {} \cup {Sighup}
    BY <2>1 DEF Owing, Rebooters
  <2>3. QED
    BY <2>2, FS_EmptySet, FS_AddElement, FS_Subset
<1>2. IInv /\ [Next]_vars /\ IsFiniteSet(Owing) => IsFiniteSet(Owing)'
  <2> SUFFICES ASSUME IInv, [Next]_vars, IsFiniteSet(Owing) PROVE IsFiniteSet(Owing)'
    OBVIOUS
  <2>1. Types /\ ReplyReady /\ Types'
    BY NextTypes DEF IInv
  <2>2. ASSUME NEW c \in Sessions, Owes(c)' <= Owes(c), Owes(c) = 0 PROVE Owes(c)' = 0
    <3>1. Owes(c)' \in Nat
      BY <2>1, OwesNatNext
    <3>2. QED
      BY <2>2, <3>1
  <2>3. \E s : Owing' \subseteq (Owing \cup {s}) \cup {Sighup}
    <3>1. \E s : \A c \in Sessions : c # s /\ Owes(c) = 0 => Owes(c)' = 0
      BY <2>1, <2>2, OthersOwe
    <3>2. QED
      BY <3>1 DEF Owing, Rebooters
  <2>4. PICK s : Owing' \subseteq (Owing \cup {s}) \cup {Sighup}
    BY <2>3
  <2>5. IsFiniteSet((Owing \cup {s}) \cup {Sighup})
    BY FS_AddElement
  <2>6. QED
    BY <2>4, <2>5, FS_Subset
<1>3. QED
  BY Invariance, <1>1, <1>2, PTL DEF Spec
=============================================================================
