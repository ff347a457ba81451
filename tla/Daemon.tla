------------------------------- MODULE Daemon --------------------------------
(***************************************************************************)
(* routerclid and the CLI processes attached to it: DaemonServer at one    *)
(* end of every connection, RemoteClient at the other.  What people do to  *)
(* the system once connected - requests, closing or killing a CLI,         *)
(* signals - is drawn from one budget of MaxEvents, and they change the    *)
(* files on disk at most MaxWrites times; everything else is the           *)
(* program's own doing.                                                    *)
(***************************************************************************)
EXTENDS DaemonServer, RemoteClient

CONSTANTS
  Kinds,      \* the kinds of request clients make
  MaxEvents,  \* bound on what people do, all sessions together
  MaxWrites   \* bound on the versions of the files on disk

ASSUME DaemonAssumption ==
  /\ Kinds \subseteq {"Audit", "ListUsers", "Disconnect", "Reboot"}
  /\ {MaxEvents, MaxWrites} \subseteq Nat

VARIABLE budget   \* how much of it is left

vars == <<connVars, directoryVars, serverVars, clientVars, budget>>

Init ==
  /\ ConnInit
  /\ DirectoryInit
  /\ ServerInit
  /\ ClientInit
  /\ budget = MaxEvents

Spend == budget > 0 /\ budget' = budget - 1

-----------------------------------------------------------------------------
(* The two ends together.                                                  *)

\* Dial reaches the socket; the accept loop has yet to take the connection.
Dial(s) ==
  /\ cl[s] = "off"
  /\ listening
  /\ cl' = [cl EXCEPT ![s] = "dial"]
  /\ Goto(s, "queued")
  /\ UNCHANGED <<acceptVars, reply, watcher, text, sig, stateVars, granted,
                 connVars, directoryVars, want, result, respCh, reader, told,
                 budget>>

\* The handshake fails at this end.
DialFails(s) ==
  /\ cl[s] = "dial"
  /\ srv[s] = "gone"
  /\ cl' = [cl EXCEPT ![s] = "over"]
  /\ CloseClientEnd(s)
  /\ UNCHANGED <<up, srvOpen, want, result, respCh, reader, told>>

\* Dial returns only after the daemon's side of the handshake.
Greeted(s) == srv[s] \notin {"queued", "handshake"} /\ SendHello(s)

Requests ==
  (UNION {[kind : {k}] : k \in Kinds \cap {"ListUsers", "Reboot"}}) \cup
  IF "Disconnect" \in Kinds
  THEN [kind : {"Disconnect"}, user : Users, id : Sessions \cup {AnyID}]
  ELSE {}

Request(s) ==
  /\ Spend
  /\ \E m \in Requests : StartCall(s, m)
  /\ granted' = granted \ {s}
  /\ UNCHANGED <<acceptVars, srv, reply, watcher, text, sig, stateVars,
                 directoryVars>>

Log(s) ==
  /\ "Audit" \in Kinds
  /\ Spend
  /\ SendAudit(s)
  /\ UNCHANGED <<serverVars, directoryVars>>

\* Somebody saves other files for the daemon to load.
WriteDisk ==
  /\ disk < MaxWrites
  /\ disk' = disk + 1
  /\ UNCHANGED <<acceptVars, srv, reply, watcher, text, sig, canonical, loaded,
                 overtaken, granted, connVars, directoryVars, clientVars,
                 budget>>

ClientReturns(s) ==
  Greeted(s) \/ CallAnswered(s) \/ CallEnded(s) \/ DialFails(s)
ClientReads(s) == Read(s) \/ ReadFails(s)

Serve(s) ==
  \/ Hello(s) \/ NoHello(s) \/ Greet(s)
  \/ ReceiveFails(s) \/ Goodbye(s) \/ AuditEvent(s) \/ ListUsers(s)
  \/ \E kind \in {"Disconnect", "Reboot"} : Refuse(s, kind)
  \/ DisconnectUser(s) \/ RebootRequest(s) \/ ReplaceState(s)
  \/ SendReply(s) \/ RebootBroadcast(s)
  \/ DeferredUnregister(s) \/ DeferredClose(s)

Watch(s) ==
  WatcherTakes(s) \/ WatcherDone(s) \/ WatcherSends(s) \/ WatcherCloses(s)

AcceptLoop(s) == Accept(s) \/ HandshakeDone(s) \/ HandshakeFails(s)

SignalStep ==
  SighupReplace \/ SighupBroadcast \/ ShutdownClose \/ ProcessExit

Next ==
  \/ \E s \in Sessions :
       \/ Dial(s) \/ Request(s) \/ Log(s)
       \/ /\ ClientReturns(s) \/ ClientReads(s)
          /\ UNCHANGED <<serverVars, directoryVars, budget>>
       \/ /\ Spend
          /\ CloseClient(s) \/ Crash(s)
          /\ UNCHANGED <<serverVars, directoryVars>>
       \/ /\ Serve(s) \/ Watch(s) \/ AcceptLoop(s)
          /\ UNCHANGED <<clientVars, budget>>
  \/ WriteDisk
  \/ Spend /\ (SighupReload \/ ShutdownBroadcast) /\ UNCHANGED clientVars
  \/ SignalStep /\ UNCHANGED <<clientVars, budget>>

Spec == Init /\ [][Next]_vars

(***************************************************************************)
(* Fairness: the program does not rest while one of its goroutines can     *)
(* take a step.  Its own steps cannot go on for ever, so no goroutine is   *)
(* starved.  A handshake ends because of HandshakeTimeout, not because the *)
(* peer is known to speak, and nothing makes a client connect, ask, close  *)
(* or crash.                                                               *)
(***************************************************************************)
ProgramStep ==
  \/ \E s \in Sessions :
       \/ /\ Accept(s) \/ HandshakeFails(s) \/ Serve(s) \/ Watch(s)
          /\ UNCHANGED <<clientVars, budget>>
       \/ /\ ClientReturns(s) \/ ClientReads(s)
          /\ UNCHANGED <<serverVars, directoryVars, budget>>
  \/ SignalStep /\ UNCHANGED <<clientVars, budget>>

FairSpec == Spec /\ WF_vars(ProgramStep)

-----------------------------------------------------------------------------
(* What the goroutines wait for, one wait at a time.                       *)

CanServe(s) ==
  \/ /\ srv[s] = "queued" /\ listening
     /\ \A t \in Sessions : srv[t] # "handshake"
  \/ srv[s] = "handshake" /\ TimesOut(s)
  \/ srv[s] \in {"hello", "loop"} /\ (up[s] # <<>> \/ ServerReceiveFails(s))
  \/ srv[s] \in {"greet", "replace", "reply", "broadcast", "leave", "close"}

CanWatch(s) ==
  \/ watcher[s] = "select" /\ (farewell[s] # <<>> \/ SeesDone(s))
  \/ watcher[s] \in {"send", "close"}

CanReturn(s) ==
  \/ cl[s] = "dial" /\ srv[s] \notin {"queued", "handshake"}
  \/ InCall(s) /\ (respCh[s] # <<>> \/ EndsWithConnection(s))

CanRead(s) ==
  /\ reader[s] = "receive"
  /\ \/ ClientReceiveFails(s)
     \/ /\ down[s] # <<>>
        /\ respCh[s] = <<>> \/ Done(s) \/ Head(down[s]).kind = "Farewell"

CanSignal ==
  \/ sig \in {"replace", "broadcast", "drained"}
  \/ sig = "ended" /\ \A s \in Sessions : srv[s] # "handshake"

CanStep ==
  \/ \E s \in Sessions : CanServe(s) \/ CanWatch(s) \/ CanReturn(s) \/ CanRead(s)
  \/ CanSignal

(***************************************************************************)
(* What a goroutine still owes where it is: steps of its own and, for      *)
(* every message it has yet to send, the steps it takes to handle that.    *)
(***************************************************************************)
ServeOwes(place) ==
  CASE place = "queued" -> 15    [] place = "handshake" -> 14
    [] place = "hello" -> 13     [] place = "greet" -> 12
    [] place = "replace" -> 8    [] place = "reply" -> 7
    [] place = "broadcast" -> 4  [] place = "loop" -> 3
    [] place = "leave" -> 2      [] place = "close" -> 1
    [] OTHER -> 0
WatchOwes(place) ==
  CASE place = "select" -> 5 [] place = "send" -> 4 [] place = "close" -> 1
    [] OTHER -> 0
CallOwes(place) ==
  CASE place = "dial" -> 9 [] place \in {"hello", "call"} -> 1 [] OTHER -> 0
ReadOwes(place) == IF place = "receive" THEN 1 ELSE 0
SignalOwes(place) ==
  CASE place \in {"replace", "drained"} -> 2 [] place \in {"broadcast", "ended"} -> 1
    [] OTHER -> 0

Owes(r) ==
  IF r = Sighup
  THEN SignalOwes(sig)
  ELSE ServeOwes(srv[r]) + WatchOwes(watcher[r]) + CallOwes(cl[r])
         + ReadOwes(reader[r])
         + 6 * Len(up[r]) + 2 * Len(down[r]) + Len(respCh[r])

-----------------------------------------------------------------------------
(* Properties.                                                             *)

Answers == [kind : {"Hello", "ListUsers", "Disconnect", "Reboot"}, ok : BOOLEAN]
Farewells ==
  [kind : {"Farewell"}, text : {"rebooting", "disconnected", ""}]
Messages == Requests \cup [kind : {"Hello", "Audit", "Goodbye"}]

TypeOK ==
  /\ up \in [Sessions -> Seq(Messages)]
  /\ down \in [Sessions -> Seq(Answers \cup Farewells)]
  /\ cliOpen \in [Sessions -> BOOLEAN]
  /\ srvOpen \in [Sessions -> BOOLEAN]
  /\ registered \subseteq Sessions
  /\ \A s \in Sessions :
       /\ Len(farewell[s]) <= 1
       /\ Len(reply[s]) <= 1
       /\ Len(respCh[s]) <= 1
       /\ \A i \in DOMAIN respCh[s] : respCh[s][i] \in Answers
       /\ srv[s] \in {"none", "queued", "handshake", "hello", "greet", "loop",
                      "replace", "reply", "broadcast", "leave", "close", "gone"}
       /\ watcher[s] \in {"none", "select", "send", "close", "done"}
       /\ cl[s] \in {"off", "dial", "hello", "call", "idle", "over", "dead"}
       /\ reader[s] \in {"off", "receive", "returned"}
       /\ told[s] \in {"none", "lost", "disconnected", "rebooting"}
       /\ result[s] \in {"none", "ok", "error"}
  /\ ceiling \in Ceilings
  /\ slots \in 0..ceiling
  /\ listening \in BOOLEAN
  /\ sig \in {"wait", "replace", "broadcast", "drained", "ended", "exited"}
  /\ {disk, canonical} \subseteq 0..MaxWrites
  /\ loaded \in [Rebooters -> 0..MaxWrites]
  /\ overtaken \subseteq Rebooters
  /\ granted \subseteq Sessions
  /\ budget \in 0..MaxEvents

\* A slot is held by exactly the connections being served, whichever way
\* each of them ends, so the daemon neither exceeds MaxConcurrentConnections
\* nor runs out of slots that nobody holds (Serve).
SlotsExact == slots = Cardinality({s \in Sessions : Served(s)})

\* The directory reports no session whose connection has ended: it "must not
\* keep reporting a session nothing can reach" (Unregister).
DirectoryIsServed ==
  \A s \in registered :
    srv[s] \in {"greet", "loop", "replace", "reply", "broadcast", "leave"}

\* Until the connection is over, what the read loop hands over is the answer
\* to the call in progress, although nothing tags it with one (readLoop).
AnswerIsForCall ==
  \A s \in Sessions :
    respCh[s] # <<>> /\ ~Done(s) =>
      InCall(s) /\ Head(respCh[s]).kind = want[s]

\* A client told its request succeeded can rely on it: the daemon did push
\* the one farewell asked for, or did replace the canonical state.
OkMeansDone ==
  \A s \in Sessions :
    /\ cl[s] = "idle"
    /\ ~Done(s)
    /\ result[s] = "ok"
    /\ want[s] \in {"Disconnect", "Reboot"}
    => s \in granted

\* FarewellChannel carries one value for the life of a client, whatever
\* farewell, send failure and receive failure come in what order (fail).
ToldOnce ==
  [][\A s \in Sessions : Done(s) => told'[s] = told[s]]_vars

\* A reboot puts an older state in place of a newer one only when another
\* reboot came between its own reload and its own replace.
OlderOnlyIfOvertaken ==
  [][canonical' < canonical =>
       \E r \in overtaken : canonical' = loaded[r]]_vars

\* Whenever no goroutine of the program can move, nobody is left waiting on
\* somebody else: every call has returned, every session told to go is gone,
\* every ended one has let go of its watcher and its slot, and the end of the
\* daemon has reached every client.
AtRest ==
  /\ \A s \in Sessions :
       /\ ~InCall(s)
       /\ farewell[s] # <<>> => s \notin registered
       /\ LoopOver(s) => watcher[s] \in {"none", "done"}
       /\ Served(s) => cliOpen[s] /\ ~Done(s)
       /\ sig = "exited" /\ cl[s] = "idle" => Done(s)
  /\ sig \in {"wait", "exited"}
NothingStuck == CanStep \/ AtRest

\* The waits listed are all there are: whoever has what it waits for can move,
\* whatever the others are doing, and nobody else can.
WaitsAreExact == CanStep <=> ENABLED ProgramStep

\* No goroutine keeps the others busy for ever: every step of the program's
\* own brings it nearer to rest, at nobody else's expense - no answer is asked
\* for again, no failed receive tried again.
ProgramsOwn ==
  \/ ProgramStep
  \/ \E s \in Sessions : HandshakeDone(s) /\ UNCHANGED <<clientVars, budget>>
StepsRunOut ==
  [][ProgramsOwn =>
       /\ \A r \in Rebooters : Owes(r)' <= Owes(r)
       /\ \E r \in Rebooters : Owes(r)' < Owes(r)]_vars

\* A call returns, whatever happens to the daemon or the connection.
CallReturns == \A s \in Sessions : InCall(s) ~> ~InCall(s)

\* A session that is pushed a farewell, or that a SIGHUP reboot is about to
\* tell, ends and leaves the directory, whatever its client does.
ToldSessionEnds ==
  \A s \in Sessions :
    (s \in registered /\ (farewell[s] # <<>> \/ sig = "broadcast"))
      ~> s \notin registered

\* Nobody keeps a place for ever: a peer that connects and stays silent not the
\* head of the accept loop, so that those queued behind it are taken, and a
\* client that closes or is killed not its slot, Goodbye or not.
PlaceIsGivenUp ==
  \A s \in Sessions :
    /\ srv[s] = "queued" ~> srv[s] # "queued"
    /\ (Served(s) /\ ~cliOpen[s]) ~> ~Served(s)

\* After SIGTERM every attached client learns that its session is over, one
\* that the farewell broadcast came too early for included.
ShutdownTellsAll ==
  \A s \in Sessions :
    (sig = "drained" /\ cl[s] \in {"hello", "idle", "call"})
      ~> (Done(s) \/ cl[s] = "dead")

-----------------------------------------------------------------------------
(* What the comments say and the code does not do.                         *)

\* A Reboot is to "end every attached session, including this one"
\* (command/daemonclient.go, Reboot): once a request has replaced the state,
\* the sessions that were attached to it end.
RebootEndsAll ==
  \A r, s \in Sessions :
    /\ srv[r] = "reply"
    /\ [kind |-> Head(reply[r]).kind, ok |-> Head(reply[r]).ok]
         = [kind |-> "Reboot", ok |-> TRUE]
    /\ s \in registered
    ~> s \notin registered

\* A non-nil return from Reboot "means no reboot was triggered at all"
\* (command/daemonclient.go).
RebootErrorMeansNoReboot ==
  \A s \in Sessions :
    cl[s] = "idle" /\ want[s] = "Reboot" /\ result[s] = "error"
      => s \notin granted
=============================================================================
