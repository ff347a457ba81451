---------------------------- MODULE DaemonServer -----------------------------
(***************************************************************************)
(* daemon/server.go, with the signal goroutine and the exit of the         *)
(* routerclid process around it (example/cmd/multiuser/main.go).           *)
(*                                                                         *)
(* Per connection: the goroutine running serveConnection (srv) and its     *)
(* farewell watcher (watcher).  Shared: the accept loop, the connection    *)
(* slots, the session directory, the canonical state and what is on disk.  *)
(* The canonical state is the version of the files on disk it was built    *)
(* from.  A listing, an audit event and a refused request touch nothing    *)
(* shared, so receiving the message and answering it are one step.         *)
(***************************************************************************)
EXTENDS SessionDirectory

CONSTANTS
  Privileged,   \* sessions whose peer credential privilegedUIDs accepts
  Ceilings,     \* values of MaxConcurrentConnections to consider
  Sighup        \* the signal goroutine, as one who reboots

ASSUME ServerAssumption ==
  /\ Privileged \subseteq Sessions
  /\ Ceilings \subseteq Nat \ {0}
  /\ Sighup \notin Sessions

VARIABLES
  ceiling,      \* MaxConcurrentConnections, fixed when the daemon starts
  slots,        \* how many connection slots are taken
  listening,    \* the listener is open
  srv,          \* srv[s]: where serveConnection of s is
  reply,        \* reply[s]: the answer a handler is about to send
  watcher,      \* watcher[s]: "none", "select", "send", "close" or "done"
  text,         \* text[s]: the farewell s's watcher took
  sig,          \* where the signal goroutine is
  disk,         \* version of the files on disk
  canonical,    \* version the Store holds
  loaded,       \* loaded[r]: what r's reload read
  overtaken,    \* history: rebooters passed by another between load and replace
  granted       \* history: sessions whose current request the daemon did

acceptVars == <<ceiling, slots, listening>>
stateVars == <<disk, canonical, loaded, overtaken>>
serverVars == <<acceptVars, srv, reply, watcher, text, sig, stateVars, granted>>

Rebooters == Sessions \cup {Sighup}

\* The goroutine of s holds a slot.
Served(s) ==
  srv[s] \in {"hello", "greet", "loop", "replace", "reply", "broadcast",
              "leave", "close"}

\* serveConnection has returned, so doneCh is closed.
LoopOver(s) == srv[s] \in {"leave", "close", "gone"}

ServerInit ==
  /\ ceiling \in Ceilings
  /\ slots = 0
  /\ listening = TRUE
  /\ srv = [s \in Sessions |-> "none"]
  /\ reply = [s \in Sessions |-> <<>>]
  /\ watcher = [s \in Sessions |-> "none"]
  /\ text = [s \in Sessions |-> ""]
  /\ sig = "wait"
  /\ disk = 0
  /\ canonical = 0
  /\ loaded = [r \in Rebooters |-> 0]
  /\ overtaken = {}
  /\ granted = {}

Goto(s, place) == srv' = [srv EXCEPT ![s] = place]
-----------------------------------------------------------------------------
(* The accept loop.                                                        *)

\* Accept returns a connection; its handshake runs in the loop itself.
Accept(s) ==
  /\ listening
  /\ srv[s] = "queued"
  /\ \A t \in Sessions : srv[t] # "handshake"
  /\ Goto(s, "handshake")
  /\ UNCHANGED <<acceptVars, reply, watcher, text, sig, stateVars, granted,
                 connVars, directoryVars>>

\* At the ceiling a connection is closed rather than queued.
HasSlotUnlessOver == slots <= ceiling
HasSlot == slots < ceiling

HandshakeDone(s) ==
  /\ srv[s] = "handshake"
  /\ IF HasSlot
     THEN slots' = slots + 1 /\ Goto(s, "hello") /\ UNCHANGED <<up, srvOpen>>
     ELSE UNCHANGED slots /\ Goto(s, "gone") /\ CloseServerEnd({s})
  /\ UNCHANGED <<ceiling, listening, reply, watcher, text, sig, stateVars,
                 granted, down, cliOpen, directoryVars>>

\* HandshakeTimeout, or an error of the peer's: the loop goes on with the
\* next connection.
TimesOut(s) == TRUE
HandshakeFails(s) ==
  /\ srv[s] = "handshake"
  /\ TimesOut(s)
  /\ Goto(s, "gone")
  /\ CloseServerEnd({s})
  /\ UNCHANGED <<acceptVars, reply, watcher, text, sig, stateVars, granted,
                 down, cliOpen, directoryVars>>

-----------------------------------------------------------------------------
(* serveConnection.                                                        *)

\* Everything a step of serveConnection leaves alone unless it says so.
ServeFrame(s, place) ==
  /\ Goto(s, place)
  /\ UNCHANGED <<ceiling, listening, text, sig, disk>>

Hello(s) ==
  /\ srv[s] = "hello"
  /\ ~ServerReceiveFails(s)
  /\ up[s] # <<>>
  /\ up' = [up EXCEPT ![s] = Tail(@)]
  /\ Register(s)
  /\ ServeFrame(s, "greet")
  /\ UNCHANGED <<slots, reply, watcher, canonical, loaded, overtaken, granted,
                 down, cliOpen, srvOpen>>

\* No Hello: nothing was registered, so only the connection is closed.
NoHello(s) ==
  /\ srv[s] = "hello"
  /\ ServerReceiveFails(s)
  /\ ServeFrame(s, "close")
  /\ UNCHANGED <<slots, reply, watcher, canonical, loaded, overtaken, granted,
                 connVars, directoryVars>>

\* HelloResponse first; only then does the farewell watcher start.
AfterFailedGreetingForgetting == "close"
AfterFailedGreeting == "leave"
Greet(s) ==
  /\ srv[s] = "greet"
  /\ SendDown(s, [kind |-> "Hello", ok |-> TRUE])
  /\ ServeFrame(s, IF CanSend(s) THEN "loop" ELSE AfterFailedGreeting)
  /\ watcher' = [watcher EXCEPT ![s] = IF CanSend(s) THEN "select" ELSE @]
  /\ UNCHANGED <<slots, reply, canonical, loaded, overtaken, granted,
                 up, cliOpen, srvOpen, directoryVars>>

\* The loop receives a message of this kind.
Takes(s, kind) ==
  /\ srv[s] = "loop"
  /\ ~ServerReceiveFails(s)
  /\ up[s] # <<>>
  /\ Head(up[s]).kind = kind
  /\ up' = [up EXCEPT ![s] = Tail(@)]

ReceiveFails(s) ==
  /\ srv[s] = "loop"
  /\ ServerReceiveFails(s)
  /\ ServeFrame(s, "leave")
  /\ UNCHANGED <<slots, reply, watcher, canonical, loaded, overtaken, granted,
                 connVars, directoryVars>>

Goodbye(s) ==
  /\ Takes(s, "Goodbye")
  /\ ServeFrame(s, "leave")
  /\ UNCHANGED <<slots, reply, watcher, canonical, loaded, overtaken, granted,
                 down, cliOpen, srvOpen, directoryVars>>

\* LogAt and Touch; nothing is sent back.
AnsweredAudit(s) == SendDown(s, [kind |-> "Audit", ok |-> TRUE])
NoAnswer(s) == UNCHANGED down
AuditEvent(s) ==
  /\ Takes(s, "Audit")
  /\ ServeFrame(s, "loop")
  /\ NoAnswer(s)
  /\ UNCHANGED <<slots, reply, watcher, canonical, loaded, overtaken, granted,
                 cliOpen, srvOpen, directoryVars>>

ListUsers(s) ==
  /\ Takes(s, "ListUsers")
  /\ SendDown(s, [kind |-> "ListUsers", ok |-> TRUE])
  /\ ServeFrame(s, IF CanSend(s) THEN "loop" ELSE "leave")
  /\ UNCHANGED <<slots, reply, watcher, canonical, loaded, overtaken, granted,
                 cliOpen, srvOpen, directoryVars>>

\* A privileged request from a session that is not: audited and refused.
Refuse(s, kind) ==
  /\ s \notin Privileged
  /\ Takes(s, kind)
  /\ SendDown(s, [kind |-> kind, ok |-> FALSE])
  /\ ServeFrame(s, IF CanSend(s) THEN "loop" ELSE "leave")
  /\ UNCHANGED <<slots, reply, watcher, canonical, loaded, overtaken, granted,
                 cliOpen, srvOpen, directoryVars>>

\* What remains of a request: the answer, where to go when it was sent and
\* where to go when it could not be.
Answering(s, kind, ok, sent, failed) ==
  reply' = [reply EXCEPT ![s] =
    <<[kind |-> kind, ok |-> ok, sent |-> sent, failed |-> failed]>>]

DisconnectUser(s) ==
  /\ s \in Privileged
  /\ Takes(s, "Disconnect")
  /\ LET m == Head(up[s]) IN
       /\ Farewell(m.user, m.id, "disconnected")
       /\ Answering(s, "Disconnect", Resolves(m.user, m.id), "loop", "leave")
       /\ granted' = granted \cup (IF Resolves(m.user, m.id) THEN {s} ELSE {})
  /\ ServeFrame(s, "reply")
  /\ UNCHANGED <<slots, watcher, canonical, loaded, overtaken,
                 down, cliOpen, srvOpen>>

\* A rebooter reads what is on disk now ...
OnDiskAtStart(r) == IF r = Sighup THEN 0 ELSE disk
OnDisk(r) == disk
Load(r) ==
  /\ loaded' = [loaded EXCEPT ![r] = OnDisk(r)]
  /\ UNCHANGED <<canonical, overtaken>>

\* ... and replaces the canonical state, wholesale, with what it read.
Loading == {s \in Sessions : srv[s] = "replace"}
             \cup (IF sig = "replace" THEN {Sighup} ELSE {})
Replace(r) ==
  /\ canonical' = loaded[r]
  /\ loaded' = [loaded EXCEPT ![r] = 0]
  /\ overtaken' = (overtaken \cup Loading) \ {r}

RebootRequest(s) ==
  /\ s \in Privileged
  /\ Takes(s, "Reboot")
  /\ \/ Load(s) /\ ServeFrame(s, "replace") /\ UNCHANGED reply
     \/ /\ Answering(s, "Reboot", FALSE, "loop", "loop")   \* reload failed
        /\ ServeFrame(s, "reply")
        /\ UNCHANGED <<canonical, loaded, overtaken>>
  /\ UNCHANGED <<slots, watcher, granted, down, cliOpen, srvOpen,
                 directoryVars>>

ReplaceState(s) ==
  /\ srv[s] = "replace"
  /\ Replace(s)
  /\ granted' = granted \cup {s}
  /\ Answering(s, "Reboot", TRUE, "broadcast", "leave")
  /\ ServeFrame(s, "reply")
  /\ UNCHANGED <<slots, watcher, connVars, directoryVars>>

SendReply(s) ==
  /\ srv[s] = "reply"
  /\ LET r == Head(reply[s]) IN
       /\ SendDown(s, [kind |-> r.kind, ok |-> r.ok])
       /\ ServeFrame(s, IF CanSend(s) THEN r.sent ELSE r.failed)
  /\ reply' = [reply EXCEPT ![s] = <<>>]
  /\ UNCHANGED <<slots, watcher, canonical, loaded, overtaken, granted,
                 up, cliOpen, srvOpen, directoryVars>>

RebootBroadcast(s) ==
  /\ srv[s] = "broadcast"
  /\ BroadcastFarewell("rebooting")
  /\ ServeFrame(s, "loop")
  /\ UNCHANGED <<slots, reply, watcher, canonical, loaded, overtaken, granted,
                 connVars>>

\* The deferred calls, last first: doneCh is closed as the loop is left,
\* then Unregister, then the connection is closed and the slot released.
DeferredUnregister(s) ==
  /\ srv[s] = "leave"
  /\ Unregister(s)
  /\ ServeFrame(s, "close")
  /\ UNCHANGED <<slots, reply, watcher, canonical, loaded, overtaken, granted,
                 connVars>>

NotReleased == slots
Released == slots - 1
DeferredClose(s) ==
  /\ srv[s] = "close"
  /\ CloseServerEnd({s})
  /\ slots' = Released
  /\ ServeFrame(s, "gone")
  /\ UNCHANGED <<reply, watcher, canonical, loaded, overtaken, granted,
                 down, cliOpen, directoryVars>>

-----------------------------------------------------------------------------
(* The farewell watcher of s: one select, one farewell, one close.         *)

WatchFrame(s, place) ==
  /\ watcher' = [watcher EXCEPT ![s] = place]
  /\ UNCHANGED <<acceptVars, srv, reply, sig, stateVars, granted,
                 cliOpen, registered>>

WatcherTakes(s) ==
  /\ watcher[s] = "select"
  /\ farewell[s] # <<>>
  /\ text' = [text EXCEPT ![s] = Head(farewell[s])]
  /\ farewell' = [farewell EXCEPT ![s] = <<>>]
  /\ WatchFrame(s, "send")
  /\ UNCHANGED <<up, down, srvOpen>>

NeverDone(s) == FALSE
SeesDone(s) == LoopOver(s)
WatcherDone(s) ==
  /\ watcher[s] = "select"
  /\ SeesDone(s)
  /\ WatchFrame(s, "done")
  /\ UNCHANGED <<text, farewell, up, down, srvOpen>>

WatcherSends(s) ==
  /\ watcher[s] = "send"
  /\ SendDown(s, [kind |-> "Farewell", text |-> text[s]])
  /\ text' = [text EXCEPT ![s] = ""]
  /\ WatchFrame(s, "close")
  /\ UNCHANGED <<farewell, up, srvOpen>>

\* Closing the connection is what ends serveConnection's blocked Receive.
LeftOpen(s) == {}
ClosedByWatcher(s) == {s}
WatcherCloses(s) ==
  /\ watcher[s] = "close"
  /\ CloseServerEnd(ClosedByWatcher(s))
  /\ WatchFrame(s, "done")
  /\ UNCHANGED <<text, farewell, down>>

-----------------------------------------------------------------------------
(* The signal goroutine, and the end of the process.                       *)

SigFrame(place) ==
  /\ sig' = place
  /\ UNCHANGED <<ceiling, slots, reply, watcher, text, disk, granted,
                 down, cliOpen>>

\* SIGHUP: TriggerReboot.  A failed reload leaves everything as it was.
SighupReload ==
  /\ sig = "wait"
  /\ Load(Sighup)
  /\ SigFrame("replace")
  /\ UNCHANGED <<listening, srv, up, srvOpen, directoryVars>>

SighupReplace ==
  /\ sig = "replace"
  /\ Replace(Sighup)
  /\ SigFrame("broadcast")
  /\ UNCHANGED <<listening, srv, up, srvOpen, directoryVars>>

SighupBroadcast ==
  /\ sig = "broadcast"
  /\ BroadcastFarewell("rebooting")
  /\ SigFrame("wait")
  /\ UNCHANGED <<listening, srv, up, srvOpen, canonical, loaded, overtaken>>

\* SIGTERM: Shutdown tells every attached session, then closes the listener;
\* the kernel resets the connections nobody has accepted.
ShutdownBroadcast ==
  /\ sig = "wait"
  /\ BroadcastFarewell("")
  /\ SigFrame("drained")
  /\ UNCHANGED <<listening, srv, up, srvOpen, canonical, loaded, overtaken>>

ShutdownClose ==
  /\ sig = "drained"
  /\ listening' = FALSE
  /\ LET waiting == {s \in Sessions : srv[s] = "queued"} IN
       /\ CloseServerEnd(waiting)
       /\ srv' = [s \in Sessions |-> IF s \in waiting THEN "gone" ELSE srv[s]]
  /\ SigFrame("ended")
  /\ UNCHANGED <<canonical, loaded, overtaken, directoryVars>>

\* Serve returns once the accept loop is out of a handshake, the deferred Close
\* calls run and the process exits, with whatever is still being served.
NothingServed == \A s \in Sessions : ~Served(s) /\ srv[s] # "handshake"
NoHandshake == \A s \in Sessions : srv[s] # "handshake"
NoEnds == {}
AllEnds == Sessions
ProcessExit ==
  /\ sig = "ended"
  /\ NoHandshake
  /\ sig' = "exited"
  /\ srv' = [s \in Sessions |-> "gone"]
  /\ watcher' = [s \in Sessions |-> "done"]
  /\ CloseServerEnd(AllEnds)
  /\ registered' = {}
  /\ slots' = 0
  /\ UNCHANGED <<ceiling, listening, reply, text, stateVars, granted,
                 down, cliOpen, farewell>>
=============================================================================
