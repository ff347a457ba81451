---------------------------- MODULE ArmorChannel -----------------------------
(***************************************************************************)
(* armorchan (handshake.go, channel.go, frame.go) over one socket, with    *)
(* the daemon's static identity on disk (daemon/identity.go) and the two   *)
(* callers of the handshake (daemon/socket.go).                            *)
(*                                                                         *)
(* Connections are made one after the other between one client and one     *)
(* daemon, which may crash and start again.  The wire may damage, lose and *)
(* repeat whole frames, those of earlier connections included.             *)
(*                                                                         *)
(* Cryptography is symbolic.  Each generated key is a number never used    *)
(* before.  The two exchanges give both ends the same secret when they     *)
(* mean the same client key, daemon key and static key, so what deriveKeys *)
(* returns is known by that triple and the purpose of the key.  A frame    *)
(* sealed under a key opens only under that key, nonce and count.          *)
(***************************************************************************)
EXTENDS Naturals, Sequences, FiniteSets, SequencesExt

CONSTANTS
  Payloads,         \* plaintexts handed to Send
  Oversized,        \* those whose frame is larger than MaxFrameSize
  MaxCount,         \* math.MaxUint64
  MaxStaticKeys,    \* bound: static keys generated
  MaxConnections,   \* bound: connections made
  MaxSealed,        \* bound: encryptions
  MaxFaults         \* bound: faults of the wire

ASSUME ArmorAssumption ==
  /\ Oversized \subseteq Payloads
  /\ MaxCount \in Nat \ {0}
  /\ MaxStaticKeys \in Nat
  /\ MaxConnections \in Nat
  /\ MaxSealed \in Nat
  /\ MaxFaults \in Nat

VARIABLES
  privateKey,    \* the file StaticKeyPath names
  publicKey,     \* the .pub file beside it
  process,       \* the daemon: "down", "writing" its .pub file, or "up"
  static,        \* the static key the daemon loaded
  expected,      \* the static key the client read
  stage,         \* stage[e]: "idle", "keyed", "waiting", "open" or "closed"
  eph,           \* eph[e]: the ephemeral key of e on this connection
  hand,          \* hand[e]: what e's channel keys are derived from
  sendCount, sendFailed, recvCount, recvFailed,   \* e's Channel
  wire,          \* wire[e]: frames on their way to e
  passed,        \* passed[e]: frames that were ever on their way to e
  sealed,        \* history: everything ever encrypted
  sent, got,     \* as in RecordStream
  keysMade, ephsMade, connections, faults

diskVars == <<privateKey, publicKey>>
daemonVars == <<process, static, keysMade>>
handVars == <<expected, eph, hand, ephsMade, connections>>
countVars == <<sendCount, sendFailed, recvCount, recvFailed>>
wireVars == <<wire, passed, faults>>
historyVars == <<sealed, sent, got>>
vars == <<diskVars, daemonVars, handVars, stage, countVars, wireVars,
          historyVars>>

Ends == {"client", "daemon"}
Peer(e) == IF e = "client" THEN "daemon" ELSE "client"

NoKey == 0
Transcript(c, d, s) == [client |-> c, daemon |-> d, static |-> s]
NoHand == Transcript(NoKey, NoKey, NoKey)

OneKey(purpose, h) ==
  [purpose |-> IF purpose = "daemon" THEN "client" ELSE purpose, from |-> h]
\* deriveKeys: one key for each direction, and one for the confirmation.
KeyFor(purpose, h) == [purpose |-> purpose, from |-> h]

SendKey(e) == KeyFor(Peer(e), hand[e])
ReceiveKey(e) == KeyFor(e, hand[e])

Garbage == [kind |-> "garbage"]
HelloFrame(c) == [kind |-> "hello", client |-> c]
ResponseFrame(d, s, h) ==
  [kind |-> "response", daemon |-> d, static |-> s, confirm |-> h]
RecordFrame(k, n, p) == [kind |-> "record", key |-> k, count |-> n, plain |-> p]

Connected(e) == stage[e] \in {"waiting", "open"}

ArmorInit ==
  /\ privateKey = NoKey
  /\ publicKey = NoKey
  /\ process = "down"
  /\ static = NoKey
  /\ expected = NoKey
  /\ stage = [e \in Ends |-> "idle"]
  /\ eph = [e \in Ends |-> NoKey]
  /\ hand = [e \in Ends |-> NoHand]
  /\ sendCount = [e \in Ends |-> 0]
  /\ sendFailed = [e \in Ends |-> FALSE]
  /\ recvCount = [e \in Ends |-> 0]
  /\ recvFailed = [e \in Ends |-> FALSE]
  /\ wire = [e \in Ends |-> <<>>]
  /\ passed = [e \in Ends |-> {}]
  /\ sealed = {}
  /\ sent = [e \in Ends |-> <<>>]
  /\ got = [e \in Ends |-> <<>>]
  /\ keysMade = 0
  /\ ephsMade = 0
  /\ connections = 0
  /\ faults = 0

-----------------------------------------------------------------------------
(* The daemon's identity.                                                  *)

\* LoadOrCreateStaticKeyPair when the private key file is there: the .pub
\* file is neither read nor written.
LoadKey ==
  /\ process = "down"
  /\ privateKey # NoKey
  /\ static' = privateKey
  /\ process' = "up"
  /\ UNCHANGED <<diskVars, keysMade, handVars, stage, countVars, wireVars,
                 historyVars>>

CreateKey ==
  /\ process = "down"
  /\ privateKey = NoKey
  /\ keysMade < MaxStaticKeys
  /\ keysMade' = keysMade + 1
  /\ static' = keysMade + 1
  /\ privateKey' = keysMade + 1
  /\ process' = "writing"
  /\ UNCHANGED <<publicKey, handVars, stage, countVars, wireVars, historyVars>>

WritePublicKey ==
  /\ process = "writing"
  /\ publicKey' = static
  /\ process' = "up"
  /\ UNCHANGED <<privateKey, static, keysMade, handVars, stage, countVars,
                 wireVars, historyVars>>

\* The process ends, and its end of the socket with it.
DaemonStops ==
  /\ process # "down"
  /\ process' = "down"
  /\ stage' = [stage EXCEPT !["daemon"] = "closed"]
  /\ wire' = [wire EXCEPT !["daemon"] = <<>>]
  /\ UNCHANGED <<diskVars, static, keysMade, handVars, countVars, passed,
                 faults, historyVars>>

\* An operator has the daemon make a new identity at its next start.
PrivateKeyRemoved ==
  /\ keysMade < MaxStaticKeys
  /\ privateKey # NoKey
  /\ privateKey' = NoKey
  /\ UNCHANGED <<publicKey, daemonVars, handVars, stage, countVars, wireVars,
                 historyVars>>
-----------------------------------------------------------------------------
(* The handshake.                                                          *)

\* attachToDaemon reads the .pub file, then dials.
ReadPublicKey ==
  /\ stage["client"] \in {"idle", "closed"}
  /\ publicKey # NoKey
  /\ expected' = publicKey
  /\ stage' = [stage EXCEPT !["client"] = "keyed"]
  /\ UNCHANGED <<diskVars, daemonVars, eph, hand, ephsMade, connections,
                 countVars, wireVars, historyVars>>

DialFails ==
  /\ stage["client"] = "keyed"
  /\ process # "up"
  /\ stage' = [stage EXCEPT !["client"] = "closed"]
  /\ UNCHANGED <<diskVars, daemonVars, handVars, countVars, wireVars,
                 historyVars>>

\* A new connection, and ClientHandshake's first message on it.
Dial ==
  LET hello == HelloFrame(ephsMade + 1)
  IN  /\ stage["client"] = "keyed"
      /\ process = "up"
      /\ ~Connected("daemon")
      /\ connections < MaxConnections
      /\ connections' = connections + 1
      /\ ephsMade' = ephsMade + 1
      /\ eph' = [eph EXCEPT !["client"] = ephsMade + 1]
      /\ hand' = [e \in Ends |-> NoHand]
      /\ stage' = [e \in Ends |-> "waiting"]
      /\ sendCount' = [e \in Ends |-> 0]
      /\ sendFailed' = [e \in Ends |-> FALSE]
      /\ recvCount' = [e \in Ends |-> 0]
      /\ recvFailed' = [e \in Ends |-> FALSE]
      /\ wire' = [wire EXCEPT !["client"] = <<>>, !["daemon"] = <<hello>>]
      /\ passed' = [passed EXCEPT !["daemon"] = @ \cup {hello}]
      /\ sent' = [e \in Ends |-> <<>>]
      /\ got' = [e \in Ends |-> <<>>]
      /\ UNCHANGED <<diskVars, daemonVars, expected, faults, sealed>>

\* ServerHandshake reads the hello, derives the keys, seals and sends the
\* confirmation.  A write the client is no longer there for fails.
ServerHandshake ==
  LET hello == Head(wire["daemon"])
      h == Transcript(hello.client, ephsMade + 1, static)
      response == ResponseFrame(ephsMade + 1, static, h)
  IN  /\ stage["daemon"] = "waiting"
      /\ wire["daemon"] # <<>>
      /\ hello.kind = "hello"
      /\ ephsMade' = ephsMade + 1
      /\ eph' = [eph EXCEPT !["daemon"] = ephsMade + 1]
      /\ hand' = [hand EXCEPT !["daemon"] = h]
      /\ sealed' = sealed \cup
           {[key |-> KeyFor("confirmation", h), count |-> 0,
             plain |-> "confirmation"]}
      /\ IF Connected("client")
         THEN /\ stage' = [stage EXCEPT !["daemon"] = "open"]
              /\ wire' = [wire EXCEPT !["daemon"] = Tail(@),
                                      !["client"] = Append(@, response)]
              /\ passed' = [passed EXCEPT !["client"] = @ \cup {response}]
         ELSE /\ stage' = [stage EXCEPT !["daemon"] = "closed"]
              /\ wire' = [wire EXCEPT !["daemon"] = <<>>]
              /\ UNCHANGED passed
      /\ UNCHANGED <<diskVars, daemonVars, expected, connections, countVars,
                     faults, sent, got>>

\* AcceptAndHandshake closes the connection: the hello is no key, the
\* client is gone, or HandshakeTimeout has passed.
ServerHandshakeFails ==
  /\ stage["daemon"] = "waiting"
  /\ stage' = [stage EXCEPT !["daemon"] = "closed"]
  /\ wire' = [wire EXCEPT !["daemon"] = <<>>]
  /\ UNCHANGED <<diskVars, daemonVars, handVars, countVars, passed, faults,
                 historyVars>>

\* The transcript the client computes from the response.
ClientTranscript(response) ==
  Transcript(eph["client"], response.daemon, expected)

Advertised(response) ==
  /\ response.kind = "response"
  /\ response.static = expected
  /\ response.daemon # NoKey
\* The response advertises the static key the client expects, and its
\* confirmation opens under the client's own key and transcript.
Genuine(response) ==
  /\ response.kind = "response"
  /\ response.static = expected
  /\ response.daemon # NoKey
  /\ response.confirm = ClientTranscript(response)

ClientHandshake ==
  LET response == Head(wire["client"])
  IN  /\ stage["client"] = "waiting"
      /\ wire["client"] # <<>>
      /\ Genuine(response)
      /\ hand' = [hand EXCEPT !["client"] = ClientTranscript(response)]
      /\ stage' = [stage EXCEPT !["client"] = "open"]
      /\ wire' = [wire EXCEPT !["client"] = Tail(@)]
      /\ UNCHANGED <<diskVars, daemonVars, expected, eph, ephsMade,
                     connections, countVars, passed, faults, historyVars>>

\* Dial closes the connection and returns no Channel.
ClientHandshakeFails ==
  /\ stage["client"] = "waiting"
  /\ IF wire["client"] = <<>> THEN ~Connected("daemon")
                              ELSE ~Genuine(Head(wire["client"]))
  /\ stage' = [stage EXCEPT !["client"] = "closed"]
  /\ wire' = [wire EXCEPT !["client"] = <<>>]
  /\ UNCHANGED <<diskVars, daemonVars, handVars, countVars, passed, faults,
                 historyVars>>
-----------------------------------------------------------------------------
(* The channel.                                                            *)

SendFrame(e) ==
  /\ stage[e] = "open"
  /\ ~sendFailed[e]
  /\ UNCHANGED <<diskVars, daemonVars, handVars, stage, recvCount, recvFailed,
                 faults, got>>

Seal(e, p) ==
  /\ Cardinality(sealed) < MaxSealed
  /\ sealed' = sealed \cup
       {[key |-> SendKey(e), count |-> sendCount[e], plain |-> p]}

MaySeal(e) == sendCount[e] # MaxCount

SendExhausted(e) ==
  /\ SendFrame(e)
  /\ ~MaySeal(e)
  /\ sendFailed' = [sendFailed EXCEPT ![e] = TRUE]
  /\ UNCHANGED <<sendCount, wire, passed, sealed, sent>>

\* The counter is a uint64.
Send(e, p) ==
  LET record == RecordFrame(SendKey(e), sendCount[e], p)
  IN  /\ SendFrame(e)
      /\ MaySeal(e)
      /\ Connected(Peer(e))
      /\ p \notin Oversized
      /\ Seal(e, p)
      /\ wire' = [wire EXCEPT ![Peer(e)] = Append(@, record)]
      /\ passed' = [passed EXCEPT ![Peer(e)] = @ \cup {record}]
      /\ sendCount' = [sendCount EXCEPT ![e] = (@ + 1) % (MaxCount + 1)]
      /\ sent' = [sent EXCEPT ![e] = Append(@, p)]
      /\ UNCHANGED sendFailed

\* writeFrame refuses or fails; it may have written part of the frame.
\* The count stays and the direction is faulted.
StillUsable(e) == FALSE
FaultedBy(e) == TRUE
SendFails(e, p) ==
  /\ SendFrame(e)
  /\ MaySeal(e)
  /\ Seal(e, p)
  /\ sendFailed' = [sendFailed EXCEPT ![e] = FaultedBy(e)]
  /\ \/ UNCHANGED wire
     \/ /\ p \notin Oversized
        /\ Connected(Peer(e))
        /\ wire' = [wire EXCEPT ![Peer(e)] = Append(@, Garbage)]
  /\ UNCHANGED <<sendCount, passed, sent>>

ReceiveFrame(e) ==
  /\ stage[e] = "open"
  /\ UNCHANGED <<diskVars, daemonVars, handVars, stage, sendCount, sendFailed,
                 passed, faults, sealed, sent>>

EvenAfterFault(e) == recvCount[e] # MaxCount
MayReceive(e) == ~recvFailed[e] /\ recvCount[e] # MaxCount

UnderAnyCount(e, f) ==
  /\ f.kind = "record"
  /\ f.key = ReceiveKey(e)
\* The record opens under the key, nonce and additional data of the count
\* the receiver expects.
Opens(e, f) ==
  /\ f.kind = "record"
  /\ f.key = ReceiveKey(e)
  /\ f.count = recvCount[e]

Receive(e) ==
  LET f == Head(wire[e])
  IN  /\ ReceiveFrame(e)
      /\ MayReceive(e)
      /\ wire[e] # <<>>
      /\ Opens(e, f)
      /\ wire' = [wire EXCEPT ![e] = Tail(@)]
      /\ recvCount' = [recvCount EXCEPT ![e] = @ + 1]
      /\ got' = [got EXCEPT ![e] = Append(@, f.plain)]
      /\ UNCHANGED recvFailed

\* The counter is used up, the frame does not open, or there will be none.
ReceiveFails(e) ==
  /\ ReceiveFrame(e)
  /\ ~recvFailed[e]
  /\ IF recvCount[e] = MaxCount
     THEN UNCHANGED wire
     ELSE IF wire[e] = <<>>
          THEN ~Connected(Peer(e)) /\ UNCHANGED wire
          ELSE /\ ~Opens(e, Head(wire[e]))
               /\ wire' = [wire EXCEPT ![e] = Tail(@)]
  /\ recvFailed' = [recvFailed EXCEPT ![e] = TRUE]
  /\ UNCHANGED <<recvCount, got>>

\* The session at this end is over; a faulted channel is always closed.
Close(e) ==
  /\ Connected(e)
  /\ stage' = [stage EXCEPT ![e] = "closed"]
  /\ wire' = [wire EXCEPT ![e] = <<>>]
  /\ UNCHANGED <<diskVars, daemonVars, handVars, countVars, passed, faults,
                 historyVars>>
-----------------------------------------------------------------------------
(* The wire.                                                               *)

Damaged(f) ==
  CASE f.kind = "hello"    -> {Garbage, HelloFrame(NoKey)}
    [] f.kind = "response" -> {Garbage, [f EXCEPT !.daemon = NoKey],
                               [f EXCEPT !.static = NoKey],
                               [f EXCEPT !.confirm = NoHand]}
    [] OTHER               -> {Garbage}

WireFrame(e) ==
  /\ faults < MaxFaults
  /\ faults' = faults + 1
  /\ Connected(e)
  /\ UNCHANGED <<diskVars, daemonVars, handVars, stage, countVars,
                 historyVars>>

Damage(e, i) ==
  /\ WireFrame(e)
  /\ \E f \in Damaged(wire[e][i]) :
       /\ wire' = [wire EXCEPT ![e][i] = f]
       /\ passed' = [passed EXCEPT ![e] = @ \cup {f}]

Lose(e, i) ==
  /\ WireFrame(e)
  /\ wire' = [wire EXCEPT ![e] = RemoveAt(@, i)]
  /\ UNCHANGED passed

Repeat(e) ==
  /\ WireFrame(e)
  /\ \E f \in passed[e], i \in {1, Len(wire[e]) + 1} :
       wire' = [wire EXCEPT ![e] = InsertAt(@, i, f)]
  /\ UNCHANGED passed
-----------------------------------------------------------------------------
ArmorNext ==
  \/ LoadKey \/ CreateKey \/ WritePublicKey \/ DaemonStops
  \/ PrivateKeyRemoved
  \/ ReadPublicKey \/ DialFails \/ Dial
  \/ ServerHandshake \/ ServerHandshakeFails
  \/ ClientHandshake \/ ClientHandshakeFails
  \/ \E e \in Ends :
       \/ SendExhausted(e)
       \/ \E p \in Payloads : Send(e, p) \/ SendFails(e, p)
       \/ Receive(e) \/ ReceiveFails(e) \/ Close(e)
       \/ \E i \in DOMAIN wire[e] : Damage(e, i) \/ Lose(e, i)
       \/ Repeat(e)

ArmorSpec == ArmorInit /\ [][ArmorNext]_vars
-----------------------------------------------------------------------------
Transcripts == [client : Nat, daemon : Nat, static : Nat]
Keys == [purpose : Ends \cup {"confirmation"}, from : Transcripts]

Frames ==
  {Garbage} \cup [kind : {"hello"}, client : Nat]
    \cup [kind : {"response"}, daemon : Nat, static : Nat,
          confirm : Transcripts]
    \cup [kind : {"record"}, key : Keys, count : Nat, plain : Payloads]

(* The type invariant; counts stay within the counter.                     *)
TypeOK ==
  /\ {privateKey, publicKey, static, expected, keysMade} \subseteq Nat
  /\ {ephsMade, connections, faults} \subseteq Nat
  /\ process \in {"down", "writing", "up"}
  /\ stage \in [Ends -> {"idle", "keyed", "waiting", "open", "closed"}]
  /\ eph \in [Ends -> Nat] /\ hand \in [Ends -> Transcripts]
  /\ sendCount \in [Ends -> 0..MaxCount] /\ sendFailed \in [Ends -> BOOLEAN]
  /\ recvCount \in [Ends -> 0..MaxCount] /\ recvFailed \in [Ends -> BOOLEAN]
  /\ passed \in [Ends -> SUBSET Frames] /\ wire \in [Ends -> Seq(Frames)]
  /\ sealed \in SUBSET [key : Keys, count : 0..MaxCount,
                        plain : Payloads \cup {"confirmation"}]
  /\ sent \in [Ends -> Seq(Payloads)] /\ got \in [Ends -> Seq(Payloads)]

(* The channel is an ordered stream in each direction, whatever the wire   *)
(* does: channel.go derives nonce and additional data from the receiver's  *)
(* own count, so a record lost, repeated, reordered or damaged is never    *)
(* taken for the next one.                                                 *)
Stream == INSTANCE RecordStream
OrderedStream == Stream!StreamSpec

(* No key seals two different plaintexts under one nonce, the rule every   *)
(* AEAD rests on: the count moves with each record, a failed write that    *)
(* leaves it behind ends the direction, the counter never wraps, and the   *)
(* two directions, the confirmation and each connection have their own     *)
(* keys.                                                                   *)
NonceOnce ==
  \A r, s \in sealed : r.key = s.key /\ r.count = s.count => r.plain = s.plain

(* A client that has a Channel shares its keys with the daemon end of this *)
(* very connection, and that daemon holds the static key the client read:  *)
(* no damaged, repeated or stale handshake message makes a Channel.        *)
KeysAgree ==
  stage["client"] = "open" =>
    /\ hand["client"] = hand["daemon"]
    /\ hand["client"].static = expected

(* A faulted direction stays faulted: until the next connection it neither *)
(* encrypts nor delivers anything more, though the frame it is waiting for *)
(* may still arrive.                                                       *)
FaultIsFinal ==
  [][connections' = connections =>
       \A e \in Ends :
         /\ recvFailed[e] => recvFailed'[e] /\ got'[e] = got[e]
         /\ sendFailed[e] =>
              /\ sendFailed'[e] /\ sent'[e] = sent[e]
              /\ \A r \in sealed' \ sealed : r.key # SendKey(e)]_vars

(* A daemon that is up has its public key in the file beside the socket,   *)
(* where clients look for it: "the world readable key file the daemon      *)
(* itself writes at startup" (daemon/socket.go:164).                       *)
PublicKeyIsServed == process = "up" => publicKey = static
=============================================================================
