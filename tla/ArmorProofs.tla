----------------------------- MODULE ArmorProofs -----------------------------
(***************************************************************************)
(* Proofs about ArmorChannel: no nonce is used twice, a client's Channel   *)
(* is the daemon's, a fault is final, and each direction is the ordered    *)
(* stream of RecordStream.                                                 *)
(***************************************************************************)
EXTENDS ArmorChannel, SequenceTheorems, TLAPS

-----------------------------------------------------------------------------
(* Sequences of frames, and the counter.                                   *)

LEMMA SeqWiden ==
  ASSUME NEW S, NEW T, S \subseteq T, NEW s \in Seq(S)
  PROVE  s \in Seq(T)
BY SeqMonotonic

LEMMA RemoveAtType ==
  ASSUME NEW S, NEW s \in Seq(S), NEW i \in DOMAIN s
  PROVE  RemoveAt(s, i) \in Seq(S)
<1>1. i \in 1..Len(s) /\ Len(s) \in Nat
  BY LenProperties
<1>2. SubSeq(s, 1, i - 1) \in Seq(S)
  BY <1>1, SMT
<1>3. SubSeq(s, i + 1, Len(s)) \in Seq(S)
  BY <1>1, SMT
<1> QED BY <1>2, <1>3, ConcatProperties DEF RemoveAt

LEMMA InsertAtType ==
  ASSUME NEW S, NEW s \in Seq(S), NEW i \in {1, Len(s) + 1}, NEW x \in S
  PROVE  InsertAt(s, i, x) \in Seq(S)
<1>1. i \in 1..(Len(s) + 1) /\ Len(s) \in Nat
  BY LenProperties
<1>2. SubSeq(s, 1, i - 1) \in Seq(S)
  BY <1>1, SMT
<1>3. SubSeq(s, i, Len(s)) \in Seq(S)
  BY <1>1, SMT
<1>4. <<x>> \in Seq(S)
  OBVIOUS
<1>5. SubSeq(s, 1, i - 1) \o <<x>> \in Seq(S)
  BY <1>2, <1>4, ConcatProperties
<1> QED BY <1>3, <1>5, ConcatProperties DEF InsertAt

LEMMA CountSteps ==
  ASSUME NEW n \in 0..MaxCount, n # MaxCount
  PROVE  (n + 1) % (MaxCount + 1) = n + 1
BY ArmorAssumption

LEMMA PeerProperties ==
  ASSUME NEW e \in Ends
  PROVE  Peer(e) \in Ends /\ Peer(e) # e /\ Peer(Peer(e)) = e
BY DEF Ends, Peer

-----------------------------------------------------------------------------
(* The inductive invariant.  Every key is derived from ephemeral keys      *)
(* already made, so one just made is in no record yet.  From there: what   *)
(* an end has sealed lies below its count, a response to this client was   *)
(* made by this daemon end, and the frames that carry an end's key are     *)
(* what that end reported as sent.                                         *)

OnWire == \A e \in Ends : wire[e] \in Seq(passed[e] \cup {Garbage})

Old(h, n) == h.client <= n /\ h.daemon <= n
OldFrame(f, n) ==
  /\ f.kind = "hello" => f.client <= n
  /\ f.kind = "response" => Old(f.confirm, n)
  /\ f.kind = "record" => Old(f.key.from, n)

Known ==
  /\ \A e \in Ends : eph[e] <= ephsMade /\ Old(hand[e], ephsMade)
  /\ \A r \in sealed : Old(r.key.from, ephsMade)
  /\ \A e \in Ends : \A f \in passed[e] : OldFrame(f, ephsMade)

Opening ==
  /\ Connected("client") => eph["client"] # NoKey
  /\ stage["client"] = "waiting" =>
       /\ hand["client"] = NoHand
       /\ \A r \in sealed :
            r.key.purpose = "daemon" => r.key.from.client # eph["client"]
       /\ \A f \in passed["daemon"] :
            f.kind = "record" /\ f.key.purpose = "daemon" =>
              f.key.from.client # eph["client"]
  /\ stage["daemon"] = "waiting" => hand["daemon"] = NoHand
  /\ \A e \in Ends : stage[e] = "open" => hand[e].daemon # NoKey

Counted ==
  \A e \in Ends : stage[e] = "open" =>
    \A r \in sealed : r.key = SendKey(e) =>
      r.count < sendCount[e] \/ sendFailed[e]

Responses ==
  \A f \in passed["client"] :
    f.kind = "response" /\ eph["client"] # NoKey
      /\ f.confirm.client = eph["client"] => f.confirm = hand["daemon"]

Delivered ==
  /\ \A e \in Ends :
       Len(sent[e]) = sendCount[e] /\ Len(got[e]) = recvCount[e]
  /\ \A e \in Ends : \A f \in passed[Peer(e)] :
       f.kind = "record" /\ hand[e].daemon # NoKey /\ f.key = SendKey(e) =>
         f.count < sendCount[e] /\ f.plain = sent[e][f.count + 1]
  /\ hand["daemon"].daemon # NoKey =>
       \A f \in passed["daemon"] :
         f.kind = "record" /\ f.key = ReceiveKey("daemon") =>
           hand["client"] = hand["daemon"]

IInv ==
  /\ TypeOK /\ OnWire /\ Known /\ Opening /\ Counted /\ Responses
  /\ Delivered /\ NonceOnce /\ KeysAgree

LEMMA InitIInv == ArmorInit => IInv
<1> SUFFICES ASSUME ArmorInit PROVE IInv
  OBVIOUS
<1> USE ArmorAssumption DEF ArmorInit, NoKey, NoHand, Transcript
<1>1. TypeOK
  BY DEF TypeOK, Transcripts
<1>2. OnWire /\ Known /\ Opening /\ Counted /\ Responses
  BY DEF OnWire, Known, Old, Opening, Connected, Counted, Responses, Ends
<1>3. Delivered /\ NonceOnce /\ KeysAgree
  BY DEF Delivered, NonceOnce, KeysAgree, Ends
<1> QED BY <1>1, <1>2, <1>3 DEF IInv

\* Steps of the daemon's identity leave the connection alone; several ways
\* to end a connection are one.
Quiet == UNCHANGED <<handVars, stage, countVars, wireVars, historyVars>>
Closing(e) ==
  /\ stage' = [stage EXCEPT ![e] = "closed"]
  /\ wire' = wire \/ wire' = [wire EXCEPT ![e] = <<>>]
  /\ UNCHANGED <<handVars, countVars, passed, faults, historyVars>>

LEMMA StepKinds ==
  ASSUME ArmorNext
  PROVE  \/ Quiet \/ ReadPublicKey \/ Dial
         \/ ServerHandshake \/ ClientHandshake
         \/ \E e \in Ends :
              \/ Closing(e)
              \/ SendExhausted(e)
              \/ \E p \in Payloads : Send(e, p) \/ SendFails(e, p)
              \/ Receive(e) \/ ReceiveFails(e)
              \/ \E i \in DOMAIN wire[e] : Damage(e, i) \/ Lose(e, i)
              \/ Repeat(e)
<1>1. LoadKey \/ CreateKey \/ WritePublicKey \/ PrivateKeyRemoved => Quiet
  BY DEF LoadKey, CreateKey, WritePublicKey, PrivateKeyRemoved, Quiet
<1>2. DaemonStops \/ ServerHandshakeFails => Closing("daemon")
  BY DEF DaemonStops, ServerHandshakeFails, Closing
<1>3. DialFails \/ ClientHandshakeFails => Closing("client")
  BY DEF DialFails, ClientHandshakeFails, Closing, wireVars
<1>4. \A e \in Ends : Close(e) => Closing(e)
  BY DEF Close, Closing
<1> QED BY <1>1, <1>2, <1>3, <1>4 DEF ArmorNext, Ends

-----------------------------------------------------------------------------
(* Type correctness.                                                       *)

LEMMA FramesAre ==
  /\ Garbage \in Frames
  /\ \A c \in Nat : HelloFrame(c) \in Frames
  /\ \A d, s \in Nat, h \in Transcripts : ResponseFrame(d, s, h) \in Frames
  /\ \A k \in Keys, n \in Nat, p \in Payloads : RecordFrame(k, n, p) \in Frames
BY DEF Frames, HelloFrame, ResponseFrame, RecordFrame

LEMMA DamagedIs ==
  ASSUME NEW f \in Frames, NEW g \in Damaged(f)
  PROVE  /\ g \in Frames
         /\ g.kind # "record"
         /\ g.kind = "hello" => g.client = NoKey
         /\ g.kind = "response" =>
              /\ f.kind = "response"
              /\ g.confirm = f.confirm \/ g.confirm = NoHand
<1> USE DEF Damaged, Frames, Garbage, HelloFrame, NoKey
<1>1. CASE f.kind = "hello"
  BY <1>1
<1>2. CASE f.kind = "response"
  BY <1>2 DEF NoHand, Transcript, Transcripts
<1>3. CASE f.kind \notin {"hello", "response"}
  BY <1>3
<1> QED BY <1>1, <1>2, <1>3

LEMMA KeysAre ==
  ASSUME TypeOK, NEW e \in Ends
  PROVE  SendKey(e) \in Keys /\ ReceiveKey(e) \in Keys
BY PeerProperties DEF SendKey, ReceiveKey, KeyFor, Keys, TypeOK

TypeMade ==
  /\ {privateKey, publicKey, static, expected, keysMade} \subseteq Nat
  /\ {ephsMade, connections, faults} \subseteq Nat
  /\ process \in {"down", "writing", "up"}
  /\ stage \in [Ends -> {"idle", "keyed", "waiting", "open", "closed"}]
  /\ eph \in [Ends -> Nat] /\ hand \in [Ends -> Transcripts]

Sealings ==
  [key : Keys, count : 0..MaxCount, plain : Payloads \cup {"confirmation"}]
TypeChannel ==
  /\ sendCount \in [Ends -> 0..MaxCount] /\ sendFailed \in [Ends -> BOOLEAN]
  /\ recvCount \in [Ends -> 0..MaxCount] /\ recvFailed \in [Ends -> BOOLEAN]
  /\ sealed \in SUBSET Sealings
  /\ sent \in [Ends -> Seq(Payloads)] /\ got \in [Ends -> Seq(Payloads)]

TypeWire == passed \in [Ends -> SUBSET Frames] /\ wire \in [Ends -> Seq(Frames)]

LEMMA TypeParts == TypeOK <=> TypeMade /\ TypeChannel /\ TypeWire
BY DEF TypeOK, TypeMade, TypeChannel, TypeWire, Sealings

LEMMA HeadFrame ==
  ASSUME TypeWire, NEW e \in Ends, wire[e] # <<>>
  PROVE  Head(wire[e]) \in Frames /\ Tail(wire[e]) \in Seq(Frames)
<1>1. wire[e] \in Seq(Frames)
  BY DEF TypeWire
<1> QED BY <1>1, HeadTailProperties

LEMMA FrameParts ==
  ASSUME NEW f \in Frames
  PROVE  /\ f.kind = "hello" => f.client \in Nat
         /\ f.kind = "response" => f.daemon \in Nat /\ f.confirm \in Transcripts
         /\ f.kind = "record" =>
              f.key \in Keys /\ f.count \in Nat /\ f.plain \in Payloads
BY DEF Frames, Garbage

LEMMA ServerTranscript ==
  ASSUME TypeOK, ServerHandshake
  PROVE  \E h \in Transcripts :
           LET response == ResponseFrame(ephsMade + 1, static, h)
           IN  /\ wire["daemon"] # <<>>
               /\ Head(wire["daemon"]).kind = "hello"
               /\ h.client = Head(wire["daemon"]).client
               /\ h.daemon = ephsMade + 1
               /\ response \in Frames
               /\ stage["daemon"] = "waiting"
               /\ ephsMade' = ephsMade + 1
               /\ eph' = [eph EXCEPT !["daemon"] = ephsMade + 1]
               /\ hand' = [hand EXCEPT !["daemon"] = h]
               /\ sealed' = sealed \cup
                    {[key |-> KeyFor("confirmation", h), count |-> 0,
                      plain |-> "confirmation"]}
               /\ UNCHANGED <<diskVars, daemonVars, expected, connections,
                              countVars, faults, sent, got>>
               /\ \/ /\ stage' = [stage EXCEPT !["daemon"] = "open"]
                     /\ wire' = [wire EXCEPT !["daemon"] = Tail(@),
                                             !["client"] = Append(@, response)]
                     /\ passed' = [passed EXCEPT
                                     !["client"] = @ \cup {response}]
                  \/ /\ stage' = [stage EXCEPT !["daemon"] = "closed"]
                     /\ wire' = [wire EXCEPT !["daemon"] = <<>>]
                     /\ UNCHANGED passed
<1> DEFINE hello == Head(wire["daemon"])
           h == Transcript(hello.client, ephsMade + 1, static)
<1>1. hello \in Frames /\ hello.kind = "hello"
  BY TypeParts, HeadFrame DEF ServerHandshake, Ends
<1>2. hello.client \in Nat
  BY <1>1, FrameParts
<1>3. static \in Nat /\ ephsMade + 1 \in Nat
  BY DEF TypeOK
<1>4. h \in Transcripts
  BY <1>2, <1>3 DEF Transcript, Transcripts
<1>5. ResponseFrame(ephsMade + 1, static, h) \in Frames
  BY <1>3, <1>4, FramesAre
<1>6. h.client = hello.client /\ h.daemon = ephsMade + 1
  BY DEF Transcript
<1> QED
  <2> WITNESS h \in Transcripts
  <2> QED BY <1>5, <1>6 DEF ServerHandshake

LEMMA TypeMadeStep ==
  ASSUME TypeOK, ArmorNext
  PROVE  TypeMade'
<1> USE TypeParts DEF TypeMade, NoKey
<1>1. CASE LoadKey \/ CreateKey \/ WritePublicKey \/ PrivateKeyRemoved
  BY <1>1 DEF LoadKey, CreateKey, WritePublicKey, PrivateKeyRemoved, handVars,
    wireVars, diskVars, daemonVars
<1>2. CASE DaemonStops \/ ServerHandshakeFails \/ DialFails
  BY <1>2 DEF DaemonStops, ServerHandshakeFails, DialFails, handVars, wireVars,
    diskVars, daemonVars, Ends
<1>3. CASE ClientHandshakeFails \/ ReadPublicKey
  BY <1>3 DEF ClientHandshakeFails, ReadPublicKey, handVars, wireVars,
    diskVars, daemonVars, Ends
<1>4. CASE Dial
  <2>1. NoHand \in Transcripts
    BY DEF NoHand, Transcript, Transcripts
  <2> QED BY <1>4, <2>1 DEF Dial, Ends, diskVars, daemonVars
<1>5. CASE ServerHandshake
  BY <1>5, ServerTranscript DEF Ends, diskVars, daemonVars
<1>6. CASE ClientHandshake
  <2>1. Head(wire["client"]) \in Frames
    BY <1>6, HeadFrame DEF ClientHandshake, Ends
  <2>2. Head(wire["client"]).daemon \in Nat
    BY <1>6, <2>1, FrameParts DEF ClientHandshake, Genuine
  <2>3. ClientTranscript(Head(wire["client"])) \in Transcripts
    BY <2>2 DEF ClientTranscript, Transcript, Transcripts, Ends
  <2> QED BY <1>6, <2>3 DEF ClientHandshake, Ends, diskVars, daemonVars
<1>7. ASSUME NEW e \in Ends, NEW p \in Payloads,
             Send(e, p) \/ SendFails(e, p) \/ SendExhausted(e)
      PROVE  TypeMade'
  BY <1>7 DEF Send, SendFails, SendExhausted, SendFrame, diskVars, daemonVars,
    handVars
<1>8. ASSUME NEW e \in Ends, SendExhausted(e) \/ Receive(e) \/ ReceiveFails(e)
      PROVE  TypeMade'
  BY <1>8 DEF SendExhausted, SendFrame, Receive, ReceiveFails, ReceiveFrame,
    diskVars, daemonVars, handVars
<1>9. ASSUME NEW e \in Ends, Close(e)
      PROVE  TypeMade'
  BY <1>9 DEF Close, diskVars, daemonVars, handVars
<1>10. ASSUME NEW e \in Ends, WireFrame(e)
       PROVE  TypeMade'
  BY <1>10 DEF WireFrame, diskVars, daemonVars, handVars
<1> QED
  BY <1>1, <1>2, <1>3, <1>4, <1>5, <1>6, <1>7, <1>8, <1>9, <1>10
  DEF ArmorNext, Damage, Lose, Repeat

LEMMA TypeChannelStep ==
  ASSUME TypeOK, ArmorNext
  PROVE  TypeChannel'
<1> USE TypeParts, ArmorAssumption DEF TypeChannel
<1>1. CASE Quiet \/ ReadPublicKey \/ ClientHandshake
  BY <1>1 DEF Quiet, ReadPublicKey, ClientHandshake, countVars, historyVars
<1>2. CASE Dial
  BY <1>2 DEF Dial
<1>3. CASE ServerHandshake
  <2>1. PICK h \in Transcripts :
          /\ sealed' = sealed \cup
               {[key |-> KeyFor("confirmation", h), count |-> 0,
                 plain |-> "confirmation"]}
          /\ UNCHANGED <<countVars, sent, got>>
    BY <1>3, ServerTranscript
  <2>2. [key |-> KeyFor("confirmation", h), count |-> 0,
         plain |-> "confirmation"] \in Sealings
    BY DEF KeyFor, Keys, Sealings
  <2> QED BY <2>1, <2>2 DEF countVars
<1>4. ASSUME NEW e \in Ends, NEW p \in Payloads,
             Send(e, p) \/ SendFails(e, p)
      PROVE  TypeChannel'
  <2> DEFINE r == [key |-> SendKey(e), count |-> sendCount[e], plain |-> p]
  <2>1. r \in Sealings
    BY KeysAre DEF Sealings
  <2>2. sealed' = sealed \cup {r}
    BY <1>4 DEF Send, SendFails, Seal
  <2>3. sealed' \in SUBSET Sealings
    BY <2>1, <2>2
  <2>4. CASE Send(e, p)
    <3>1. sendCount' \in [Ends -> 0..MaxCount]
      BY <2>4, CountSteps DEF Send, MaySeal
    <3>2. sent' \in [Ends -> Seq(Payloads)]
      BY <2>4 DEF Send
    <3> QED BY <2>3, <2>4, <3>1, <3>2 DEF Send, SendFrame
  <2>5. CASE SendFails(e, p)
    BY <2>3, <2>5 DEF SendFails, SendFrame, FaultedBy
  <2> QED BY <1>4, <2>4, <2>5
<1>5. ASSUME NEW e \in Ends, SendExhausted(e) \/ ReceiveFails(e) \/ Closing(e)
      PROVE  TypeChannel'
  BY <1>5 DEF SendExhausted, SendFrame, ReceiveFails, ReceiveFrame, Closing,
    countVars, historyVars
<1>6. ASSUME NEW e \in Ends, Receive(e)
      PROVE  TypeChannel'
  <2>1. Head(wire[e]) \in Frames /\ Head(wire[e]).kind = "record"
    BY <1>6, HeadFrame DEF Receive, Opens
  <2>2. Head(wire[e]).plain \in Payloads
    BY <2>1, FrameParts
  <2>3. got' \in [Ends -> Seq(Payloads)]
    BY <1>6, <2>2 DEF Receive
  <2>4. recvCount' \in [Ends -> 0..MaxCount]
    BY <1>6 DEF Receive, MayReceive
  <2> QED BY <1>6, <2>3, <2>4 DEF Receive, ReceiveFrame
<1>7. ASSUME NEW e \in Ends, WireFrame(e)
      PROVE  TypeChannel'
  BY <1>7 DEF WireFrame, countVars, historyVars
<1> QED
  BY <1>1, <1>2, <1>3, <1>4, <1>5, <1>6, <1>7, StepKinds
  DEF Damage, Lose, Repeat

WireFunction == wire = [e \in Ends |-> wire[e]]
PassedType == passed \in [Ends -> SUBSET Frames]

LEMMA WireParts ==
  /\ TypeWire => WireFunction /\ PassedType
  /\ WireFunction /\ PassedType /\ OnWire => TypeWire
<1>1. ASSUME WireFunction, PassedType, OnWire
      PROVE  TypeWire
  <2>1. ASSUME NEW e \in Ends
        PROVE  wire[e] \in Seq(Frames)
    <3>1. passed[e] \cup {Garbage} \subseteq Frames
      BY <1>1, FramesAre DEF PassedType
    <3> QED BY <1>1, <3>1, SeqWiden DEF OnWire
  <2> QED BY <1>1, <2>1 DEF WireFunction, PassedType, TypeWire
<1> QED BY <1>1 DEF TypeWire, WireFunction, PassedType

LEMMA WidenWire ==
  ASSUME OnWire, NEW e \in Ends, NEW T, passed[e] \subseteq T
  PROVE  wire[e] \in Seq(T \cup {Garbage})
BY SeqWiden DEF OnWire

LEMMA HeadPassed ==
  ASSUME OnWire, NEW e \in Ends, wire[e] # <<>>
  PROVE  /\ Head(wire[e]) \in passed[e] \cup {Garbage}
         /\ Tail(wire[e]) \in Seq(passed[e] \cup {Garbage})
<1>1. wire[e] \in Seq(passed[e] \cup {Garbage})
  BY DEF OnWire
<1> QED BY <1>1, HeadTailProperties

LEMMA WireStep ==
  ASSUME TypeOK, OnWire, ArmorNext
  PROVE  OnWire' /\ WireFunction' /\ PassedType'
<1> USE TypeParts, WireParts DEF WireFunction, PassedType
<1>1. CASE Quiet \/ ReadPublicKey
  BY <1>1 DEF Quiet, ReadPublicKey, wireVars, OnWire
<1>2. ASSUME NEW e \in Ends, Closing(e)
      PROVE  OnWire' /\ WireFunction' /\ PassedType'
  <2>1. \A S : <<>> \in Seq(S)
    OBVIOUS
  <2> QED BY <1>2, <2>1 DEF Closing, OnWire
<1>3. CASE Dial
  <2> DEFINE hello == HelloFrame(ephsMade + 1)
  <2>1. hello \in Frames
    BY FramesAre DEF TypeMade
  <2> HIDE DEF hello
  <2>2. /\ wire' = [wire EXCEPT !["client"] = <<>>, !["daemon"] = <<hello>>]
        /\ passed' = [passed EXCEPT !["daemon"] = @ \cup {hello}]
    BY <1>3 DEF Dial, hello
  <2>3. PassedType' /\ WireFunction'
    BY <2>1, <2>2 DEF Ends
  <2>4. /\ wire'["client"] = <<>> /\ wire'["daemon"] = <<hello>>
        /\ hello \in passed'["daemon"]
    BY <2>2 DEF Ends
  <2>5. <<hello>> \in Seq(passed'["daemon"] \cup {Garbage})
    BY <2>4
  <2>6. <<>> \in Seq(passed'["client"] \cup {Garbage})
    OBVIOUS
  <2> QED BY <2>3, <2>4, <2>5, <2>6 DEF OnWire, Ends
<1>4. CASE ServerHandshake
  <2>1. PICK h \in Transcripts :
          LET response == ResponseFrame(ephsMade + 1, static, h)
          IN  /\ wire["daemon"] # <<>>
              /\ response \in Frames
              /\ \/ /\ wire' = [wire EXCEPT !["daemon"] = Tail(@),
                                            !["client"] = Append(@, response)]
                    /\ passed' = [passed EXCEPT
                                    !["client"] = @ \cup {response}]
                 \/ /\ wire' = [wire EXCEPT !["daemon"] = <<>>]
                    /\ UNCHANGED passed
    BY <1>4, ServerTranscript
  <2> DEFINE response == ResponseFrame(ephsMade + 1, static, h)
  <2>2. response \in Frames
    BY <2>1
  <2> HIDE DEF response
  <2>3. PassedType' /\ WireFunction'
    BY <2>1, <2>2 DEF response
  <2>4. passed["client"] \subseteq passed'["client"]
        /\ passed'["daemon"] = passed["daemon"]
    BY <2>1 DEF Ends
  <2>5. Tail(wire["daemon"]) \in Seq(passed'["daemon"] \cup {Garbage})
    BY <2>1, <2>4, HeadPassed DEF Ends
  <2>6. wire["client"] \in Seq(passed'["client"] \cup {Garbage})
    BY <2>4, WidenWire DEF Ends
  <2>7. CASE UNCHANGED passed
    <3>1. <<>> \in Seq(passed'["daemon"] \cup {Garbage})
      OBVIOUS
    <3>2. response \in passed'["client"] \/ wire'["client"] = wire["client"]
      BY <2>1 DEF Ends, response
    <3>3. \/ wire'["client"] = wire["client"]
          \/ wire'["client"] = Append(wire["client"], response)
      BY <2>1 DEF Ends, response
    <3>4. wire'["daemon"] = Tail(wire["daemon"]) \/ wire'["daemon"] = <<>>
      BY <2>1 DEF Ends
    <3>5. wire'["client"] \in Seq(passed'["client"] \cup {Garbage})
      BY <2>6, <3>2, <3>3, AppendProperties, SMTT(30)
    <3> QED BY <2>3, <2>5, <3>1, <3>4, <3>5 DEF OnWire, Ends
  <2>8. CASE ~UNCHANGED passed
    <3>1. /\ response \in passed'["client"]
          /\ wire'["client"] = Append(wire["client"], response)
          /\ wire'["daemon"] = Tail(wire["daemon"])
      BY <2>1, <2>8 DEF Ends, response
    <3>2. wire'["client"] \in Seq(passed'["client"] \cup {Garbage})
      BY <2>6, <3>1, AppendProperties
    <3> QED BY <2>3, <2>5, <3>1, <3>2 DEF OnWire, Ends
  <2> QED BY <2>7, <2>8
<1>5. CASE ClientHandshake
  BY <1>5, HeadPassed DEF ClientHandshake, OnWire, Ends
<1>6. ASSUME NEW e \in Ends, NEW p \in Payloads, Send(e, p) \/ SendFails(e, p)
      PROVE  OnWire' /\ WireFunction' /\ PassedType'
  <2> DEFINE f == RecordFrame(SendKey(e), sendCount[e], p)
  <2>1. f \in Frames
    BY KeysAre, FramesAre DEF TypeChannel
  <2> HIDE DEF f
  <2>2. Peer(e) \in Ends
    BY PeerProperties
  <2>3. CASE Send(e, p)
    <3>1. /\ wire' = [wire EXCEPT ![Peer(e)] = Append(@, f)]
          /\ passed' = [passed EXCEPT ![Peer(e)] = @ \cup {f}]
      BY <2>3 DEF Send, f
    <3>2. PassedType' /\ WireFunction'
      BY <2>1, <2>2, <3>1
    <3>3. \A d \in Ends : d # Peer(e) =>
            wire'[d] = wire[d] /\ passed'[d] = passed[d]
      BY <3>1
    <3>4. /\ wire'[Peer(e)] = Append(wire[Peer(e)], f)
          /\ passed'[Peer(e)] = passed[Peer(e)] \cup {f}
      BY <2>2, <3>1
    <3>5. wire[Peer(e)] \in Seq(passed'[Peer(e)] \cup {Garbage})
      BY <2>2, <3>4, WidenWire
    <3>6. wire'[Peer(e)] \in Seq(passed'[Peer(e)] \cup {Garbage})
      BY <3>4, <3>5, AppendProperties
    <3> QED BY <3>2, <3>3, <3>6 DEF OnWire
  <2>4. CASE SendFails(e, p)
    BY <2>2, <2>4, AppendProperties DEF SendFails, OnWire
  <2> QED BY <1>6, <2>3, <2>4
<1>7. ASSUME NEW e \in Ends,
             SendExhausted(e) \/ Receive(e) \/ ReceiveFails(e)
      PROVE  OnWire' /\ WireFunction' /\ PassedType'
  BY <1>7, HeadPassed DEF SendExhausted, SendFrame, Receive, ReceiveFails,
    ReceiveFrame, OnWire
<1>8. ASSUME NEW e \in Ends, NEW i \in DOMAIN wire[e], Damage(e, i)
      PROVE  OnWire' /\ WireFunction' /\ PassedType'
  <2>1. PICK f \in Damaged(wire[e][i]) :
          /\ wire' = [wire EXCEPT ![e][i] = f]
          /\ passed' = [passed EXCEPT ![e] = @ \cup {f}]
    BY <1>8 DEF Damage
  <2>2. wire[e][i] \in Frames
    BY ElementOfSeq DEF TypeWire
  <2>3. f \in Frames
    BY <2>2, DamagedIs
  <2>4. PassedType' /\ WireFunction'
    BY <2>1, <2>3
  <2>5. wire[e] \in Seq(passed'[e] \cup {Garbage})
    BY <2>1, WidenWire
  <2>6. wire'[e] = [wire[e] EXCEPT ![i] = f] /\ f \in passed'[e]
    BY <2>1
  <2>7. wire'[e] \in Seq(passed'[e] \cup {Garbage})
    BY <2>5, <2>6, ExceptSeq
  <2>8. \A d \in Ends : d # e => wire'[d] = wire[d] /\ passed'[d] = passed[d]
    BY <2>1
  <2> QED BY <2>4, <2>7, <2>8 DEF OnWire
<1>9. ASSUME NEW e \in Ends, NEW i \in DOMAIN wire[e], Lose(e, i)
      PROVE  OnWire' /\ WireFunction' /\ PassedType'
  <2>1. RemoveAt(wire[e], i) \in Seq(passed[e] \cup {Garbage})
    BY RemoveAtType DEF OnWire
  <2> QED BY <1>9, <2>1 DEF Lose, OnWire
<1>10. ASSUME NEW e \in Ends, Repeat(e)
       PROVE  OnWire' /\ WireFunction' /\ PassedType'
  <2>1. PICK f \in passed[e], i \in {1, Len(wire[e]) + 1} :
          wire' = [wire EXCEPT ![e] = InsertAt(@, i, f)]
    BY <1>10 DEF Repeat
  <2>2. InsertAt(wire[e], i, f) \in Seq(passed[e] \cup {Garbage})
    BY InsertAtType DEF OnWire
  <2> QED BY <1>10, <2>1, <2>2 DEF Repeat, OnWire
<1> QED
  BY <1>1, <1>2, <1>3, <1>4, <1>5, <1>6, <1>7, <1>8, <1>9, <1>10, StepKinds

LEMMA TypeStep ==
  ASSUME TypeOK, OnWire, ArmorNext
  PROVE  TypeOK' /\ OnWire'
<1>1. TypeMade' /\ TypeChannel'
  BY TypeMadeStep, TypeChannelStep
<1>2. OnWire' /\ WireFunction' /\ PassedType'
  BY WireStep
<1>3. TypeWire'
  BY <1>2, WireParts, PTL
<1>4. TypeOK'
  BY <1>1, <1>3, TypeParts, PTL
<1> QED BY <1>2, <1>4

-----------------------------------------------------------------------------
(* The rest of the invariant, part by part.                                *)

\* What a fault of the wire can add to the frames that have passed.
Altered(g, d) ==
  /\ g.kind # "record"
  /\ g.kind = "hello" => g.client = NoKey
  /\ g.kind = "response" =>
       \E f \in passed[d] :
         f.kind = "response" /\ g.confirm \in {f.confirm, NoHand}
Faulty ==
  /\ UNCHANGED <<handVars, stage, countVars, historyVars>>
  /\ \A d \in Ends : \A g \in passed'[d] : g \in passed[d] \/ Altered(g, d)

LEMMA OnePasses ==
  ASSUME TypeOK, NEW e \in Ends, NEW STATE g,
         passed' = [passed EXCEPT ![e] = @ \cup {g}]
  PROVE  \A d \in Ends : \A f \in passed'[d] :
           f \in passed[d] \/ (d = e /\ f = g)
<1>1. PassedType
  BY TypeParts, WireParts
<1>2. ASSUME NEW d \in Ends, NEW f \in passed'[d], d # e
      PROVE  f \in passed[d]
  BY <1>1, <1>2 DEF PassedType
<1>3. ASSUME NEW f \in passed'[e]
      PROVE  f \in passed[e] \/ f = g
  BY <1>1, <1>3 DEF PassedType
<1> QED BY <1>2, <1>3

LEMMA FaultsAre ==
  ASSUME TypeOK, OnWire, NEW e \in Ends,
         (\E i \in DOMAIN wire[e] : Damage(e, i) \/ Lose(e, i)) \/ Repeat(e)
  PROVE  Faulty
<1>1. ASSUME NEW i \in DOMAIN wire[e], Damage(e, i)
      PROVE  Faulty
  <2>1. PICK g \in Damaged(wire[e][i]) :
          passed' = [passed EXCEPT ![e] = @ \cup {g}]
    BY <1>1 DEF Damage
  <2>2. wire[e][i] \in Frames /\ wire[e][i] \in passed[e] \cup {Garbage}
    <3>1. wire[e] \in Seq(Frames) /\ wire[e] \in Seq(passed[e] \cup {Garbage})
      BY TypeParts DEF TypeWire, OnWire
    <3> QED BY <3>1, ElementOfSeq
  <2>3. Altered(g, e)
    BY <2>2, DamagedIs DEF Altered, Garbage
  <2>4. \A d \in Ends : \A f \in passed'[d] : f \in passed[d] \/ Altered(f, d)
    BY <2>1, <2>3, OnePasses
  <2>5. UNCHANGED <<handVars, stage, countVars, historyVars>>
    BY <1>1 DEF Damage, WireFrame
  <2> QED BY <2>4, <2>5 DEF Faulty
<1>2. ASSUME NEW i \in DOMAIN wire[e], Lose(e, i)
      PROVE  Faulty
  BY <1>2 DEF Lose, WireFrame, Faulty
<1>3. CASE Repeat(e)
  BY <1>3 DEF Repeat, WireFrame, Faulty
<1> QED BY <1>1, <1>2, <1>3

LEMMA Kinds ==
  ASSUME TypeOK, OnWire, ArmorNext
  PROVE  \/ Quiet \/ ReadPublicKey \/ Dial
         \/ ServerHandshake \/ ClientHandshake \/ Faulty
         \/ \E e \in Ends :
              \/ Closing(e) \/ SendExhausted(e)
              \/ \E p \in Payloads : Send(e, p) \/ SendFails(e, p)
              \/ Receive(e) \/ ReceiveFails(e)
BY StepKinds, FaultsAre

LEMMA OldGrows ==
  ASSUME TypeOK, NEW f \in Frames, NEW n \in Nat, OldFrame(f, n)
  PROVE  OldFrame(f, n + 1)
<1>1. ASSUME NEW h \in Transcripts, Old(h, n)
      PROVE  Old(h, n + 1)
  BY <1>1 DEF Old, Transcripts
<1>2. f.kind = "record" => f.key.from \in Transcripts
  BY FrameParts DEF Keys
<1> QED BY <1>1, <1>2, FrameParts DEF OldFrame

LEMMA KnownStep ==
  ASSUME TypeOK, OnWire, Known, ArmorNext
  PROVE  Known'
<1>1. CASE Quiet \/ ReadPublicKey
  BY <1>1 DEF Quiet, ReadPublicKey, Known, handVars, wireVars, historyVars
<1>2. CASE Faulty
  <2>1. ASSUME NEW d \in Ends, NEW g \in passed'[d]
        PROVE  OldFrame(g, ephsMade)
    <3>1. CASE Altered(g, d)
      BY <3>1 DEF Altered, OldFrame, Old, Known, NoHand, NoKey, Transcript,
        TypeOK
    <3> QED BY <1>2, <2>1, <3>1 DEF Faulty, Known
  <2> QED BY <1>2, <2>1 DEF Faulty, Known, handVars, historyVars
<1>3. ASSUME NEW e \in Ends,
             \/ Closing(e) \/ SendExhausted(e) \/ Receive(e) \/ ReceiveFails(e)
      PROVE  Known'
  BY <1>3 DEF Closing, SendExhausted, SendFrame, Receive, ReceiveFails,
    ReceiveFrame, Known, handVars, historyVars
<1>4. ASSUME NEW e \in Ends, NEW p \in Payloads, Send(e, p) \/ SendFails(e, p)
      PROVE  Known'
  <2>1. UNCHANGED handVars
    BY <1>4 DEF Send, SendFails, SendFrame
  <2>2. SendKey(e).from = hand[e]
    BY DEF SendKey, KeyFor
  <2>3. \A r \in sealed' : r \in sealed \/ r.key = SendKey(e)
    BY <1>4 DEF Send, SendFails, Seal
  <2>4. \A d \in Ends : \A f \in passed'[d] :
          f \in passed[d] \/ (f.kind = "record" /\ f.key = SendKey(e))
    <3>1. CASE Send(e, p)
      BY <3>1, OnePasses, PeerProperties DEF Send, RecordFrame
    <3>2. CASE SendFails(e, p)
      BY <3>2 DEF SendFails
    <3> QED BY <1>4, <3>1, <3>2
  <2>5. Old(SendKey(e).from, ephsMade)
    BY <2>2 DEF Known
  <2>6. \A r \in sealed' : Old(r.key.from, ephsMade)
    BY <2>3, <2>5 DEF Known
  <2>7. \A d \in Ends : \A f \in passed'[d] : OldFrame(f, ephsMade)
    BY <2>4, <2>5 DEF Known, OldFrame
  <2> QED BY <2>1, <2>6, <2>7 DEF Known, handVars
<1>5. ASSUME NEW n \in Nat, ephsMade' = n, n = ephsMade + 1
      PROVE  /\ \A e \in Ends : eph[e] <= n /\ Old(hand[e], n)
             /\ \A r \in sealed : Old(r.key.from, n)
             /\ \A e \in Ends : \A f \in passed[e] : OldFrame(f, n)
  <2>1. ephsMade \in Nat
    BY DEF TypeOK
  <2>2. ASSUME NEW h \in Transcripts, Old(h, ephsMade)
        PROVE  Old(h, n)
    BY <1>5, <2>1, <2>2 DEF Old, Transcripts
  <2>3. \A e \in Ends : eph[e] <= n /\ Old(hand[e], n)
    <3>1. \A e \in Ends : eph[e] \in Nat /\ hand[e] \in Transcripts
      BY DEF TypeOK
    <3> QED BY <1>5, <2>1, <2>2, <3>1 DEF Known
  <2>4. \A r \in sealed : Old(r.key.from, n)
    BY <2>2 DEF Known, TypeOK, Keys
  <2>5. \A e \in Ends : \A f \in passed[e] : OldFrame(f, n)
    BY <1>5, <2>1, OldGrows DEF Known, TypeOK
  <2> QED BY <2>3, <2>4, <2>5
<1>6. ephsMade \in Nat /\ ephsMade + 1 \in Nat
  BY DEF TypeOK
<1>7. CASE Dial
  <2>1. \A e \in Ends : \A f \in passed'[e] :
          f \in passed[e] \/ f = HelloFrame(ephsMade + 1)
    BY <1>7 DEF Dial, TypeOK
  <2>2. OldFrame(HelloFrame(ephsMade + 1), ephsMade + 1)
    BY <1>6 DEF OldFrame, HelloFrame
  <2>3. /\ ephsMade' = ephsMade + 1 /\ sealed' = sealed
        /\ eph' = [eph EXCEPT !["client"] = ephsMade + 1]
        /\ hand' = [e \in Ends |-> NoHand]
    BY <1>7 DEF Dial
  <2>4. Old(NoHand, ephsMade + 1)
    BY <1>6 DEF Old, NoHand, NoKey, Transcript
  <2>5. \A e \in Ends : eph'[e] = eph[e] \/ eph'[e] = ephsMade + 1
    BY <2>3 DEF TypeOK
  <2>6. \A e \in Ends : eph'[e] <= ephsMade + 1 /\ Old(hand'[e], ephsMade + 1)
    BY <1>5, <1>6, <2>3, <2>4, <2>5
  <2>7. \A e \in Ends : \A f \in passed'[e] : OldFrame(f, ephsMade + 1)
    BY <1>5, <1>6, <2>1, <2>2, <2>3
  <2>8. \A r \in sealed' : Old(r.key.from, ephsMade + 1)
    BY <1>5, <1>6, <2>3
  <2> QED BY <2>3, <2>6, <2>7, <2>8 DEF Known
<1>8. CASE ServerHandshake
  <2>1. PICK h \in Transcripts :
          LET response == ResponseFrame(ephsMade + 1, static, h)
          IN  /\ wire["daemon"] # <<>>
              /\ Head(wire["daemon"]).kind = "hello"
              /\ h.client = Head(wire["daemon"]).client
              /\ h.daemon = ephsMade + 1
              /\ ephsMade' = ephsMade + 1
              /\ eph' = [eph EXCEPT !["daemon"] = ephsMade + 1]
              /\ hand' = [hand EXCEPT !["daemon"] = h]
              /\ sealed' = sealed \cup
                   {[key |-> KeyFor("confirmation", h), count |-> 0,
                     plain |-> "confirmation"]}
              /\ passed' \in {passed, [passed EXCEPT
                                         !["client"] = @ \cup {response}]}
    BY <1>8, ServerTranscript
  <2> DEFINE response == ResponseFrame(ephsMade + 1, static, h)
  <2>2. h.client <= ephsMade
    BY <2>1, HeadPassed DEF Known, OldFrame, Garbage, Ends
  <2>3. Old(h, ephsMade + 1)
    BY <1>6, <2>1, <2>2 DEF Old, Transcripts
  <2>4. OldFrame(response, ephsMade + 1)
    BY <2>3 DEF OldFrame, ResponseFrame
  <2>5. \A e \in Ends : \A f \in passed'[e] : f \in passed[e] \/ f = response
    BY <2>1, OnePasses DEF Ends
  <2>6. \A r \in sealed' : r \in sealed \/ r.key.from = h
    BY <2>1 DEF KeyFor
  <2>7. \A e \in Ends : /\ eph'[e] = eph[e] \/ eph'[e] = ephsMade + 1
                        /\ hand'[e] = hand[e] \/ hand'[e] = h
    BY <2>1 DEF TypeOK
  <2> HIDE DEF response
  <2> QED BY <1>5, <1>6, <2>1, <2>3, <2>4, <2>5, <2>6, <2>7 DEF Known
<1>9. CASE ClientHandshake
  <2> DEFINE response == Head(wire["client"])
  <2>1. /\ response \in passed["client"] \cup {Garbage}
        /\ Genuine(response)
        /\ hand' = [hand EXCEPT !["client"] = ClientTranscript(response)]
    BY <1>9, HeadPassed DEF ClientHandshake, Ends
  <2>2. Old(ClientTranscript(response), ephsMade)
    BY <2>1 DEF Genuine, Known, OldFrame, Garbage, Ends
  <2>3. \A e \in Ends :
          hand'[e] = hand[e] \/ hand'[e] = ClientTranscript(response)
    BY <2>1 DEF TypeOK
  <2> QED BY <1>9, <2>2, <2>3 DEF ClientHandshake, Known, historyVars
<1> QED BY <1>1, <1>2, <1>3, <1>4, <1>7, <1>8, <1>9, Kinds

LEMMA SendEffect ==
  ASSUME TypeOK, NEW e \in Ends, NEW p \in Payloads,
         Send(e, p) \/ SendFails(e, p)
  PROVE  /\ stage[e] = "open" /\ ~sendFailed[e]
         /\ UNCHANGED <<handVars, stage>>
         /\ sealed' = sealed \cup
              {[key |-> SendKey(e), count |-> sendCount[e], plain |-> p]}
         /\ \A d \in Ends : \A f \in passed'[d] :
              \/ f \in passed[d]
              \/ /\ Send(e, p) /\ d = Peer(e)
                 /\ f = RecordFrame(SendKey(e), sendCount[e], p)
<1>1. CASE Send(e, p)
  BY <1>1, OnePasses, PeerProperties DEF Send, SendFrame, Seal
<1>2. CASE SendFails(e, p)
  BY <1>2 DEF SendFails, SendFrame, Seal
<1> QED BY <1>1, <1>2

LEMMA OpeningStep ==
  ASSUME TypeOK, OnWire, Known, Opening, ArmorNext
  PROVE  Opening'
<1> USE DEF NoKey
<1>1. CASE Quiet
  BY <1>1 DEF Quiet, Opening, Connected, handVars, wireVars, historyVars
<1>2. CASE ReadPublicKey
  BY <1>2 DEF ReadPublicKey, Opening, Connected, wireVars, historyVars,
    TypeOK, Ends
<1>3. CASE Faulty
  <2>1. \A f \in passed'["daemon"] :
          f.kind = "record" => f \in passed["daemon"]
    BY <1>3 DEF Faulty, Altered, Ends
  <2> QED BY <1>3, <2>1 DEF Faulty, Opening, Connected, handVars, historyVars
<1>4. ASSUME NEW e \in Ends,
             SendExhausted(e) \/ Receive(e) \/ ReceiveFails(e)
      PROVE  Opening'
  BY <1>4 DEF SendExhausted, SendFrame, Receive, ReceiveFails, ReceiveFrame,
    Opening, Connected, handVars
<1>5. ASSUME NEW e \in Ends, Closing(e)
      PROVE  Opening'
  <2>1. \A d \in Ends : stage'[d] = stage[d] \/ stage'[d] = "closed"
    BY <1>5 DEF Closing, TypeOK
  <2> QED BY <1>5, <2>1 DEF Closing, Opening, Connected, handVars, historyVars,
    Ends
<1>6. ASSUME NEW e \in Ends, NEW p \in Payloads, Send(e, p) \/ SendFails(e, p)
      PROVE  Opening'
  <2>1. ASSUME stage'["client"] = "waiting"
        PROVE  e = "daemon"
    BY <1>6, <2>1, SendEffect DEF Ends
  <2>2. e = "daemon" => SendKey(e).purpose = "client"
    BY DEF SendKey, KeyFor, Peer
  <2>3. stage'["client"] = "waiting" =>
          /\ \A r \in sealed' : r.key.purpose = "daemon" => r \in sealed
          /\ \A f \in passed'["daemon"] :
               f.kind = "record" /\ f.key.purpose = "daemon" =>
                 f \in passed["daemon"]
    BY <1>6, <2>1, <2>2, SendEffect DEF RecordFrame, Ends
  <2> QED BY <1>6, <2>3, SendEffect DEF Opening, Connected, handVars
<1>7. CASE Dial
  <2>1. /\ eph'["client"] = ephsMade + 1 /\ sealed' = sealed
        /\ hand' = [e \in Ends |-> NoHand]
        /\ stage' = [e \in Ends |-> "waiting"]
    BY <1>7 DEF Dial, TypeOK, Ends
  <2>2. \A f \in passed'["daemon"] :
          f.kind = "record" => f \in passed["daemon"]
    BY <1>7, OnePasses DEF Dial, HelloFrame, Ends
  <2>3. \A h \in Transcripts : Old(h, ephsMade) => h.client # ephsMade + 1
    BY DEF Old, Transcripts, TypeOK
  <2>4. \A r \in sealed : r.key.from.client # ephsMade + 1
    BY <2>3 DEF Known, TypeOK, Keys
  <2>5. \A f \in passed["daemon"] :
          f.kind = "record" => f.key.from.client # ephsMade + 1
    BY <2>3, FrameParts DEF Known, OldFrame, TypeOK, Keys, Ends
  <2>6. ephsMade + 1 # 0
    BY DEF TypeOK
  <2> QED BY <2>1, <2>2, <2>4, <2>5, <2>6 DEF Opening, Connected, Ends
<1>8. CASE ServerHandshake
  <2>1. PICK h \in Transcripts :
          LET response == ResponseFrame(ephsMade + 1, static, h)
          IN  /\ h.daemon = ephsMade + 1
              /\ eph' = [eph EXCEPT !["daemon"] = ephsMade + 1]
              /\ hand' = [hand EXCEPT !["daemon"] = h]
              /\ stage' \in {[stage EXCEPT !["daemon"] = "open"],
                             [stage EXCEPT !["daemon"] = "closed"]}
              /\ sealed' = sealed \cup
                   {[key |-> KeyFor("confirmation", h), count |-> 0,
                     plain |-> "confirmation"]}
              /\ passed' \in {passed, [passed EXCEPT
                                         !["client"] = @ \cup {response}]}
    BY <1>8, ServerTranscript
  <2>2. /\ passed'["daemon"] = passed["daemon"]
        /\ eph'["client"] = eph["client"]
        /\ hand'["client"] = hand["client"] /\ hand'["daemon"] = h
        /\ stage'["client"] = stage["client"]
        /\ stage'["daemon"] \in {"open", "closed"}
    BY <2>1 DEF TypeOK, Ends
  <2>3. \A r \in sealed' : r.key.purpose = "daemon" => r \in sealed
    BY <2>1 DEF KeyFor
  <2>4. h.daemon # 0
    BY <2>1 DEF TypeOK
  <2> QED BY <2>2, <2>3, <2>4 DEF Opening, Connected, Ends
<1>9. CASE ClientHandshake
  <2> DEFINE response == Head(wire["client"])
  <2>1. /\ response.daemon # 0 /\ stage["client"] = "waiting"
        /\ hand' = [hand EXCEPT !["client"] = ClientTranscript(response)]
        /\ stage' = [stage EXCEPT !["client"] = "open"]
        /\ UNCHANGED <<eph, passed, sealed>>
    BY <1>9 DEF ClientHandshake, Genuine, historyVars
  <2>2. hand'["client"].daemon # 0 /\ hand'["daemon"] = hand["daemon"]
    BY <2>1 DEF ClientTranscript, Transcript, TypeOK, Ends
  <2>3. stage'["client"] = "open" /\ stage'["daemon"] = stage["daemon"]
    BY <2>1 DEF TypeOK, Ends
  <2> QED BY <2>1, <2>2, <2>3 DEF Opening, Connected, Ends
<1> QED BY <1>1, <1>2, <1>3, <1>4, <1>5, <1>6, <1>7, <1>8, <1>9, Kinds

LEMMA ResponsesStep ==
  ASSUME TypeOK, OnWire, Known, Opening, Responses, ArmorNext
  PROVE  Responses'
<1> USE DEF NoKey
<1>1. CASE Quiet \/ ReadPublicKey
  BY <1>1 DEF Quiet, ReadPublicKey, Responses, handVars, wireVars
<1>2. CASE Faulty
  <2>1. ASSUME NEW g \in passed'["client"], Altered(g, "client"),
               g.kind = "response", eph["client"] # 0,
               g.confirm.client = eph["client"]
        PROVE  g.confirm = hand["daemon"]
    BY <2>1 DEF Altered, Responses, NoHand, Transcript
  <2> QED BY <1>2, <2>1 DEF Faulty, Responses, handVars, Ends
<1>3. ASSUME NEW e \in Ends,
             \/ Closing(e) \/ SendExhausted(e) \/ Receive(e) \/ ReceiveFails(e)
      PROVE  Responses'
  BY <1>3 DEF Closing, SendExhausted, SendFrame, Receive, ReceiveFails,
    ReceiveFrame, Responses, handVars
<1>4. ASSUME NEW e \in Ends, NEW p \in Payloads, Send(e, p) \/ SendFails(e, p)
      PROVE  Responses'
  <2>1. \A f \in passed'["client"] :
          f.kind = "response" => f \in passed["client"]
    BY <1>4, SendEffect DEF RecordFrame, Ends
  <2> QED BY <1>4, <2>1, SendEffect DEF Responses, handVars
<1>5. CASE Dial
  <2>1. eph'["client"] = ephsMade + 1 /\ passed'["client"] = passed["client"]
    BY <1>5 DEF Dial, TypeOK, Ends
  <2>2. ASSUME NEW f \in passed["client"], f.kind = "response"
        PROVE  f.confirm.client # ephsMade + 1
    <3>1. Old(f.confirm, ephsMade)
      BY <2>2 DEF Known, OldFrame, Ends
    <3>2. f.confirm \in Transcripts
      BY <2>2, FrameParts DEF TypeOK, Ends
    <3> QED BY <3>1, <3>2 DEF Old, Transcripts, TypeOK
  <2> QED BY <2>1, <2>2 DEF Responses
<1>6. CASE ServerHandshake
  <2>1. PICK h \in Transcripts :
          LET response == ResponseFrame(ephsMade + 1, static, h)
          IN  /\ stage["daemon"] = "waiting"
              /\ eph' = [eph EXCEPT !["daemon"] = ephsMade + 1]
              /\ hand' = [hand EXCEPT !["daemon"] = h]
              /\ passed' \in {passed, [passed EXCEPT
                                         !["client"] = @ \cup {response}]}
    BY <1>6, ServerTranscript
  <2>2. hand'["daemon"] = h /\ eph'["client"] = eph["client"]
    BY <2>1 DEF TypeOK, Ends
  <2>3. \A f \in passed'["client"] :
          \/ f \in passed["client"]
          \/ f.kind = "response" /\ f.confirm = h
    BY <2>1, OnePasses DEF ResponseFrame, Ends
  <2>4. hand["daemon"].client = 0
    BY <2>1 DEF Opening, NoHand, Transcript
  <2>5. \A f \in passed["client"] :
          f.kind = "response" /\ eph["client"] # 0 =>
            f.confirm.client # eph["client"]
    BY <2>4 DEF Responses
  <2> QED BY <2>2, <2>3, <2>5 DEF Responses
<1>7. CASE ClientHandshake
  <2>1. hand'["daemon"] = hand["daemon"] /\ UNCHANGED <<eph, passed>>
    BY <1>7 DEF ClientHandshake, TypeOK, Ends
  <2> QED BY <2>1 DEF Responses
<1> QED BY <1>1, <1>2, <1>3, <1>4, <1>5, <1>6, <1>7, Kinds

LEMMA KeysAgreeStep ==
  ASSUME TypeOK, OnWire, Opening, Responses, KeysAgree, ArmorNext
  PROVE  KeysAgree'
<1>1. CASE Quiet
  BY <1>1 DEF Quiet, KeysAgree, handVars
<1>2. CASE Faulty
  BY <1>2 DEF Faulty, KeysAgree, handVars
<1>3. CASE ReadPublicKey \/ Dial
  BY <1>3 DEF ReadPublicKey, Dial, KeysAgree, TypeOK, Ends
<1>4. ASSUME NEW e \in Ends, Closing(e)
      PROVE  KeysAgree'
  <2>1. stage'["client"] = "open" => stage["client"] = "open"
    BY <1>4 DEF Closing, TypeOK, Ends
  <2> QED BY <1>4, <2>1 DEF Closing, KeysAgree, handVars
<1>5. ASSUME NEW e \in Ends,
             SendExhausted(e) \/ Receive(e) \/ ReceiveFails(e)
      PROVE  KeysAgree'
  BY <1>5 DEF SendExhausted, SendFrame, Receive, ReceiveFails, ReceiveFrame,
    KeysAgree, handVars
<1>6. ASSUME NEW e \in Ends, NEW p \in Payloads, Send(e, p) \/ SendFails(e, p)
      PROVE  KeysAgree'
  BY <1>6, SendEffect DEF KeysAgree, handVars
<1>7. CASE ServerHandshake
  <2>1. stage["daemon"] = "waiting" /\ stage'["client"] = stage["client"]
    BY <1>7 DEF ServerHandshake, TypeOK, Ends
  <2>2. stage["client"] # "open"
    BY <2>1 DEF Opening, KeysAgree, NoHand, Transcript, Ends
  <2> QED BY <2>1, <2>2 DEF KeysAgree
<1>8. CASE ClientHandshake
  <2> DEFINE response == Head(wire["client"])
  <2>1. /\ stage["client"] = "waiting"
        /\ Genuine(response)
        /\ hand' = [hand EXCEPT !["client"] = ClientTranscript(response)]
        /\ UNCHANGED expected
        /\ response \in passed["client"] \cup {Garbage}
    BY <1>8, HeadPassed DEF ClientHandshake, Ends
  <2>2. response \in passed["client"] /\ response.kind = "response"
    BY <2>1 DEF Genuine, Garbage
  <2>3. response.confirm = ClientTranscript(response)
    BY <2>1 DEF Genuine
  <2>4. ClientTranscript(response).client = eph["client"]
        /\ ClientTranscript(response).static = expected
    BY DEF ClientTranscript, Transcript
  <2>5. eph["client"] # NoKey
    BY <2>1 DEF Opening, Connected
  <2>6. hand["daemon"] = ClientTranscript(response)
    BY <2>2, <2>3, <2>4, <2>5 DEF Responses
  <2>7. /\ hand'["client"] = ClientTranscript(response)
        /\ hand'["daemon"] = hand["daemon"]
    BY <2>1 DEF TypeOK, Ends
  <2> QED BY <2>1, <2>4, <2>6, <2>7 DEF KeysAgree
<1> QED BY <1>1, <1>2, <1>3, <1>4, <1>5, <1>6, <1>7, <1>8, Kinds

LEMMA CountedStep ==
  ASSUME TypeOK, OnWire, Known, Opening, Counted, ArmorNext
  PROVE  Counted'
<1>1. CASE Quiet
  BY <1>1 DEF Quiet, Counted, SendKey, handVars, countVars, historyVars
<1>2. CASE Faulty
  BY <1>2 DEF Faulty, Counted, SendKey, handVars, countVars, historyVars
<1>3. CASE ReadPublicKey
  BY <1>3 DEF ReadPublicKey, Counted, SendKey, countVars, historyVars, TypeOK
<1>4. CASE Dial
  BY <1>4 DEF Dial, Counted
<1>5. ASSUME NEW e \in Ends, Closing(e)
      PROVE  Counted'
  <2>1. \A d \in Ends : stage'[d] = "open" => stage[d] = "open"
    BY <1>5 DEF Closing, TypeOK
  <2> QED BY <1>5, <2>1 DEF Closing, Counted, SendKey, handVars, countVars,
    historyVars
<1>6. ASSUME NEW e \in Ends, SendExhausted(e)
      PROVE  Counted'
  BY <1>6 DEF SendExhausted, SendFrame, Counted, SendKey, handVars, TypeOK
<1>7. ASSUME NEW e \in Ends, Receive(e) \/ ReceiveFails(e)
      PROVE  Counted'
  BY <1>7 DEF Receive, ReceiveFails, ReceiveFrame, Counted, SendKey, handVars
<1>8. ASSUME NEW e \in Ends, NEW p \in Payloads, Send(e, p) \/ SendFails(e, p)
      PROVE  Counted'
  <2>1. \A d \in Ends : d # e => SendKey(d) # SendKey(e)
    BY DEF SendKey, KeyFor, Peer, Ends
  <2>2. \A d \in Ends : SendKey(d)' = SendKey(d)
    BY <1>8, SendEffect DEF SendKey, handVars
  <2>3. \A r \in sealed' :
          r \in sealed \/ (r.key = SendKey(e) /\ r.count = sendCount[e])
    BY <1>8, SendEffect
  <2>4. \/ sendFailed'[e]
        \/ sendCount'[e] = sendCount[e] + 1
    BY <1>8, CountSteps DEF Send, MaySeal, SendFails, FaultedBy, TypeOK
  <2>5. \A d \in Ends : d # e => sendCount'[d] = sendCount[d]
                                 /\ sendFailed'[d] = sendFailed[d]
    BY <1>8 DEF Send, SendFails, TypeOK
  <2>6. stage[e] = "open" /\ ~sendFailed[e] /\ stage' = stage
    BY <1>8, SendEffect
  <2>7. \A r \in sealed' : r.key = SendKey(e) =>
          r.count < sendCount'[e] \/ sendFailed'[e]
    <3>1. sendCount[e] \in Nat /\ \A r \in sealed : r.count \in Nat
      BY ArmorAssumption DEF TypeOK
    <3> QED BY <2>3, <2>4, <2>6, <3>1 DEF Counted
  <2>8. \A d \in Ends, r \in sealed' :
          d # e /\ stage[d] = "open" /\ r.key = SendKey(d) =>
            r.count < sendCount'[d] \/ sendFailed'[d]
    BY <2>1, <2>3, <2>5 DEF Counted
  <2> QED BY <2>2, <2>6, <2>7, <2>8 DEF Counted
<1>9. CASE ServerHandshake
  <2>1. PICK h \in Transcripts :
          /\ h.daemon = ephsMade + 1
          /\ hand' = [hand EXCEPT !["daemon"] = h]
          /\ stage' \in {[stage EXCEPT !["daemon"] = "open"],
                         [stage EXCEPT !["daemon"] = "closed"]}
          /\ sealed' = sealed \cup
               {[key |-> KeyFor("confirmation", h), count |-> 0,
                 plain |-> "confirmation"]}
          /\ UNCHANGED countVars
    BY <1>9, ServerTranscript
  <2>2. \A e \in Ends : SendKey(e)'.purpose # "confirmation"
    BY DEF SendKey, KeyFor, Peer
  <2>3. \A e \in Ends, r \in sealed' : r.key = SendKey(e)' => r \in sealed
    BY <2>1, <2>2 DEF KeyFor
  <2>4. SendKey("daemon")'.from.daemon = ephsMade + 1
    BY <2>1 DEF SendKey, KeyFor, TypeOK, Ends
  <2>5. \A r \in sealed : r.key.from.daemon # ephsMade + 1
    BY SMTT(30) DEF Known, Old, TypeOK, Keys, Transcripts
  <2>6. SendKey("client")' = SendKey("client")
        /\ stage'["client"] = stage["client"]
    BY <2>1 DEF SendKey, TypeOK, Ends
  <2> QED BY <2>1, <2>3, <2>4, <2>5, <2>6 DEF Counted, countVars, Ends
<1>10. CASE ClientHandshake
  <2> DEFINE response == Head(wire["client"])
  <2>1. /\ stage["client"] = "waiting"
        /\ hand' = [hand EXCEPT !["client"] = ClientTranscript(response)]
        /\ stage' = [stage EXCEPT !["client"] = "open"]
        /\ UNCHANGED <<countVars, sealed>>
    BY <1>10 DEF ClientHandshake, historyVars
  <2>2. SendKey("client")'.purpose = "daemon"
        /\ SendKey("client")'.from.client = eph["client"]
    BY <2>1 DEF SendKey, KeyFor, Peer, ClientTranscript, Transcript, TypeOK,
      Ends
  <2>3. \A r \in sealed : r.key # SendKey("client")'
    BY <2>1, <2>2 DEF Opening
  <2>4. SendKey("daemon")' = SendKey("daemon")
        /\ stage'["daemon"] = stage["daemon"]
    BY <2>1 DEF SendKey, TypeOK, Ends
  <2> QED BY <2>1, <2>3, <2>4 DEF Counted, countVars, Ends
<1> QED BY <1>1, <1>2, <1>3, <1>4, <1>5, <1>6, <1>7, <1>8, <1>9, <1>10, Kinds

LEMMA NonceStep ==
  ASSUME TypeOK, OnWire, Known, Counted, NonceOnce, ArmorNext
  PROVE  NonceOnce'
<1>1. CASE UNCHANGED sealed
  BY <1>1 DEF NonceOnce
<1>2. ASSUME NEW e \in Ends, NEW p \in Payloads, Send(e, p) \/ SendFails(e, p)
      PROVE  NonceOnce'
  <2> DEFINE r == [key |-> SendKey(e), count |-> sendCount[e], plain |-> p]
  <2>1. sealed' = sealed \cup {r} /\ stage[e] = "open" /\ ~sendFailed[e]
    BY <1>2, SendEffect
  <2>2. \A s \in sealed : s.key = r.key => s.count # r.count
    <3>1. sendCount[e] \in Nat /\ \A s \in sealed : s.count \in Nat
      BY ArmorAssumption DEF TypeOK
    <3> QED BY <2>1, <3>1 DEF Counted
  <2> HIDE DEF r
  <2> QED BY <2>1, <2>2 DEF NonceOnce
<1>3. CASE ServerHandshake
  <2>1. PICK h \in Transcripts :
          /\ h.daemon = ephsMade + 1
          /\ sealed' = sealed \cup
               {[key |-> KeyFor("confirmation", h), count |-> 0,
                 plain |-> "confirmation"]}
    BY <1>3, ServerTranscript
  <2> DEFINE r == [key |-> KeyFor("confirmation", h), count |-> 0,
                   plain |-> "confirmation"]
  <2>2. r.key.from.daemon = ephsMade + 1
    BY <2>1 DEF KeyFor
  <2>3. \A s \in sealed : s.key.from.daemon # ephsMade + 1
    BY SMTT(30) DEF Known, Old, TypeOK, Keys, Transcripts
  <2>4. sealed' = sealed \cup {r}
    BY <2>1
  <2> HIDE DEF r
  <2> QED BY <2>2, <2>3, <2>4 DEF NonceOnce
<1>4. Quiet \/ ReadPublicKey \/ Dial \/ ClientHandshake \/ Faulty =>
        UNCHANGED sealed
  BY DEF Quiet, ReadPublicKey, Dial, ClientHandshake, Faulty, historyVars
<1>5. \A e \in Ends :
        Closing(e) \/ SendExhausted(e) \/ Receive(e) \/ ReceiveFails(e) =>
          UNCHANGED sealed
  BY DEF Closing, SendExhausted, SendFrame, Receive, ReceiveFails, ReceiveFrame,
    historyVars
<1> QED BY <1>1, <1>2, <1>3, <1>4, <1>5, Kinds

\* Delivered in three parts: lengths, what frames say, whose frames they are.
Lengths ==
  \A e \in Ends : Len(sent[e]) = sendCount[e] /\ Len(got[e]) = recvCount[e]
Says(e, f) ==
  f.kind = "record" /\ hand[e].daemon # NoKey /\ f.key = SendKey(e) =>
    f.count < sendCount[e] /\ f.plain = sent[e][f.count + 1]
Whose ==
  hand["daemon"].daemon # NoKey =>
    \A f \in passed["daemon"] :
      f.kind = "record" /\ f.key = ReceiveKey("daemon") =>
        hand["client"] = hand["daemon"]

LEMMA DeliveredParts ==
  Delivered <=>
    Lengths /\ (\A e \in Ends : \A f \in passed[Peer(e)] : Says(e, f)) /\ Whose
BY DEF Delivered, Lengths, Says, Whose

LEMMA LengthsStep ==
  ASSUME TypeOK, OnWire, Lengths, ArmorNext
  PROVE  Lengths'
<1>1. CASE UNCHANGED <<sent, got, sendCount, recvCount>>
  BY <1>1 DEF Lengths
<1>2. CASE Dial
  BY <1>2 DEF Dial, Lengths
<1>3. ASSUME NEW e \in Ends, NEW p \in Payloads, Send(e, p)
      PROVE  Lengths'
  <2>1. sendCount'[e] = sendCount[e] + 1
    BY <1>3, CountSteps DEF Send, MaySeal, TypeOK
  <2>2. Len(sent'[e]) = Len(sent[e]) + 1
    BY <1>3, AppendProperties DEF Send, TypeOK
  <2>3. \A d \in Ends : d # e =>
          sendCount'[d] = sendCount[d] /\ sent'[d] = sent[d]
    BY <1>3 DEF Send, TypeOK
  <2>4. UNCHANGED <<got, recvCount>>
    BY <1>3 DEF Send, SendFrame
  <2> QED BY <2>1, <2>2, <2>3, <2>4 DEF Lengths
<1>4. ASSUME NEW e \in Ends, Receive(e)
      PROVE  Lengths'
  <2>1. Head(wire[e]).plain \in Payloads
    BY <1>4, TypeParts, HeadFrame, FrameParts DEF Receive, Opens
  <2>2. Len(got'[e]) = Len(got[e]) + 1 /\ recvCount'[e] = recvCount[e] + 1
    BY <1>4, <2>1, AppendProperties DEF Receive, TypeOK
  <2>3. \A d \in Ends : d # e =>
          recvCount'[d] = recvCount[d] /\ got'[d] = got[d]
    BY <1>4 DEF Receive, TypeOK
  <2>4. UNCHANGED <<sent, sendCount>>
    BY <1>4 DEF Receive, ReceiveFrame
  <2> QED BY <2>2, <2>3, <2>4 DEF Lengths
<1>5. Quiet \/ ReadPublicKey \/ ServerHandshake \/ ClientHandshake \/ Faulty =>
        UNCHANGED <<sent, got, sendCount, recvCount>>
  BY DEF Quiet, ReadPublicKey, ServerHandshake, ClientHandshake, Faulty,
    historyVars, countVars
<1>6. \A e \in Ends, p \in Payloads :
        SendFails(e, p) => UNCHANGED <<sent, got, sendCount, recvCount>>
  BY DEF SendFails, SendFrame
<1>7. \A e \in Ends :
        Closing(e) \/ SendExhausted(e) \/ ReceiveFails(e) =>
          UNCHANGED <<sent, got, sendCount, recvCount>>
  BY DEF Closing, SendExhausted, SendFrame, ReceiveFails, ReceiveFrame,
    historyVars, countVars
<1> QED BY <1>1, <1>2, <1>3, <1>4, <1>5, <1>6, <1>7, Kinds

LEMMA WhoseStep ==
  ASSUME TypeOK, OnWire, Known, Opening, KeysAgree, Whose, ArmorNext
  PROVE  Whose'
<1> USE DEF NoKey
<1>1. CASE Quiet \/ ReadPublicKey
  BY <1>1 DEF Quiet, ReadPublicKey, Whose, ReceiveKey, handVars, wireVars
<1>2. CASE Faulty
  <2>1. \A f \in passed'["daemon"] :
          f.kind = "record" => f \in passed["daemon"]
    BY <1>2 DEF Faulty, Altered, Ends
  <2> QED BY <1>2, <2>1 DEF Faulty, Whose, ReceiveKey, handVars
<1>3. CASE Dial
  BY <1>3 DEF Dial, Whose, NoHand, Transcript, Ends
<1>4. ASSUME NEW e \in Ends,
             \/ Closing(e) \/ SendExhausted(e) \/ Receive(e) \/ ReceiveFails(e)
      PROVE  Whose'
  BY <1>4 DEF Closing, SendExhausted, SendFrame, Receive, ReceiveFails,
    ReceiveFrame, Whose, ReceiveKey, handVars
<1>5. ASSUME NEW e \in Ends, NEW p \in Payloads, Send(e, p) \/ SendFails(e, p)
      PROVE  Whose'
  <2>1. UNCHANGED hand /\ stage[e] = "open"
    BY <1>5, SendEffect DEF handVars
  <2>2. \A f \in passed'["daemon"] : f \in passed["daemon"] \/ e = "client"
    BY <1>5, SendEffect DEF Peer, Ends
  <2>3. e = "client" => hand["client"] = hand["daemon"]
    BY <2>1 DEF KeysAgree
  <2> QED BY <2>1, <2>2, <2>3 DEF Whose, ReceiveKey
<1>6. CASE ServerHandshake
  <2>1. PICK h \in Transcripts :
          LET response == ResponseFrame(ephsMade + 1, static, h)
          IN  /\ h.daemon = ephsMade + 1
              /\ hand' = [hand EXCEPT !["daemon"] = h]
              /\ passed' \in {passed, [passed EXCEPT
                                         !["client"] = @ \cup {response}]}
    BY <1>6, ServerTranscript
  <2>2. passed'["daemon"] = passed["daemon"]
    BY <2>1 DEF TypeOK, Ends
  <2>3. ReceiveKey("daemon")'.from.daemon = ephsMade + 1
    BY <2>1 DEF ReceiveKey, KeyFor, TypeOK, Ends
  <2>4. ASSUME NEW f \in passed["daemon"], f.kind = "record"
        PROVE  f.key.from.daemon # ephsMade + 1
    <3>1. Old(f.key.from, ephsMade)
      BY <2>4 DEF Known, OldFrame, Ends
    <3>2. f.key.from \in Transcripts
      BY <2>4, FrameParts DEF TypeOK, Keys, Ends
    <3> QED BY <3>1, <3>2, SMTT(30) DEF Old, Transcripts, TypeOK
  <2> QED BY <2>2, <2>3, <2>4 DEF Whose
<1>7. CASE ClientHandshake
  <2>1. /\ hand'["daemon"] = hand["daemon"] /\ UNCHANGED passed
        /\ stage["client"] = "waiting"
    BY <1>7 DEF ClientHandshake, TypeOK, Ends
  <2>2. hand["client"].daemon = 0
    BY <2>1 DEF Opening, NoHand, Transcript
  <2> QED BY <2>1, <2>2 DEF Whose, ReceiveKey
<1> QED BY <1>1, <1>2, <1>3, <1>4, <1>5, <1>6, <1>7, Kinds

LEMMA SaysStep ==
  ASSUME TypeOK, OnWire, Known, Opening, Lengths, ArmorNext,
         \A e \in Ends : \A f \in passed[Peer(e)] : Says(e, f)
  PROVE  \A e \in Ends : \A f \in passed'[Peer(e)] : Says(e, f)'
<1> USE DEF NoKey
<1>1. CASE Quiet \/ ReadPublicKey
  BY <1>1 DEF Quiet, ReadPublicKey, Says, SendKey, handVars, wireVars,
    historyVars, countVars
<1>2. CASE Faulty
  <2>1. \A d \in Ends : \A f \in passed'[d] :
          f.kind = "record" => f \in passed[d]
    BY <1>2 DEF Faulty, Altered
  <2> QED BY <1>2, <2>1, PeerProperties DEF Faulty, Says, SendKey, handVars,
    historyVars, countVars
<1>3. CASE Dial
  BY <1>3 DEF Dial, Says, NoHand, Transcript
<1>4. ASSUME NEW e \in Ends,
             \/ Closing(e) \/ SendExhausted(e) \/ Receive(e) \/ ReceiveFails(e)
      PROVE  \A d \in Ends : \A f \in passed'[Peer(d)] : Says(d, f)'
  BY <1>4 DEF Closing, SendExhausted, SendFrame, Receive, ReceiveFails,
    ReceiveFrame, Says, SendKey, handVars, countVars, historyVars
<1>5. ASSUME NEW e \in Ends, NEW p \in Payloads, Send(e, p)
      PROVE  \A d \in Ends : \A f \in passed'[Peer(d)] : Says(d, f)'
  <2>1. UNCHANGED hand
    BY <1>5, SendEffect DEF handVars
  <2>2. /\ sendCount'[e] = sendCount[e] + 1
        /\ sent' = [sent EXCEPT ![e] = Append(@, p)]
    BY <1>5, CountSteps DEF Send, MaySeal, TypeOK
  <2>3. \A d \in Ends : d # e =>
          /\ sendCount'[d] = sendCount[d] /\ sent'[d] = sent[d]
          /\ \A f \in passed'[Peer(d)] : f \in passed[Peer(d)]
    <3>1. \A d \in Ends : d # e => sendCount'[d] = sendCount[d]
      BY <1>5 DEF Send, TypeOK
    <3>2. \A d \in Ends : d # e => sent'[d] = sent[d]
      BY <2>2 DEF TypeOK
    <3>3. \A d \in Ends : d # e =>
            \A f \in passed'[Peer(d)] : f \in passed[Peer(d)]
      BY <1>5, SendEffect, PeerProperties
    <3> QED BY <3>1, <3>2, <3>3
  <2>4. ASSUME NEW d \in Ends, NEW f \in passed'[Peer(d)], d # e
        PROVE  Says(d, f)'
    BY <2>1, <2>3, <2>4 DEF Says, SendKey
  <2>5. ASSUME NEW f \in passed'[Peer(e)]
        PROVE  Says(e, f)'
    <3>1. /\ sent[e] \in Seq(Payloads) /\ Len(sent[e]) = sendCount[e]
          /\ sendCount[e] \in Nat
          /\ sent'[e] = Append(sent[e], p)
      BY <2>2, ArmorAssumption DEF TypeOK, Lengths
    <3>2. CASE f = RecordFrame(SendKey(e), sendCount[e], p)
      <4>1. f.count = sendCount[e] /\ f.plain = p
        BY <3>2 DEF RecordFrame
      <4>2. sent'[e][f.count + 1] = p
        BY <3>1, <4>1, AppendProperties
      <4> QED BY <2>2, <3>1, <4>1, <4>2 DEF Says
    <3>3. CASE f \in passed[Peer(e)]
      <4>1. f \in Frames /\ Says(e, f)
        BY <3>3, PeerProperties DEF TypeOK
      <4>2. ASSUME f.kind = "record", f.count < sendCount[e]
            PROVE  f.count < sendCount'[e]
                   /\ sent'[e][f.count + 1] = sent[e][f.count + 1]
        <5>1. f.count \in Nat
          BY <4>1, <4>2, FrameParts
        <5>2. f.count + 1 \in 1..Len(sent[e])
          BY <3>1, <4>2, <5>1
        <5> QED BY <2>2, <3>1, <4>2, <5>1, <5>2, AppendProperties
      <4> QED BY <2>1, <4>1, <4>2 DEF Says, SendKey
    <3> QED BY <1>5, <2>5, <3>2, <3>3, SendEffect, PeerProperties
  <2> QED BY <2>4, <2>5
<1>6. ASSUME NEW e \in Ends, NEW p \in Payloads, SendFails(e, p)
      PROVE  \A d \in Ends : \A f \in passed'[Peer(d)] : Says(d, f)'
  BY <1>6 DEF SendFails, SendFrame, Says, SendKey, handVars
<1>7. ephsMade \in Nat
  BY DEF TypeOK
<1>8. CASE ServerHandshake
  <2>1. PICK h \in Transcripts :
          LET response == ResponseFrame(ephsMade + 1, static, h)
          IN  /\ h.daemon = ephsMade + 1
              /\ hand' = [hand EXCEPT !["daemon"] = h]
              /\ passed' \in {passed, [passed EXCEPT
                                         !["client"] = @ \cup {response}]}
              /\ UNCHANGED <<countVars, sent>>
    BY <1>8, ServerTranscript
  <2>2. \A d \in Ends : \A f \in passed'[d] :
          f.kind = "record" => f \in passed[d]
    <3> DEFINE response == ResponseFrame(ephsMade + 1, static, h)
    <3>1. response.kind = "response"
      BY DEF ResponseFrame
    <3>2. \A d \in Ends : \A f \in passed'[d] : f \in passed[d] \/ f = response
      BY <2>1, OnePasses DEF Ends
    <3> HIDE DEF response
    <3> QED BY <3>1, <3>2
  <2>3. /\ SendKey("daemon")'.from.daemon = ephsMade + 1
        /\ SendKey("client")' = SendKey("client")
        /\ hand'["client"] = hand["client"]
    BY <2>1 DEF SendKey, KeyFor, TypeOK, Ends
  <2>4. ASSUME NEW d \in Ends, NEW f \in passed[d], f.kind = "record"
        PROVE  f.key.from.daemon # ephsMade + 1
    <3>1. Old(f.key.from, ephsMade)
      BY <2>4 DEF Known, OldFrame
    <3>2. f.key.from \in Transcripts
      BY <2>4, FrameParts DEF TypeOK, Keys
    <3> QED BY <1>7, <3>1, <3>2 DEF Old, Transcripts
  <2>5. \A f \in passed'[Peer("daemon")] : Says("daemon", f)'
    BY <2>2, <2>3, <2>4, PeerProperties DEF Says, Ends
  <2>6. \A f \in passed'[Peer("client")] : Says("client", f)'
    BY <2>1, <2>2, <2>3, PeerProperties DEF Says, countVars, Ends
  <2> QED BY <2>5, <2>6 DEF Ends
<1>9. CASE ClientHandshake
  <2> DEFINE response == Head(wire["client"])
  <2>1. /\ stage["client"] = "waiting"
        /\ hand' = [hand EXCEPT !["client"] = ClientTranscript(response)]
        /\ UNCHANGED <<countVars, passed, sent>>
    BY <1>9 DEF ClientHandshake, historyVars
  <2>2. /\ SendKey("client")'.purpose = "daemon"
        /\ SendKey("client")'.from.client = eph["client"]
    BY <2>1 DEF SendKey, KeyFor, Peer, ClientTranscript, Transcript, TypeOK,
      Ends
  <2>3. \A f \in passed["daemon"] :
          f.kind = "record" => f.key # SendKey("client")'
    BY <2>1, <2>2 DEF Opening
  <2>4. /\ SendKey("daemon")' = SendKey("daemon")
        /\ hand'["daemon"] = hand["daemon"]
    BY <2>1 DEF SendKey, TypeOK, Ends
  <2>5. \A f \in passed'[Peer("client")] : Says("client", f)'
    BY <2>1, <2>3 DEF Says, Peer
  <2>6. \A f \in passed'[Peer("daemon")] : Says("daemon", f)'
    BY <2>1, <2>4 DEF Says, countVars, Ends
  <2> QED BY <2>5, <2>6 DEF Ends
<1> QED BY <1>1, <1>2, <1>3, <1>4, <1>5, <1>6, <1>8, <1>9, Kinds

LEMMA NextIInv == IInv /\ [ArmorNext]_vars => IInv'
<1>1. ASSUME IInv, ArmorNext
      PROVE  IInv'
  <2> USE <1>1 DEF IInv
  <2>1. TypeOK' /\ OnWire'
    BY TypeStep
  <2>2. Known' /\ Opening' /\ Responses' /\ Counted' /\ NonceOnce'
    BY KnownStep, OpeningStep, ResponsesStep, CountedStep, NonceStep
  <2>3. KeysAgree'
    BY KeysAgreeStep
  <2>4. Lengths /\ Whose /\ \A e \in Ends : \A f \in passed[Peer(e)] : Says(e, f)
    BY DeliveredParts
  <2>5. Lengths' /\ Whose'
    BY <2>4, LengthsStep, WhoseStep
  <2>6. \A e \in Ends : \A f \in passed'[Peer(e)] : Says(e, f)'
    BY <2>4, SaysStep
  <2>7. Delivered'
    BY <2>5, <2>6 DEF Delivered, Lengths, Says, Whose
  <2> QED BY <2>1, <2>2, <2>3, <2>7
<1>2. ASSUME IInv, UNCHANGED vars
      PROVE  IInv'
  BY <1>2 DEF IInv, vars, diskVars, daemonVars, handVars, countVars, wireVars,
    historyVars, TypeOK, OnWire, Known, Opening, Connected, Counted, SendKey,
    Responses, Delivered, ReceiveKey, NonceOnce, KeysAgree
<1> QED BY <1>1, <1>2

THEOREM Invariance == ArmorSpec => []IInv
<1> QED BY InitIInv, NextIInv, PTL DEF ArmorSpec

(* The state of both ends, the wire and the files is always well formed,   *)
(* and no count leaves the counter of channel.go.                          *)
THEOREM TypeCorrect == ArmorSpec => []TypeOK
<1>1. IInv => TypeOK
  BY DEF IInv
<1> QED BY <1>1, Invariance, PTL

(* Whatever is lost, damaged or repeated, however often the daemon         *)
(* restarts and however large the counter, one key and nonce never seal    *)
(* two plaintexts.                                                         *)
THEOREM NoncesAreFresh == ArmorSpec => []NonceOnce
<1>1. IInv => NonceOnce
  BY DEF IInv
<1> QED BY <1>1, Invariance, PTL

(* A client that has a Channel shares its keys with the daemon end of the  *)
(* same connection, the holder of the static key it read.                  *)
THEOREM PeerIsGenuine == ArmorSpec => []KeysAgree
<1>1. IInv => KeysAgree
  BY DEF IInv
<1> QED BY <1>1, Invariance, PTL
-----------------------------------------------------------------------------
(* Steps: faults are final, and each step is a step of RecordStream.       *)

LEMMA FaultStep ==
  ASSUME IInv, ArmorNext, connections' = connections, NEW e \in Ends
  PROVE  /\ recvFailed[e] => recvFailed'[e] /\ got'[e] = got[e]
         /\ sendFailed[e] =>
              /\ sendFailed'[e] /\ sent'[e] = sent[e]
              /\ \A r \in sealed' \ sealed : r.key # SendKey(e)
<1> USE DEF IInv
<1>1. connections \in Nat
  BY DEF TypeOK
<1>2. ~Dial
  BY <1>1 DEF Dial
<1>3. CASE ServerHandshake
  BY <1>3 DEF ServerHandshake, countVars, SendKey, KeyFor, Peer
<1>4. CASE Quiet \/ ReadPublicKey \/ ClientHandshake \/ Faulty
  BY <1>4 DEF Quiet, ReadPublicKey, ClientHandshake, Faulty, countVars,
    historyVars
<1>5. ASSUME NEW d \in Ends, Closing(d)
      PROVE  UNCHANGED <<countVars, historyVars>>
  BY <1>5 DEF Closing
<1>6. ASSUME NEW d \in Ends, SendExhausted(d)
      PROVE  /\ sendFailed'[e] = sendFailed[e] \/ sendFailed'[e] = TRUE
             /\ UNCHANGED <<recvFailed, historyVars>>
  BY <1>6 DEF SendExhausted, SendFrame, historyVars, TypeOK
<1>7. ASSUME NEW d \in Ends, Receive(d) \/ ReceiveFails(d)
      PROVE  /\ UNCHANGED <<sealed, sent, sendFailed>>
             /\ recvFailed[e] => recvFailed'[e] /\ got'[e] = got[e]
  BY <1>7 DEF Receive, MayReceive, ReceiveFails, ReceiveFrame, TypeOK
<1>8. ASSUME NEW d \in Ends, NEW p \in Payloads, Send(d, p) \/ SendFails(d, p)
      PROVE  /\ UNCHANGED <<recvFailed, got>>
             /\ sendFailed[e] =>
                  /\ sendFailed'[e] /\ sent'[e] = sent[e]
                  /\ \A r \in sealed' \ sealed : r.key # SendKey(e)
  <2>1. UNCHANGED <<recvFailed, got>>
    BY <1>8 DEF Send, SendFails, SendFrame
  <2>2. sendFailed[e] => d # e
    BY <1>8, SendEffect
  <2>3. d # e => SendKey(d) # SendKey(e)
    BY DEF SendKey, KeyFor, Peer, Ends
  <2>4. \A r \in sealed' \ sealed : r.key = SendKey(d)
    BY <1>8, SendEffect
  <2>5. d # e => sendFailed'[e] = sendFailed[e] /\ sent'[e] = sent[e]
    BY <1>8 DEF Send, SendFails, TypeOK
  <2> QED BY <2>1, <2>2, <2>3, <2>4, <2>5
<1>9. sendFailed[e] \in BOOLEAN
  BY DEF TypeOK
<1>10. CASE UNCHANGED <<countVars, historyVars>>
  BY <1>10 DEF countVars, historyVars
<1>11. CASE \E d \in Ends : SendExhausted(d)
  BY <1>6, <1>9, <1>11 DEF historyVars
<1> QED
  BY <1>2, <1>3, <1>4, <1>5, <1>7, <1>8, <1>10, <1>11, Kinds

(* A direction that has failed encrypts and delivers nothing more on this  *)
(* connection.                                                             *)
THEOREM FaultsAreFinal == ArmorSpec => FaultIsFinal
<1> DEFINE Final == connections' = connections =>
             \A e \in Ends :
               /\ recvFailed[e] => recvFailed'[e] /\ got'[e] = got[e]
               /\ sendFailed[e] =>
                    /\ sendFailed'[e] /\ sent'[e] = sent[e]
                    /\ \A r \in sealed' \ sealed : r.key # SendKey(e)
<1>1. IInv /\ [ArmorNext]_vars => [Final]_vars
  BY FaultStep
<1> QED BY <1>1, Invariance, PTL DEF ArmorSpec, FaultIsFinal

LEMMA StreamStep ==
  ASSUME IInv, ArmorNext
  PROVE  [Stream!StreamNext]_<<sent, got>>
<1> USE DEF IInv
<1>1. Ends = Stream!Ends /\ \A e : Peer(e) = Stream!Peer(e)
  BY DEF Ends, Stream!Ends, Peer, Stream!Peer
<1>2. CASE Dial
  BY <1>1, <1>2 DEF Dial, Stream!StreamNext, Stream!Reconnect
<1>3. ASSUME NEW e \in Ends, NEW p \in Payloads, Send(e, p)
      PROVE  Stream!StreamNext
  BY <1>1, <1>3 DEF Send, SendFrame, Stream!StreamNext, Stream!StreamSend
<1>4. ASSUME NEW e \in Ends, Receive(e)
      PROVE  Stream!StreamNext
  <2> DEFINE f == Head(wire[e])
  <2>1. /\ f \in passed[e] \cup {Garbage}
        /\ f.kind = "record" /\ f.key = ReceiveKey(e)
        /\ f.count = recvCount[e] /\ stage[e] = "open"
        /\ got' = [got EXCEPT ![e] = Append(@, f.plain)]
        /\ UNCHANGED sent
    BY <1>4, HeadPassed DEF Receive, ReceiveFrame, Opens
  <2>2. f \in passed[e]
    BY <2>1 DEF Garbage
  <2>3. hand[e].daemon # NoKey
    BY <2>1 DEF Opening
  <2>4. hand[Peer(e)] = hand[e]
    <3>1. CASE e = "client"
      BY <2>1, <3>1 DEF KeysAgree, Peer
    <3>2. CASE e = "daemon"
      BY <2>1, <2>2, <2>3, <3>2, DeliveredParts DEF Whose, Peer
    <3> QED BY <3>1, <3>2 DEF Ends
  <2>5. ReceiveKey(e) = SendKey(Peer(e))
    BY <2>4, PeerProperties DEF ReceiveKey, SendKey
  <2>6. Says(Peer(e), f)
    BY <2>2, PeerProperties, DeliveredParts
  <2>7. /\ f.count < sendCount[Peer(e)]
        /\ f.plain = sent[Peer(e)][f.count + 1]
    BY <2>1, <2>3, <2>4, <2>5, <2>6 DEF Says
  <2>8. Len(sent[Peer(e)]) = sendCount[Peer(e)] /\ Len(got[e]) = recvCount[e]
    BY PeerProperties, DeliveredParts DEF Lengths
  <2>9. /\ Len(got[e]) < Len(sent[Peer(e)])
        /\ f.plain = sent[Peer(e)][Len(got[e]) + 1]
    BY <2>1, <2>7, <2>8
  <2> QED BY <1>1, <2>1, <2>9 DEF Stream!StreamNext, Stream!StreamReceive
<1>5. Quiet \/ ReadPublicKey \/ ServerHandshake \/ ClientHandshake \/ Faulty =>
        UNCHANGED <<sent, got>>
  BY DEF Quiet, ReadPublicKey, ServerHandshake, ClientHandshake, Faulty,
    historyVars
<1>6. \A e \in Ends :
        Closing(e) \/ SendExhausted(e) \/ ReceiveFails(e) =>
          UNCHANGED <<sent, got>>
  BY DEF Closing, SendExhausted, SendFrame, ReceiveFails, ReceiveFrame,
    historyVars
<1>7. \A e \in Ends, p \in Payloads : SendFails(e, p) => UNCHANGED <<sent, got>>
  BY DEF SendFails, SendFrame
<1> QED BY <1>2, <1>3, <1>4, <1>5, <1>6, <1>7, Kinds

(* The channel implements the ordered stream: whatever the wire and the    *)
(* daemon's restarts do, what Receive returns is, in order, what the other *)
(* end's Send reported as sent on this connection.                         *)
THEOREM ChannelIsStream == ArmorSpec => OrderedStream
<1>1. ArmorInit => Stream!StreamInit
  BY DEF ArmorInit, Stream!StreamInit, Ends, Stream!Ends
<1>2. IInv /\ [ArmorNext]_vars => [Stream!StreamNext]_<<sent, got>>
  BY StreamStep DEF vars, historyVars
<1> QED BY <1>1, <1>2, Invariance, PTL
  DEF ArmorSpec, OrderedStream, Stream!StreamSpec
=============================================================================
