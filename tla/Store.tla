-------------------------------- MODULE Store --------------------------------
(***************************************************************************)
(* daemon/store.go: one goroutine owns the state, every caller submits a   *)
(* function over an unbuffered channel and waits on a result channel of    *)
(* its own, and Close stops the goroutine.                                 *)
(*                                                                         *)
(* A submitted function is modelled as a read of the state (Handoff) and a *)
(* later write of what it computed from that read (FnDone), so "never two  *)
(* at once" is something the goroutine has to ensure.  The state is the    *)
(* sequence of callers whose function has run; a function's result is the  *)
(* place its own update landed at.                                         *)
(***************************************************************************)
EXTENDS Naturals, Sequences, FiniteSets

CONSTANTS
  Callers,    \* goroutines that call Do
  Closers,    \* goroutines that call Close
  MaxCalls    \* bound on the calls each caller makes

ASSUME StoreAssumption ==
  /\ MaxCalls \in Nat
  /\ Callers \cap Closers = {}

VARIABLES
  state,      \* the value run() owns
  running,    \* callers whose function run() is executing
  copy,       \* copy[c]: the state as c's function read it
  writer,     \* run(): "select", or "stopped" once it has closed `stopped`
  stop,       \* the stop channel is closed
  pc,         \* pc[c]: "idle", "offer" (first select of Do), "wait" (second)
  result,     \* result[c]: content of the current call's resultCh, 0 = empty
  answer,     \* answer[c]: what Do last returned, 0 = ErrStoreClosed
  calls,      \* calls[c]: how many times c has called Do
  since,      \* since[c]: how many updates were in place when c's call began
  closer      \* closer[k]: "idle", "waiting" (on stopped) or "returned"

stateVars == <<state, running, copy>>
callVars == <<pc, result, answer, calls, since>>
closeVars == <<writer, stop, closer>>
vars == <<stateVars, callVars, closeVars>>

Init ==
  /\ state = <<>>
  /\ running = {}
  /\ copy = [c \in Callers |-> <<>>]
  /\ writer = "select"
  /\ stop = FALSE
  /\ pc = [c \in Callers |-> "idle"]
  /\ result = [c \in Callers |-> 0]
  /\ answer = [c \in Callers |-> 0]
  /\ calls = [c \in Callers |-> 0]
  /\ since = [c \in Callers |-> 0]
  /\ closer = [k \in Closers |-> "idle"]

-----------------------------------------------------------------------------
(* Do.                                                                     *)

\* What a call finds in its result channel: nothing, the channel is its own.
SharedResultChannel(left) == left
NewResultChannel(left) == 0

\* Do is entered and reaches its first select.
Call(c) ==
  /\ pc[c] = "idle"
  /\ calls[c] < MaxCalls
  /\ pc' = [pc EXCEPT ![c] = "offer"]
  /\ result' = [result EXCEPT ![c] = NewResultChannel(@)]
  /\ calls' = [calls EXCEPT ![c] = @ + 1]
  /\ since' = [since EXCEPT ![c] = Len(state)]
  /\ UNCHANGED <<stateVars, closeVars, answer>>

\* run() is at its select: it has returned from the last function it took.
AtSelectWhileRunning == writer = "select"
AtSelect == writer = "select" /\ running = {}

\* The send in Do meets the receive in run(): the channel is unbuffered, so
\* both move at once.  Both selects choose at random when stop is closed too.
Handoff(c) ==
  /\ pc[c] = "offer"
  /\ AtSelect
  /\ running' = running \cup {c}
  /\ copy' = [copy EXCEPT ![c] = state]
  /\ pc' = [pc EXCEPT ![c] = "wait"]
  /\ UNCHANGED <<state, result, answer, calls, since, closeVars>>

\* The function returns.  Its result goes to the channel of the call that
\* submitted it: if that call has given up, nobody will ever read it.
FnDone(c) ==
  /\ c \in running
  /\ running' = running \ {c}
  /\ state' = Append(copy[c], c)
  /\ copy' = [copy EXCEPT ![c] = <<>>]
  /\ result' = IF pc[c] = "wait"
               THEN [result EXCEPT ![c] = Len(copy[c]) + 1]
               ELSE result
  /\ UNCHANGED <<pc, answer, calls, since, closeVars>>

DoReturn(c, v) ==
  /\ pc' = [pc EXCEPT ![c] = "idle"]
  /\ answer' = [answer EXCEPT ![c] = v]
  /\ UNCHANGED <<stateVars, closeVars, result, calls, since>>

\* First select of Do, the stop case: the function is never run.
IgnoresStop == FALSE
SeesStop == stop
OfferClosed(c) == pc[c] = "offer" /\ SeesStop /\ DoReturn(c, 0)

\* Second select of Do: the result, or, once stop is closed, ErrStoreClosed
\* although the function may be running or its result may be waiting.
TakeResult(c) == pc[c] = "wait" /\ result[c] # 0 /\ DoReturn(c, result[c])
WaitClosed(c) == pc[c] = "wait" /\ stop /\ DoReturn(c, 0)

-----------------------------------------------------------------------------
(* run's other case, and Close.                                            *)

\* run() returns, which closes `stopped`.
AfterReturn == "stopped"

WriterStop ==
  /\ AtSelect
  /\ stop
  /\ writer' = AfterReturn
  /\ UNCHANGED <<stateVars, callVars, stop, closer>>

\* closeOnce: only the first call closes the channel, every call then waits.
\* Closing it again would panic.
ClosedEachTime == IF stop THEN "panicked" ELSE "waiting"
ClosedOnce == "waiting"
CloseCall(k) ==
  /\ closer[k] = "idle"
  /\ stop' = TRUE
  /\ closer' = [closer EXCEPT ![k] = ClosedOnce]
  /\ UNCHANGED <<stateVars, callVars, writer>>

\* What Close waits for; without the wait it would only have signalled.
Signalled == stop
Stopped == writer = "stopped"
CloseReturn(k) ==
  /\ closer[k] = "waiting"
  /\ Stopped
  /\ closer' = [closer EXCEPT ![k] = "returned"]
  /\ UNCHANGED <<stateVars, callVars, writer, stop>>

\* Nothing is left to do: every caller has made its MaxCalls calls.
Finished ==
  /\ \A c \in Callers : pc[c] = "idle" /\ calls[c] = MaxCalls
  /\ \A k \in Closers : closer[k] = "returned"
  /\ UNCHANGED vars

DoStep(c) ==
  \/ Call(c) \/ Handoff(c) \/ OfferClosed(c)
  \/ FnDone(c) \/ TakeResult(c) \/ WaitClosed(c)

Next ==
  \/ \E c \in Callers : DoStep(c)
  \/ WriterStop
  \/ \E k \in Closers : CloseCall(k) \/ CloseReturn(k)
  \/ Finished

Spec == Init /\ [][Next]_vars

(***************************************************************************)
(* Fairness.  A function returns (Do's comment: it "should not block for   *)
(* long"), and a goroutine whose select has a ready case is scheduled.     *)
(* Handoff is strong: Go queues the senders of a channel first in, first   *)
(* out, so an offer is not passed over for ever.  WriterStop is strong: a  *)
(* select with several ready cases draws among them uniformly.  Nothing    *)
(* makes a caller call Do or a closer call Close.                          *)
(***************************************************************************)
Fairness ==
  /\ \A c \in Callers :
       /\ SF_vars(Handoff(c))
       /\ WF_vars(FnDone(c))
       /\ WF_vars(OfferClosed(c))
       /\ WF_vars(TakeResult(c) \/ WaitClosed(c))
  /\ SF_vars(WriterStop)
  /\ \A k \in Closers : WF_vars(CloseReturn(k))

FairSpec == Spec /\ Fairness

-----------------------------------------------------------------------------
(* Properties.                                                             *)

TypeOK ==
  /\ state \in Seq(Callers)
  /\ running \in SUBSET Callers
  /\ copy \in [Callers -> Seq(Callers)]
  /\ writer \in {"select", "stopped"}
  /\ stop \in BOOLEAN
  /\ pc \in [Callers -> {"idle", "offer", "wait"}]
  /\ result \in [Callers -> Nat]
  /\ answer \in [Callers -> Nat]
  /\ calls \in [Callers -> 0..MaxCalls]
  /\ since \in [Callers -> Nat]
  /\ closer \in [Closers -> {"idle", "waiting", "returned"}]

\* "No Do call ever runs concurrently with fn, which is this type's whole
\* reason to exist" (store.go, Do).
OneAtATime == \A a, b \in running : a = b

\* A place was answered to the caller whose update stands at that place, and
\* the update stays: no later function overwrites it from a stale read.
AnsweredUpdateStands ==
  \A c \in Callers :
    answer[c] # 0 => answer[c] <= Len(state) /\ state[answer[c]] = c

\* The real-time half of linearizability: what a call is about to return is
\* an update made after that call began, never an earlier call's result.
ResultIsThisCalls ==
  \A c \in Callers :
    pc[c] = "wait" /\ result[c] # 0 => result[c] > since[c]

\* Once any Close has returned, no function is running and none will touch
\* the state again, whatever the callers still do.
FrozenAfterClose ==
  [][(\E k \in Closers : closer[k] = "returned")
       => state' = state /\ running' = {}]_vars

\* Every Do returns, whether or not Close runs under it, and every Close, from
\* however many goroutines it is called.
EveryCallReturns ==
  /\ \A c \in Callers : pc[c] # "idle" ~> pc[c] = "idle"
  /\ \A k \in Closers : closer[k] = "waiting" ~> closer[k] = "returned"

-----------------------------------------------------------------------------
(* Refinement.  A call takes effect at its handoff: from there on its      *)
(* update is certain and in place before any other.                        *)

\* The state with the running function's update in it.
LogView ==
  IF running = {} THEN state
  ELSE LET c == CHOOSE c \in running : TRUE IN Append(copy[c], c)

PhaseView ==
  [c \in Callers |->
     CASE pc[c] = "idle"  -> "idle"
       [] pc[c] = "offer" -> "pending"
       [] pc[c] = "wait"  -> "applied"]

PlaceView ==
  [c \in Callers |->
     IF pc[c] # "wait" THEN 0
     ELSE IF c \in running THEN Len(copy[c]) + 1
     ELSE result[c]]

Abs == INSTANCE StoreSpec WITH
         log     <- LogView,
         phase   <- PhaseView,
         place   <- PlaceView,
         answer  <- answer,
         closing <- stop,
         frozen  <- (writer = "stopped")

\* The goroutine, its channels and both racy selects implement one object
\* whose updates are atomic.
ImplementsStoreSpec == Abs!Spec
=============================================================================
