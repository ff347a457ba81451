-------------------------- MODULE SharedObjectProofs --------------------------
(***************************************************************************)
(* Proofs about the two objects of a process that several goroutines call  *)
(* into, for any number of callers and calls: the Store (its safety        *)
(* invariants, that nothing moves after Close, and that every step is a    *)
(* step of StoreSpec), then the delayed reboot of PendingReload.           *)
(***************************************************************************)
EXTENDS Store, PendingReload, TLAPS

\* n is a place of the state where an update of c stands.
PlaceOf(c, n) == n \in 1..Len(state) /\ state[n] = c

\* The running function read the state that is still there.
CopyFresh == \A c \in running : copy[c] = state

\* What the two channels being closed means for the goroutine and for Close.
ClosedOK ==
  /\ writer = "stopped" => stop /\ running = {}
  /\ \A k \in Closers :
       /\ closer[k] # "idle" => stop
       /\ closer[k] = "returned" => writer = "stopped"

\* What c's result channel holds, seen from where c's call is.
ChannelOK ==
  \A c \in Callers :
    /\ since[c] <= Len(state)
    /\ answer[c] # 0 => PlaceOf(c, answer[c])
    /\ pc[c] = "offer" => result[c] = 0
    /\ pc[c] = "wait" =>
         IF c \in running THEN result[c] = 0
         ELSE PlaceOf(c, result[c]) /\ result[c] > since[c]

IInv == TypeOK /\ OneAtATime /\ CopyFresh /\ ClosedOK /\ ChannelOK

-----------------------------------------------------------------------------
LEMMA InitIInv == Init => IInv
<1> SUFFICES ASSUME Init PROVE IInv
  OBVIOUS
<1>1. 0 \in 0..MaxCalls
  BY StoreAssumption DEF StoreAssumption
<1>2. TypeOK
  <2>1. state \in Seq(Callers) /\ copy \in [Callers -> Seq(Callers)]
    BY DEF Init
  <2>2. calls \in [Callers -> 0..MaxCalls]
    BY <1>1 DEF Init
  <2>3. QED
    BY <2>1, <2>2 DEF Init, TypeOK
<1>3. OneAtATime /\ CopyFresh /\ ClosedOK /\ ChannelOK
  BY DEF Init, OneAtATime, CopyFresh, ClosedOK, ChannelOK
<1>4. QED
  BY <1>2, <1>3 DEF IInv

\* Appending keeps every place where it is.
LEMMA AppendPlaces ==
  ASSUME NEW S, NEW s \in Seq(S), NEW x \in S
  PROVE  /\ Append(s, x) \in Seq(S)
         /\ Len(Append(s, x)) = Len(s) + 1
         /\ Append(s, x)[Len(s) + 1] = x
         /\ \A n \in 1..Len(s) : Append(s, x)[n] = s[n]
  OBVIOUS

LEMMA CallIInv ==
  ASSUME IInv, NEW c \in Callers, Call(c)
  PROVE  IInv'
<1> USE DEF IInv, Call, stateVars, closeVars, NewResultChannel
<1>1. Len(state) \in Nat /\ calls[c] + 1 \in 0..MaxCalls
  BY StoreAssumption DEF StoreAssumption, TypeOK
<1>2. TypeOK'
  BY <1>1 DEF TypeOK
<1>3. (OneAtATime /\ CopyFresh /\ ClosedOK)'
  BY DEF OneAtATime, CopyFresh, ClosedOK
<1>4. ChannelOK'
  BY <1>1 DEF ChannelOK, PlaceOf, TypeOK
<1>5. QED
  BY <1>2, <1>3, <1>4

LEMMA HandoffIInv ==
  ASSUME IInv, NEW c \in Callers, Handoff(c)
  PROVE  IInv'
<1> USE DEF IInv, Handoff, closeVars, AtSelect
<1>1. TypeOK'
  BY DEF TypeOK
<1>2. (OneAtATime /\ CopyFresh)'
  BY DEF OneAtATime, CopyFresh, TypeOK
<1>3. ClosedOK'
  BY DEF ClosedOK
<1>4. ChannelOK'
  BY DEF ChannelOK, PlaceOf, TypeOK
<1>5. QED
  BY <1>1, <1>2, <1>3, <1>4

LEMMA FnDoneIInv ==
  ASSUME IInv, NEW c \in Callers, FnDone(c)
  PROVE  IInv'
<1> USE DEF IInv, FnDone, closeVars
<1>1. /\ state \in Seq(Callers)
      /\ copy[c] = state
      /\ state' = Append(state, c)
      /\ running' = {}
  BY DEF TypeOK, CopyFresh, OneAtATime
<1>2. /\ state' \in Seq(Callers)
      /\ Len(state) \in Nat
      /\ Len(state') = Len(state) + 1
      /\ state'[Len(state) + 1] = c
      /\ \A n \in 1..Len(state) : state'[n] = state[n]
  BY <1>1, AppendPlaces
<1>3. TypeOK'
  BY <1>1, <1>2 DEF TypeOK
<1>4. (OneAtATime /\ CopyFresh)'
  BY <1>1 DEF OneAtATime, CopyFresh
<1>5. ClosedOK'
  BY <1>1 DEF ClosedOK
<1>6. ASSUME NEW d \in Callers, NEW n \in Nat, PlaceOf(d, n)
      PROVE  n \in 1..Len(state') /\ state'[n] = d
  BY <1>2, <1>6 DEF PlaceOf
<1>7. ChannelOK'
  <2> SUFFICES ASSUME NEW d \in Callers
               PROVE  /\ since'[d] <= Len(state')
                      /\ answer'[d] # 0 => PlaceOf(d, answer[d])'
                      /\ pc'[d] = "offer" => result'[d] = 0
                      /\ pc'[d] = "wait" =>
                           IF d \in running' THEN result'[d] = 0
                           ELSE PlaceOf(d, result[d])' /\ result'[d] > since'[d]
    BY DEF ChannelOK
  <2>1. /\ since[d] \in Nat /\ answer[d] \in Nat /\ result[d] \in Nat
        /\ since[d] <= Len(state)
        /\ since'[d] = since[d] /\ answer'[d] = answer[d] /\ pc'[d] = pc[d]
    BY DEF TypeOK, ChannelOK
  <2>2. since'[d] <= Len(state')
    BY <1>2, <2>1
  <2>3. answer'[d] # 0 => PlaceOf(d, answer[d])'
    BY <1>6, <2>1 DEF ChannelOK, PlaceOf
  <2>4. pc'[d] = "offer" => result'[d] = 0
    BY <2>1 DEF ChannelOK, TypeOK
  <2>5. pc'[d] = "wait" => PlaceOf(d, result[d])' /\ result'[d] > since'[d]
    <3>1. CASE d = c
      BY <1>1, <1>2, <2>1, <3>1 DEF PlaceOf, TypeOK
    <3>2. CASE d # c
      <4>1. result'[d] = result[d]
        BY <3>2 DEF TypeOK
      <4>2. d \notin running
        BY <3>2 DEF OneAtATime
      <4>3. QED
        BY <1>6, <2>1, <4>1, <4>2 DEF ChannelOK, PlaceOf
    <3>3. QED
      BY <3>1, <3>2
  <2>6. QED
    BY <1>1, <2>2, <2>3, <2>4, <2>5
<1>8. QED
  BY <1>3, <1>4, <1>5, <1>7

\* The three ways Do returns change only pc and answer.
LEMMA DoReturnIInv ==
  ASSUME IInv, NEW c \in Callers,
         NEW v \in Nat, v # 0 => PlaceOf(c, v), DoReturn(c, v)
  PROVE  IInv'
<1> USE DEF IInv, DoReturn, stateVars, closeVars
<1>1. TypeOK'
  BY DEF TypeOK
<1>2. (OneAtATime /\ CopyFresh /\ ClosedOK)'
  BY DEF OneAtATime, CopyFresh, ClosedOK
<1>3. ChannelOK'
  BY DEF ChannelOK, PlaceOf, TypeOK
<1>4. QED
  BY <1>1, <1>2, <1>3

LEMMA CloseStepIInv ==
  ASSUME IInv,
         WriterStop \/ \E k \in Closers : CloseCall(k) \/ CloseReturn(k)
  PROVE  IInv'
<1> USE DEF IInv, WriterStop, CloseCall, ClosedOnce, CloseReturn, stateVars,
            callVars,
            AtSelect, AfterReturn, Stopped
<1>1. TypeOK'
  BY DEF TypeOK
<1>2. (OneAtATime /\ CopyFresh)'
  BY DEF OneAtATime, CopyFresh
<1>3. ClosedOK'
  BY DEF ClosedOK, TypeOK
<1>4. ChannelOK'
  BY DEF ChannelOK, PlaceOf
<1>5. QED
  BY <1>1, <1>2, <1>3, <1>4

LEMMA NextIInv == IInv /\ [Next]_vars => IInv'
<1> SUFFICES ASSUME IInv, [Next]_vars PROVE IInv'
  OBVIOUS
<1>1. ASSUME NEW c \in Callers, DoStep(c) PROVE IInv'
  <2>1. CASE Call(c)
    BY <2>1, CallIInv
  <2>2. CASE Handoff(c)
    BY <2>2, HandoffIInv
  <2>3. CASE OfferClosed(c) \/ WaitClosed(c)
    BY <2>3, DoReturnIInv DEF OfferClosed, WaitClosed
  <2>4. CASE FnDone(c)
    BY <2>4, FnDoneIInv
  <2>5. CASE TakeResult(c)
    <3>1. result[c] \in Nat /\ PlaceOf(c, result[c]) /\ DoReturn(c, result[c])
      BY <2>5 DEF TakeResult, IInv, ChannelOK, TypeOK
    <3>2. QED
      BY <3>1, DoReturnIInv
  <2>6. QED
    BY <1>1, <2>1, <2>2, <2>3, <2>4, <2>5 DEF DoStep
<1>2. CASE WriterStop \/ \E k \in Closers : CloseCall(k) \/ CloseReturn(k)
  BY <1>2, CloseStepIInv
<1>3. CASE Finished \/ UNCHANGED vars
  BY <1>3 DEF Finished, vars, stateVars, callVars, closeVars, IInv, TypeOK,
              OneAtATime, CopyFresh, ClosedOK, ChannelOK, PlaceOf
<1>4. QED
  BY <1>1, <1>2, <1>3 DEF Next

\* The strengthened invariant holds in every reachable state.
THEOREM Invariance == Spec => []IInv
  BY InitIInv, NextIInv, PTL DEF Spec

-----------------------------------------------------------------------------
\* Every variable of the store keeps its type.
THEOREM TypeCorrect == Spec => []TypeOK
<1>1. IInv => TypeOK
  BY DEF IInv
<1>2. QED
  BY <1>1, Invariance, PTL

\* The goroutine never has two functions running (store.go, Do).
THEOREM Exclusion == Spec => []OneAtATime
<1>1. IInv => OneAtATime
  BY DEF IInv
<1>2. QED
  BY <1>1, Invariance, PTL

\* No update that a caller was told of is ever lost or overwritten.
THEOREM NoUpdateLost == Spec => []AnsweredUpdateStands
<1>1. IInv => AnsweredUpdateStands
  BY DEF IInv, ChannelOK, PlaceOf, AnsweredUpdateStands
<1>2. QED
  BY <1>1, Invariance, PTL

\* No Do is handed the result of an earlier call.
THEOREM FreshResult == Spec => []ResultIsThisCalls
<1>1. IInv => ResultIsThisCalls
  BY DEF IInv, ChannelOK, ResultIsThisCalls, TypeOK
<1>2. QED
  BY <1>1, Invariance, PTL

\* Once some Close has returned, the state is final: no step moves it.
THEOREM Frozen == Spec => FrozenAfterClose
<1>1. IInv /\ [Next]_vars =>
        [(\E k \in Closers : closer[k] = "returned")
           => state' = state /\ running' = {}]_vars
  <2> SUFFICES ASSUME IInv, Next, NEW k \in Closers, closer[k] = "returned"
               PROVE  state' = state /\ running' = {}
    OBVIOUS
  <2>1. writer = "stopped" /\ running = {}
    BY DEF IInv, ClosedOK
  <2>2. ASSUME NEW c \in Callers, DoStep(c)
        PROVE  state' = state /\ running' = {}
    BY <2>1, <2>2 DEF DoStep, Call, Handoff, AtSelect, FnDone, OfferClosed,
                      TakeResult, WaitClosed, DoReturn, stateVars
  <2>3. ASSUME ~ \E c \in Callers : DoStep(c)
        PROVE  state' = state /\ running' = {}
    BY <2>1, <2>3 DEF Next, WriterStop, CloseCall, ClosedOnce, CloseReturn,
                      Finished,
                      vars, stateVars
  <2>4. QED
    BY <2>2, <2>3
<1>2. QED
  BY <1>1, Invariance, PTL DEF Spec, FrozenAfterClose

-----------------------------------------------------------------------------
(* The refinement.  LogView is the only part of the mapping that is not a  *)
(* pointwise copy of a variable, and only a handoff changes it.            *)

LEMMA OneRunning ==
  ASSUME NEW c PROVE (CHOOSE x \in {c} : TRUE) = c
  OBVIOUS

LEMMA LogViewIdle == running = {} => LogView = state
  BY DEF LogView

LEMMA LogViewRunning ==
  ASSUME NEW c, running = {c} PROVE LogView = Append(copy[c], c)
  BY OneRunning DEF LogView

LEMMA InitRefines == Init => Abs!Init
  BY DEF Init, Abs!Init, LogView, PhaseView, PlaceView

LEMMA CallRefines ==
  ASSUME IInv, NEW c \in Callers, Call(c)
  PROVE  Abs!Invoke(c)
<1>1. PhaseView[c] = "idle"
  BY DEF Call, PhaseView
<1>2. PhaseView' = [PhaseView EXCEPT ![c] = "pending"]
  BY DEF IInv, TypeOK, Call, PhaseView
<1>3. PlaceView' = PlaceView
  BY DEF IInv, TypeOK, Call, PlaceView, stateVars
<1>4. LogView' = LogView
  BY DEF Call, LogView, stateVars
<1>5. QED
  BY <1>1, <1>2, <1>3, <1>4 DEF Abs!Invoke, Call, closeVars

LEMMA HandoffRefines ==
  ASSUME IInv, NEW c \in Callers, Handoff(c)
  PROVE  Abs!Apply(c)
<1>1. running = {} /\ running' = {c} /\ LogView = state
  BY LogViewIdle DEF Handoff, AtSelect
<1>2. copy'[c] = state /\ \A d \in Callers \ {c} : copy'[d] = copy[d]
  BY DEF IInv, TypeOK, Handoff
<1>3. LogView' = Append(LogView, c)
  <2>1. LogView' = Append(copy'[c], c)
    BY <1>1, OneRunning DEF LogView
  <2>2. QED
    BY <1>1, <1>2, <2>1
<1>4. PhaseView[c] = "pending"
  BY DEF Handoff, PhaseView
<1>5. PhaseView' = [PhaseView EXCEPT ![c] = "applied"]
  BY DEF IInv, TypeOK, Handoff, PhaseView
<1>6. PlaceView' = [PlaceView EXCEPT ![c] = Len(LogView) + 1]
  BY <1>1, <1>2 DEF IInv, TypeOK, Handoff, PlaceView
<1>7. QED
  BY <1>3, <1>4, <1>5, <1>6 DEF Abs!Apply, Handoff, AtSelect, closeVars

\* The function's return is invisible: its update was already in the log.
LEMMA FnDoneRefines ==
  ASSUME IInv, NEW c \in Callers, FnDone(c)
  PROVE  UNCHANGED Abs!absVars
<1>1. running = {c} /\ running' = {}
  BY DEF IInv, OneAtATime, FnDone
<1>2. LogView' = LogView
  <2>1. LogView = Append(copy[c], c)
    BY <1>1, LogViewRunning
  <2>2. LogView' = state'
    BY <1>1 DEF LogView
  <2>3. QED
    BY <2>1, <2>2 DEF FnDone
<1>3. PhaseView' = PhaseView
  BY DEF FnDone, PhaseView
<1>4. PlaceView' = PlaceView
  <2> SUFFICES ASSUME NEW d \in Callers
               PROVE  PlaceView'[d] = PlaceView[d]
    BY DEF PlaceView
  <2>1. CASE d = c
    BY <1>1, <2>1 DEF IInv, TypeOK, FnDone, PlaceView
  <2>2. CASE d # c
    BY <1>1, <2>2 DEF IInv, TypeOK, FnDone, PlaceView
  <2>3. QED
    BY <2>1, <2>2
<1>5. QED
  BY <1>2, <1>3, <1>4 DEF Abs!absVars, FnDone, closeVars

\* What a return of Do does to the mapped variables.
LEMMA DoReturnRefines ==
  ASSUME IInv, NEW c \in Callers, NEW v, DoReturn(c, v)
  PROVE  /\ PhaseView' = [PhaseView EXCEPT ![c] = "idle"]
         /\ PlaceView' = [PlaceView EXCEPT ![c] = 0]
         /\ LogView' = LogView
         /\ UNCHANGED closeVars
<1>1. PhaseView' = [PhaseView EXCEPT ![c] = "idle"]
  BY DEF IInv, TypeOK, DoReturn, PhaseView
<1>2. PlaceView' = [PlaceView EXCEPT ![c] = 0]
  BY DEF IInv, TypeOK, DoReturn, PlaceView, stateVars
<1>3. QED
  BY <1>1, <1>2 DEF DoReturn, LogView, stateVars

LEMMA DoStepRefines ==
  ASSUME IInv, NEW c \in Callers, DoStep(c)
  PROVE  [Abs!Next]_Abs!absVars
<1>1. CASE Call(c)
  BY <1>1, CallRefines DEF Abs!Next
<1>2. CASE Handoff(c)
  BY <1>2, HandoffRefines DEF Abs!Next
<1>3. CASE FnDone(c)
  BY <1>3, FnDoneRefines
<1>4. CASE OfferClosed(c) \/ WaitClosed(c)
  <2>1. stop /\ PhaseView[c] # "idle" /\ DoReturn(c, 0)
    BY <1>4 DEF OfferClosed, WaitClosed, SeesStop, PhaseView
  <2>2. Abs!AnswerClosed(c)
    BY <2>1, DoReturnRefines DEF Abs!AnswerClosed, DoReturn, closeVars
  <2>3. QED
    BY <2>2 DEF Abs!Next
<1>5. CASE TakeResult(c)
  <2>1. DoReturn(c, result[c]) /\ PhaseView[c] = "applied"
    BY <1>5 DEF TakeResult, PhaseView
  <2>2. PlaceView[c] = result[c]
    BY <1>5 DEF IInv, ChannelOK, TakeResult, PlaceView
  <2>3. Abs!Answer(c)
    BY <2>1, <2>2, DoReturnRefines DEF Abs!Answer, DoReturn, closeVars
  <2>4. QED
    BY <2>3 DEF Abs!Next
<1>6. QED
  BY <1>1, <1>2, <1>3, <1>4, <1>5 DEF DoStep

LEMMA CloseStepRefines ==
  ASSUME WriterStop \/ \E k \in Closers : CloseCall(k) \/ CloseReturn(k)
  PROVE  [Abs!Next]_Abs!absVars
<1> USE DEF LogView, PhaseView, PlaceView, stateVars, callVars
<1>1. CASE WriterStop
  BY <1>1 DEF WriterStop, AfterReturn, Abs!Next, Abs!Freeze
<1>2. CASE \E k \in Closers : CloseCall(k)
  BY <1>2 DEF CloseCall, ClosedOnce, Abs!Next, Abs!BeginClose
<1>3. CASE \E k \in Closers : CloseReturn(k)
  BY <1>3 DEF CloseReturn, Abs!absVars
<1>4. QED
  BY <1>1, <1>2, <1>3

\* The store, for every number of callers, calls and closers, implements one
\* object whose functions take effect one at a time and never after Close.
THEOREM Refinement == Spec => ImplementsStoreSpec
<1>1. IInv /\ [Next]_vars => [Abs!Next]_Abs!absVars
  <2> SUFFICES ASSUME IInv, [Next]_vars PROVE [Abs!Next]_Abs!absVars
    OBVIOUS
  <2>1. CASE Finished \/ UNCHANGED vars
    <3>1. UNCHANGED stateVars /\ UNCHANGED callVars /\ UNCHANGED closeVars
      BY <2>1 DEF Finished, vars
    <3>2. UNCHANGED LogView /\ UNCHANGED PhaseView /\ UNCHANGED PlaceView
      BY <3>1 DEF stateVars, callVars, LogView, PhaseView, PlaceView
    <3>3. QED
      BY <3>1, <3>2 DEF callVars, closeVars, Abs!absVars
  <2>2. QED
    BY <2>1, DoStepRefines, CloseStepRefines DEF Next
<1>2. QED
  BY <1>1, InitRefines, Invariance, PTL DEF Spec, Abs!Spec, ImplementsStoreSpec

-----------------------------------------------------------------------------
(***************************************************************************)
(* The delayed reboot, for any number of scheduled reboots.  What carries  *)
(* its safety properties is that the identity check and the two            *)
(* operations that withdraw a timer exclude each other: a timer that has   *)
(* passed the check is no longer pending, so nothing can withdraw it any   *)
(* more, and one that was withdrawn cannot pass it.                        *)
(***************************************************************************)

\* t's notification is in the fire channel or has been obeyed.
Sent(t) == fireCh = <<t>> \/ obeyed = t

ReloadInv ==
  /\ ReloadTypeOK
  /\ \A t \in Timers : t > scheduled => phase[t] = "none"
  /\ \A t \in Timers : Sent(t) => phase[t] = "over" /\ t \notin withdrawn
  /\ \A t \in Timers : phase[t] = "cleared" => t \notin withdrawn
  /\ timer # 0 => timer \in Timers /\ phase[timer] \in {"counting", "due"}
  /\ \A t \in withdrawn : t # timer /\ phase[t] # "none"
  /\ OnlyPendingCounts

USE ReloadAssumption DEF Timers

LEMMA InitReloadInv == ReloadInit => ReloadInv
  BY DEF ReloadInit, ReloadInv, ReloadTypeOK, OnlyPendingCounts, Sent

LEMMA ScheduleReloadInv == ReloadInv /\ Schedule => ReloadInv'
<1> SUFFICES ASSUME ReloadInv, Schedule PROVE ReloadInv'
  OBVIOUS
<1> DEFINE new == scheduled + 1
<1>1. /\ new \in Timers
      /\ phase[new] = "none"
      /\ new # timer
      /\ new \notin withdrawn
  BY DEF ReloadInv, ReloadTypeOK, Schedule
<1>2. \A t \in Timers : t # new =>
        phase'[t] = IF t = timer /\ phase[t] = "counting"
                    THEN "stopped" ELSE phase[t]
  BY <1>1 DEF Schedule, StopPending, ReloadInv, ReloadTypeOK
<1>3. phase'[new] = "counting" /\ timer' = new /\ scheduled' = new
  BY <1>1 DEF Schedule, StopPending, ReloadInv, ReloadTypeOK
<1>4. withdrawn' = withdrawn \cup ({timer} \ {0})
  BY DEF Schedule, Withdraw
<1>5. ReloadTypeOK'
  BY <1>1, <1>4 DEF ReloadInv, ReloadTypeOK, Schedule, StopPending
<1>6. \A t \in Timers : Sent(t)' => phase'[t] = "over" /\ t \notin withdrawn'
  BY <1>1, <1>2, <1>4 DEF ReloadInv, Sent, Schedule
<1>7. \A t \in Timers : phase'[t] = "cleared" => t \notin withdrawn'
  BY <1>1, <1>2, <1>3, <1>4 DEF ReloadInv
<1>8. \A t \in withdrawn' : t # timer' /\ phase'[t] # "none"
  BY <1>1, <1>2, <1>3, <1>4 DEF ReloadInv, ReloadTypeOK
<1>9. OnlyPendingCounts'
  BY <1>2, <1>3 DEF ReloadInv, OnlyPendingCounts
<1>10. \A t \in Timers : t > scheduled' => phase'[t] = "none"
  BY <1>1, <1>2, <1>3 DEF ReloadInv, ReloadTypeOK
<1>11. QED
  BY <1>1, <1>3, <1>5, <1>6, <1>7, <1>8, <1>9, <1>10 DEF ReloadInv

LEMMA CancelReloadInv == ReloadInv /\ Cancel => ReloadInv'
  BY DEF ReloadInv, ReloadTypeOK, OnlyPendingCounts, Sent, Cancel, Withdraw, StopPending

LEMMA LoopReloadInv ==
  ReloadInv /\ (CancelRefused \/ OtherCommand \/ Line \/ Leave) => ReloadInv'
  BY DEF ReloadInv, ReloadTypeOK, OnlyPendingCounts, Sent, timerVars,
         CancelRefused, OtherCommand, Line, Leave

LEMMA FireReloadInv == ReloadInv /\ Fire => ReloadInv'
<1> SUFFICES ASSUME ReloadInv, Fire PROVE ReloadInv'
  OBVIOUS
<1>1. PICK t \in Timers : fireCh = <<t>>
  BY DEF ReloadInv, ReloadTypeOK, Fire
<1>2. obeyed' = t /\ fireCh' = <<>> /\ UNCHANGED timerVars
  BY <1>1 DEF Fire
<1>3. QED
  BY <1>1, <1>2 DEF ReloadInv, ReloadTypeOK, OnlyPendingCounts, Sent, timerVars, Fire

LEMMA CallbackReloadInv ==
  ASSUME ReloadInv, NEW t \in Timers, Elapse(t) \/ Callback(t)
  PROVE  ReloadInv'
<1>1. CASE Elapse(t)
  BY <1>1 DEF ReloadInv, ReloadTypeOK, OnlyPendingCounts, Sent, Elapse
<1>2. CASE Check(t)
  BY <1>2 DEF ReloadInv, ReloadTypeOK, OnlyPendingCounts, Sent, Check, StillPending
<1>3. CASE Send(t)
  BY <1>3 DEF ReloadInv, ReloadTypeOK, OnlyPendingCounts, Sent, Send, WithBuffer
<1>4. QED
  BY <1>1, <1>2, <1>3 DEF Callback

\* The inductive invariant holds in every reachable state.
THEOREM ReloadInvariance == ReloadSpec => []ReloadInv
<1>1. ReloadInv /\ [ReloadNext]_reloadVars => ReloadInv'
  <2> SUFFICES ASSUME ReloadInv, [ReloadNext]_reloadVars PROVE ReloadInv'
    OBVIOUS
  <2>1. CASE UNCHANGED reloadVars
    BY <2>1 DEF ReloadInv, ReloadTypeOK, OnlyPendingCounts, Sent, reloadVars
  <2>2. QED
    BY <2>1, ScheduleReloadInv, CancelReloadInv, LoopReloadInv, FireReloadInv,
       CallbackReloadInv
       DEF ReloadNext, Command
<1>2. QED
  BY InitReloadInv, <1>1, PTL DEF ReloadSpec

\* Every variable keeps its type, for any number of scheduled reboots.
THEOREM ReloadTypeCorrect == ReloadSpec => []ReloadTypeOK
<1>1. ReloadInv => ReloadTypeOK
  BY DEF ReloadInv
<1>2. QED
  BY <1>1, ReloadInvariance, PTL

\* Only the pending timer counts down (Schedule stops the one it replaces).
THEOREM OneCountdown == ReloadSpec => []OnlyPendingCounts
<1>1. ReloadInv => OnlyPendingCounts
  BY DEF ReloadInv
<1>2. QED
  BY <1>1, ReloadInvariance, PTL

\* A reboot that Cancel or a later Schedule withdrew never takes place.
THEOREM NoWithdrawnReboot == ReloadSpec => []WithdrawnNeverFires
<1>1. ReloadInv => WithdrawnNeverFires
  BY DEF ReloadInv, ReloadTypeOK, Sent, WithdrawnNeverFires
<1>2. QED
  BY <1>1, ReloadInvariance, PTL
=============================================================================
