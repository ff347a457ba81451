------------------------------ MODULE StoreSpec ------------------------------
(***************************************************************************)
(* What a daemon.Store promises, without its goroutine and channels: one   *)
(* value, updated one whole function at a time.  A call takes effect at a  *)
(* single instant between its invocation and its answer; a call that is    *)
(* told ErrStoreClosed may have taken effect all the same, and may even do *)
(* so after it was told; nothing takes effect once the object is frozen.   *)
(*                                                                         *)
(* The value is abstracted to the sequence of callers whose function has   *)
(* run, so "which updates are in it, in which order" is visible and what   *)
(* the functions compute is not.                                           *)
(***************************************************************************)
EXTENDS Naturals, Sequences

CONSTANT Callers

VARIABLES
  log,       \* the callers whose function has taken effect, in order
  phase,     \* phase[c]: "idle", "pending" (not yet applied) or "applied"
  place,     \* place[c]: where in log c's current call landed, 0 before that
  answer,    \* answer[c]: the last answer c got, a place or 0 (ErrStoreClosed)
  closing,   \* Close has been called
  frozen     \* no further call can take effect

absVars == <<log, phase, place, answer, closing, frozen>>

Init ==
  /\ log = <<>>
  /\ phase = [c \in Callers |-> "idle"]
  /\ place = [c \in Callers |-> 0]
  /\ answer = [c \in Callers |-> 0]
  /\ closing = FALSE
  /\ frozen = FALSE

Invoke(c) ==
  /\ phase[c] = "idle"
  /\ phase' = [phase EXCEPT ![c] = "pending"]
  /\ UNCHANGED <<log, place, answer, closing, frozen>>

\* The one instant at which a call takes effect.
Apply(c) ==
  /\ phase[c] = "pending"
  /\ ~frozen
  /\ log' = Append(log, c)
  /\ phase' = [phase EXCEPT ![c] = "applied"]
  /\ place' = [place EXCEPT ![c] = Len(log) + 1]
  /\ UNCHANGED <<answer, closing, frozen>>

Answer(c) ==
  /\ phase[c] = "applied"
  /\ answer' = [answer EXCEPT ![c] = place[c]]
  /\ phase' = [phase EXCEPT ![c] = "idle"]
  /\ place' = [place EXCEPT ![c] = 0]
  /\ UNCHANGED <<log, closing, frozen>>

\* ErrStoreClosed, whether or not the call has already taken effect.
AnswerClosed(c) ==
  /\ phase[c] # "idle"
  /\ closing
  /\ answer' = [answer EXCEPT ![c] = 0]
  /\ phase' = [phase EXCEPT ![c] = "idle"]
  /\ place' = [place EXCEPT ![c] = 0]
  /\ UNCHANGED <<log, closing, frozen>>

BeginClose ==
  /\ closing' = TRUE
  /\ UNCHANGED <<log, phase, place, answer, frozen>>

Freeze ==
  /\ closing
  /\ frozen' = TRUE
  /\ UNCHANGED <<log, phase, place, answer, closing>>

Next ==
  \/ \E c \in Callers : Invoke(c) \/ Apply(c) \/ Answer(c) \/ AnswerClosed(c)
  \/ BeginClose
  \/ Freeze

Spec == Init /\ [][Next]_absVars
=============================================================================
