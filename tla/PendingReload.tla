---------------------------- MODULE PendingReload ----------------------------
(***************************************************************************)
(* command/reload.go: at most one delayed reboot of a CLI process, with    *)
(* the dispatch loop that schedules, cancels and obeys it (runReboot in    *)
(* cmd_admin.go, readLine in main.go).  Every Schedule makes a timer of    *)
(* its own, numbered in order; a timer's callback runs on a goroutine of   *)
(* its own: it takes the mutex, compares identity, lets the mutex go and   *)
(* only then sends.  Delays are not measured: a counting timer may run out *)
(* at any moment.                                                          *)
(***************************************************************************)
EXTENDS Naturals, Sequences

CONSTANT MaxSchedules   \* bound on the calls of Schedule

ASSUME ReloadAssumption == MaxSchedules \in Nat

Timers == 1..MaxSchedules

VARIABLES
  scheduled,  \* how many timers were made
  timer,      \* the pending timer, 0 = nil
  phase,      \* phase[t]: "none", "counting", "stopped", "due" (callback
              \* started), "cleared" (identity held, not yet sent), "over"
  fireCh,     \* the fire channel, one slot: the timer that sent
  session,    \* the dispatch loop: "reading", "running" a command, "left",
              \* or "rebooting" because of the fire channel
  obeyed,     \* the timer the session reboots for, 0 = none
  withdrawn,  \* history: timers cancelled or superseded while pending
  denied      \* history: timers that were still to fire when Cancel said no

reloadVars == <<scheduled, timer, phase, fireCh, session, obeyed, withdrawn, denied>>
timerVars == <<scheduled, timer, phase, withdrawn, denied>>

ReloadInit ==
  /\ scheduled = 0
  /\ timer = 0
  /\ phase = [t \in Timers |-> "none"]
  /\ fireCh = <<>>
  /\ session = "reading"
  /\ obeyed = 0
  /\ withdrawn = {}
  /\ denied = {}

\* What Stop does to the pending timer, if there is one: a callback that has
\* started is not prevented.
NotStopped == phase
StopPending ==
  [t \in Timers |->
     IF t = timer /\ phase[t] = "counting" THEN "stopped" ELSE phase[t]]

Withdraw == withdrawn' = withdrawn \cup ({timer} \ {0})

Schedule ==
  /\ session = "running"
  /\ scheduled < MaxSchedules
  /\ LET t == scheduled + 1 IN
       /\ scheduled' = t
       /\ timer' = t
       /\ phase' = [StopPending EXCEPT ![t] = "counting"]
  /\ Withdraw
  /\ session' = "reading"
  /\ UNCHANGED <<fireCh, obeyed, denied>>

Cancel ==
  /\ session = "running"
  /\ timer # 0
  /\ timer' = 0
  /\ phase' = StopPending
  /\ Withdraw
  /\ session' = "reading"
  /\ UNCHANGED <<scheduled, fireCh, obeyed, denied>>

\* Cancel finds no timer and returns false: "not pending" is printed.
CancelRefused ==
  /\ session = "running"
  /\ timer = 0
  /\ denied' =
       denied \cup {t \in Timers : phase[t] = "cleared" \/ fireCh = <<t>>}
  /\ session' = "reading"
  /\ UNCHANGED <<scheduled, timer, phase, fireCh, obeyed, withdrawn>>

\* Any other command; one that quits ends the loop.
OtherCommand ==
  /\ session = "running"
  /\ session' \in {"reading", "left"}
  /\ UNCHANGED <<timerVars, fireCh, obeyed>>

-----------------------------------------------------------------------------
(* A timer's callback.                                                     *)

Elapse(t) ==
  /\ phase[t] = "counting"
  /\ phase' = [phase EXCEPT ![t] = "due"]
  /\ UNCHANGED <<scheduled, timer, fireCh, session, obeyed, withdrawn, denied>>

AnyTimer(t) == TRUE
StillPending(t) == timer = t
Check(t) ==
  /\ phase[t] = "due"
  /\ IF StillPending(t)
     THEN timer' = 0 /\ phase' = [phase EXCEPT ![t] = "cleared"]
     ELSE UNCHANGED timer /\ phase' = [phase EXCEPT ![t] = "over"]
  /\ UNCHANGED <<scheduled, fireCh, session, obeyed, withdrawn, denied>>

\* A send that does not wait, into a slot that may be taken.
WithoutLimit(t) == Append(fireCh, t)
WithoutBuffer(t) == IF session = "reading" THEN <<t>> ELSE fireCh
WithBuffer(t) == IF fireCh = <<>> THEN <<t>> ELSE fireCh
Send(t) ==
  /\ phase[t] = "cleared"
  /\ fireCh' = WithBuffer(t)
  /\ phase' = [phase EXCEPT ![t] = "over"]
  /\ UNCHANGED <<scheduled, timer, session, obeyed, withdrawn, denied>>

Callback(t) == Check(t) \/ Send(t)

-----------------------------------------------------------------------------
(* readLine: a line, the fire channel, or something else that ends the     *)
(* session (idle timeout, farewell, end of input).                         *)

Line ==
  /\ session = "reading"
  /\ session' = "running"
  /\ UNCHANGED <<timerVars, fireCh, obeyed>>

Fire ==
  /\ session = "reading"
  /\ fireCh # <<>>
  /\ obeyed' = Head(fireCh)
  /\ fireCh' = <<>>
  /\ session' = "rebooting"
  /\ UNCHANGED timerVars

Leave ==
  /\ session = "reading"
  /\ session' = "left"
  /\ UNCHANGED <<timerVars, fireCh, obeyed>>

Command == Schedule \/ Cancel \/ CancelRefused \/ OtherCommand

ReloadNext ==
  \/ Command
  \/ \E t \in Timers : Elapse(t) \/ Callback(t)
  \/ Line \/ Fire \/ Leave

ReloadSpec == ReloadInit /\ [][ReloadNext]_reloadVars

(***************************************************************************)
(* Fairness: a callback that has started runs on, a command comes back to  *)
(* the loop, and the loop, which selects at random, does not for ever      *)
(* prefer typed lines to the fire channel.                                 *)
(***************************************************************************)
FairReload ==
  /\ ReloadSpec
  /\ \A t \in Timers : WF_reloadVars(Callback(t))
  /\ WF_reloadVars(Command)
  /\ SF_reloadVars(Fire)

-----------------------------------------------------------------------------
(* Properties.                                                             *)

ReloadTypeOK ==
  /\ scheduled \in 0..MaxSchedules
  /\ timer \in 0..MaxSchedules
  /\ phase \in [Timers ->
       {"none", "counting", "stopped", "due", "cleared", "over"}]
  /\ fireCh \in {<<>>} \cup {<<t>> : t \in Timers}
  /\ session \in {"reading", "running", "left", "rebooting"}
  /\ obeyed \in 0..MaxSchedules
  /\ withdrawn \subseteq Timers
  /\ denied \subseteq Timers

\* "Only the most recent one is ever pending" (Schedule): no timer that is
\* not the pending one goes on counting.
OnlyPendingCounts == \A t \in Timers : phase[t] = "counting" => t = timer

\* A reboot "a session already believed it had cancelled" (Schedule), or
\* replaced, never takes place, however late its callback runs.
WithdrawnNeverFires ==
  \A t \in withdrawn : obeyed # t /\ fireCh # <<t>>

\* A reboot that was not withdrawn in time is not lost, even if it falls due
\* while a command runs: the session ends, by it or by something sooner.
ClearedIsObeyed ==
  \A t \in Timers :
    phase[t] = "cleared" ~> session \in {"rebooting", "left"}

\* "A false result means neither had anything scheduled to begin with"
\* (Cancel): no reboot scheduled before a refused cancel happens after it.
RefusedMeansNone == obeyed \notin denied
=============================================================================
