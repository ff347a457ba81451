------------------------------- MODULE RunLoop -------------------------------
(***************************************************************************)
(* One CLI process: the replay of startup-config, the dispatch loop of     *)
(* example/main.go, and the commands that move the session among command   *)
(* levels and modes.  One goroutine does all of it; what comes in between  *)
(* its steps is time, which passes while it waits for a line or for a      *)
(* password, and the events that end a session.                            *)
(***************************************************************************)
EXTENDS TreeStructure, RateLimiter

CONSTANTS
  HasHash,           \* levels with a password in the manifest
  Settable,          \* levels whose password may be changed
  Bypass,            \* levels with grant_auth_bypass
  Scripted,          \* commands a saved configuration contains
  ReauthGracePeriod,
  AuthBypassTrustWindow,
  ElevationTimeout,  \* 0 = disabled
  MaxTime            \* bound on the clock

Replays == {"boot", "reboot"}
AuditCommands == {"audit-log enable", "audit-log disable"}

\* runningConfigLines writes no command that switches the audit log.
ASSUME SessionAssumption ==
  /\ {ReauthGracePeriod, AuthBypassTrustWindow, ElevationTimeout}
       \subseteq Nat
  /\ MaxTime \in Nat \ {0}
  /\ HasHash \subseteq Levels /\ Bypass \subseteq Levels
  /\ Swapped \cap (Replays \cup {"reading", "line", "ended"}) = {}
  /\ Scripted \cap AuditCommands = {}

VARIABLES
  now,        \* starts at 1: 0 is the zero time
  phase,      \* a replay, "reading" a line, handling a "line", waiting for
              \* the password of a level (its name), "ended"
  level,      \* Session.CommandLevel
  enteredAt,  \* Session.CommandLevelEnteredAt
  stack,      \* the levels named by the frames of Position, root first
  lastAuth,   \* LastAuthenticatedAt of each level
  limiter,    \* RateLimiter of each swapped level
  hashed,     \* levels with a password now
  auditing,
  audited,    \* the command of the last entry in the audit log
  typedAt,    \* history: when each level's password was last typed
  open,       \* history: levels that some time had no password
  misses      \* history: times of wrong passwords since the last right one

where == <<level, enteredAt, stack>>
trust == <<lastAuth, limiter, typedAt, misses>>
vars == <<now, phase, where, trust, hashed, auditing, audited, open>>

Top == stack[Len(stack)]

Init ==
  /\ now = 1
  /\ phase = "boot"
  /\ level = Base /\ enteredAt = 0 /\ stack = <<Base>>
  /\ lastAuth = [l \in Levels |-> 0]
  /\ limiter = [l \in Swapped |-> NewLimiter]
  /\ hashed = HasHash
  /\ auditing \in BOOLEAN /\ audited = "START"
  /\ typedAt = [l \in Levels |-> 0]
  /\ open = (Levels \ HasHash) \cup {Base}
  /\ misses = [l \in Swapped |-> <<>>]

-----------------------------------------------------------------------------
(* Around a command: it resolves in the tree of the frame on top, and when *)
(* it is over the loop goes on.  A command that was auditable before or is *)
(* auditable after is recorded.  A replay records nothing.                 *)

Running(c) ==
  /\ c \in Tree(Top)
  /\ phase = "line" \/ (phase \in Replays /\ c \in Scripted)

WouldLogAfter == auditing'
WouldLog == auditing \/ auditing'
Recorded(c) == audited' = IF WouldLog /\ phase \notin Replays THEN c ELSE audited

Finish(c) ==
  /\ phase' = IF phase \in Replays THEN phase ELSE "reading"
  /\ Recorded(c)
  /\ UNCHANGED now

-----------------------------------------------------------------------------
(* EnterCommandLevel and ExitCommandLevel.                                 *)

RequireCurrent(l) == Top = Parent[l]

SetRoot(l) == [stack EXCEPT ![1] = l]

MoveInto(l) ==
  /\ level' = l
  /\ enteredAt' = now
  /\ stack' = SetRoot(l)

WithinGrace(l) == lastAuth[l] # 0 /\ now - lastAuth[l] < ReauthGracePeriod
WithinTrust ==
  \E b \in Bypass :
    lastAuth[b] # 0 /\ now - lastAuth[b] < AuthBypassTrustWindow

\* No password is asked for: in a replay, without a password, or within one
\* of the two windows.  Only the level's own grace period is prolonged.
ProvedByWaiver(l) == [lastAuth EXCEPT ![l] = now]
Proved(l) ==
  IF phase \notin Replays /\ l \in hashed /\ WithinGrace(l)
  THEN [lastAuth EXCEPT ![l] = now]
  ELSE lastAuth

EnterWaived(l) ==
  /\ Running(EnterCmd[l])
  /\ level # l /\ RequireCurrent(l)
  /\ phase \in Replays \/ l \notin hashed \/ WithinGrace(l) \/ WithinTrust
  /\ lastAuth' = Proved(l)
  /\ MoveInto(l)
  /\ UNCHANGED <<limiter, typedAt, misses, hashed, auditing, open>>
  /\ Finish(EnterCmd[l])

\* The prompt for the level's password, unless the level is locked out.
Admitted(l) == Allow(limiter[l], now)
AskPassword(l) ==
  /\ phase = "line" /\ Running(EnterCmd[l])
  /\ level # l /\ RequireCurrent(l)
  /\ l \in hashed /\ ~WithinGrace(l) /\ ~WithinTrust
  /\ Admitted(l)
  /\ phase' = l
  /\ UNCHANGED <<now, where, trust, hashed, auditing, audited, open>>

RightPassword(l) ==
  /\ phase = l
  /\ limiter' = [limiter EXCEPT ![l] = RecordSuccess(@)]
  /\ lastAuth' = [lastAuth EXCEPT ![l] = now]
  /\ typedAt' = [typedAt EXCEPT ![l] = now]
  /\ misses' = [misses EXCEPT ![l] = <<>>]
  /\ MoveInto(l)
  /\ UNCHANGED <<hashed, auditing, open>>
  /\ Finish(EnterCmd[l])

WrongPassword(l) ==
  /\ phase = l
  /\ limiter' = [limiter EXCEPT ![l] = RecordFailure(@, now)]
  /\ misses' = [misses EXCEPT ![l] = Append(@, now)]
  /\ UNCHANGED <<where, lastAuth, typedAt, hashed, auditing, open>>
  /\ Finish(EnterCmd[l])

\* Leaving does not touch enteredAt.
LeaveLevel(l) ==
  /\ Running(ExitCmd[l])
  /\ IF level = l
     THEN level' = Parent[l] /\ stack' = SetRoot(Parent[l])
     ELSE UNCHANGED <<level, stack>>
  /\ UNCHANGED <<enteredAt, trust, hashed, auditing, open>>
  /\ Finish(ExitCmd[l])

-----------------------------------------------------------------------------
(* Modes, "exit" and "end".                                                *)

PushMode(l) ==
  /\ Running(EnterCmd[l])
  /\ RequireCurrent(l)
  /\ stack' = Append(stack, l)
  /\ UNCHANGED <<level, enteredAt, trust, hashed, auditing, open>>
  /\ Finish(EnterCmd[l])

AnyDepth == TRUE
CanPop == Len(stack) > 1
Exit ==
  /\ Running("exit")
  /\ CanPop
  /\ stack' = SubSeq(stack, 1, Len(stack) - 1)
  /\ UNCHANGED <<level, enteredAt, trust, hashed, auditing, open>>
  /\ Finish("exit")

\* At the root "exit" is ErrQuit.
Quit ==
  /\ phase = "line" /\ Running("exit")
  /\ Len(stack) = 1
  /\ phase' = "ended"
  /\ UNCHANGED <<now, where, trust, hashed, auditing, open>>
  /\ Recorded("exit")

End ==
  /\ Running("end")
  /\ level' = EndsAt[level]
  /\ stack' = <<IF level' = level THEN stack[1] ELSE level'>>
  /\ UNCHANGED <<enteredAt, trust, hashed, auditing, open>>
  /\ Finish("end")

-----------------------------------------------------------------------------
(* Commands that change who is asked and what is recorded.                 *)

\* "password manager" works on Session.CommandLevel; a replay only sets.
SetPassword ==
  /\ Running("password manager")
  /\ level \in Settable
  /\ \/ hashed' = hashed \cup {level} /\ UNCHANGED open
     \/ /\ phase \notin Replays
        /\ hashed' = hashed \ {level}
        /\ open' = open \cup {level}
  /\ UNCHANGED <<where, trust, auditing>>
  /\ Finish("password manager")

SwitchAudit ==
  /\ \E c \in AuditCommands :
       /\ Running(c)
       /\ auditing' = (c = "audit-log enable")
       /\ Finish(c)
  /\ UNCHANGED <<where, trust, hashed, open>>

Other ==
  /\ Running("other")
  /\ UNCHANGED <<where, trust, hashed, auditing, open>>
  /\ Finish("other")

\* A line that is not valid, does not resolve, is refused by a role, by its
\* arguments or by a lockout, or fails before it changes anything.
Refused ==
  /\ phase = "line"
  /\ phase' = "reading"
  /\ audited' \in {audited} \cup (IF auditing THEN {"refused"} ELSE {})
  /\ UNCHANGED <<now, where, trust, hashed, auditing, open>>

-----------------------------------------------------------------------------
(* LoadStartupConfig, at boot and by "reboot": the position is reset       *)
(* before the replay and after it, whether it succeeds or not.             *)

Reset == level' = Base /\ stack' = <<Base>> /\ UNCHANGED enteredAt

Reboot ==
  /\ phase = "line" /\ Running("reboot")
  /\ phase' = "reboot"
  /\ Reset
  /\ UNCHANGED <<now, trust, hashed, auditing, audited, open>>

\* A boot that fails ends the program, a reboot that succeeds the session.
ReplayOver ==
  /\ phase \in Replays
  /\ \/ phase = "boot" /\ phase' = "reading" /\ UNCHANGED audited
     \/ phase = "boot" /\ phase' = "ended" /\ UNCHANGED audited
     \/ /\ phase = "reboot" /\ phase' \in {"reading", "ended"}
        /\ audited' = IF auditing THEN "reboot" ELSE audited
  /\ Reset
  /\ UNCHANGED <<now, trust, hashed, auditing, open>>

-----------------------------------------------------------------------------
(* The loop: a typed line is first measured against the elevation timeout. *)

OverTime == ElevationTimeout > 0 /\ now - enteredAt > ElevationTimeout

Line ==
  /\ phase = "reading"
  /\ phase' = "line"
  /\ IF level # Base /\ OverTime
     THEN level' = Base /\ stack' = SetRoot(Base)
     ELSE UNCHANGED <<level, stack>>
  /\ UNCHANGED <<now, enteredAt, trust, hashed, auditing, audited, open>>

\* End of input, interrupt, idle timeout, scheduled reboot, farewell.
Leave ==
  /\ phase = "reading"
  /\ phase' = "ended"
  /\ UNCHANGED <<now, where, trust, hashed, auditing, audited, open>>

Tick ==
  /\ phase \in {"reading"} \cup Swapped
  /\ now < MaxTime
  /\ now' = now + 1
  /\ UNCHANGED <<phase, where, trust, hashed, auditing, audited, open>>

Next ==
  \/ \E l \in Swapped :
       \/ EnterWaived(l) \/ AskPassword(l)
       \/ RightPassword(l) \/ WrongPassword(l)
  \/ \E l \in DOMAIN ExitCmd : LeaveLevel(l)
  \/ \E l \in Nested : PushMode(l)
  \/ Exit \/ Quit \/ End
  \/ SetPassword \/ SwitchAudit \/ Other \/ Refused
  \/ Reboot \/ ReplayOver
  \/ Line \/ Leave \/ Tick

Spec == Init /\ [][Next]_vars

-----------------------------------------------------------------------------
(* Properties.                                                             *)

TypeOK ==
  /\ now \in 1..MaxTime
  /\ phase \in Replays \cup {"reading", "line", "ended"} \cup Swapped
  /\ level \in Levels \ Nested
  /\ enteredAt \in 0..MaxTime
  /\ stack \in Seq(Levels) \ {<<>>}
  /\ lastAuth \in [Levels -> 0..MaxTime]
  /\ typedAt \in [Levels -> 0..MaxTime]
  /\ DOMAIN limiter = Swapped /\ DOMAIN misses = Swapped
  /\ hashed \subseteq Levels
  /\ open \subseteq Levels
  /\ auditing \in BOOLEAN

ModesNest == \A i \in 2..Len(stack) :
  stack[i] \in Nested /\ (i > 2 => Parent[stack[i]] = stack[i - 1])

\* The two records of where the session is, Session.CommandLevel and the
\* position, agree, although every command changes them on its own: the root
\* frame is the level, and above it each mode stands on the one it is entered
\* from.  Only the elevation timeout leaves a mode standing on the base.
PositionAgrees ==
  /\ stack[1] = level
  /\ ModesNest
  /\ Len(stack) > 1 =>
       level = Parent[stack[2]] \/ (level = Base /\ OverTime)

\* A level with a password is reached only by someone who typed it, or a
\* bypass level's, in this process: nothing a replay did counts ("grants
\* nothing further"), and a replay leaves nobody at a level.
Earned(l) ==
  l \in open \/ typedAt[l] # 0 \/ \E b \in Bypass : typedAt[b] # 0
NoUnearnedLevel ==
  phase \notin Replays => \A l \in Path[level] : Earned(l)

\* Of more wrong passwords in a row than MaxAttempts, the first ones within
\* Window, the last comes a lockout after the first, however they fall with
\* respect to earlier lockouts and aged failures.
AttemptsAreSlow ==
  MaxAttempts > 0 => \A l \in Swapped : LET f == misses[l] IN
    \A i \in 1..(Len(f) - MaxAttempts) :
      f[i + MaxAttempts - 1] - f[i] <= Window =>
        f[i + MaxAttempts] - f[i] >= Lockout

\* Both turning the audit log off and turning it on leave an entry.
SwitchIsAudited ==
  [][auditing # auditing' =>
       audited' = (IF auditing THEN "audit-log disable" ELSE "audit-log enable")]_vars

-----------------------------------------------------------------------------
(* Statements of the documentation that the code does not keep.            *)

\* "When set this is required when the `enter_command` is used": every level
\* on the stack that has a password was entered by someone who typed it, or a
\* bypass level's.
EveryLevelIsEarned ==
  phase \notin Replays => \A i \in DOMAIN stack : Earned(stack[i])

\* "automatically reverting to the base level": at the base level only the
\* base level's own modes are on the stack.
RevertsToBase == level = Base /\ Len(stack) > 1 => Parent[stack[2]] = Base

\* A bypass level's trust is measured from "a real, live password check": a
\* level with a password is entered without asking only within its own grace
\* period or AuthBypassTrustWindow after a bypass password was typed.
TrustIsFresh ==
  [][\A l \in Swapped :
       phase = "line" /\ level # l /\ level' = l /\ Parent[l] = level
         /\ l \in hashed /\ ~WithinGrace(l)
       => \E b \in Bypass :
            typedAt[b] # 0 /\ now - typedAt[b] < AuthBypassTrustWindow]_vars
=============================================================================
