-------------------------------- MODULE Login --------------------------------
(***************************************************************************)
(* How a session comes to be and what it may change about its account:     *)
(* the login prompt (auth/login.go), the second factor (auth/mfa.go,       *)
(* auth/totp.go), establishSession and authenticateSession of              *)
(* example/main.go, the forced and the voluntary "password change" and     *)
(* "totp enable" / "totp disable".  One process at a time, started again   *)
(* any number of times; it reads the users file when it starts and writes  *)
(* it only at "write memory".                                              *)
(*                                                                         *)
(* The clock counts steps of totpPeriod.  A code is the secret and the     *)
(* step it was computed from: two steps whose six digits happen to be      *)
(* equal are not modelled.                                                 *)
(***************************************************************************)
EXTENDS RateLimiter, FiniteSets

CONSTANTS
  Names,        \* what may be typed at "Username:"
  HostName,     \* the account the process runs as
  Passwords,
  MinLength, Required,  \* PasswordPolicy: its length and its kinds of character
  MaxPasswordLength,    \* 72
  Secrets, NoSecret,
  Files,        \* users files a deployment may start from
  Configs,      \* settings it may start with
  LoopBound,    \* 1000 in the code
  TOTPMaxAttempts, PasswordChangeMaxAttempts,
  MaxTime,      \* bound on the clock
  MaxBoots      \* bound on the number of processes

\* validateAuthSources: an identity comes from somewhere.
ValidAuthSources(c) ==
  /\ c.required => c.host \/ c.cli
  /\ c.totp => c.host \/ c.cli

Settings ==
  {c \in [required : BOOLEAN, host : BOOLEAN, cli : BOOLEAN, totp : BOOLEAN,
          limited : BOOLEAN] : ValidAuthSources(c)}

\* PasswordHash is "$id$encoded"; 0 is plain text, 6 is bcrypt, and another
\* id has no hasher.
Hashed == [id : {"0", "6", "?"}, of : Passwords]
Registered == {"0", "6"}
VerifyPassword(stored, p) == stored.id \in Registered /\ stored.of = p
HashPassword(p) == [id |-> "6", of |-> p]

\* A password is its length in characters and in bytes, and the kinds of
\* character in it.
ValidatePassword(p) ==
  {v \in {"too_short", "too_long"} \cup Required :
    \/ v = "too_short" /\ p.runes < MinLength
    \/ v = "too_long" /\ p.bytes > MaxPasswordLength
    \/ v \in Required \ p.kinds}

Users == [password : Hashed, secret : Secrets \cup {NoSecret}, last : Nat,
          must : BOOLEAN]

IsDatabase(db) == DOMAIN db \subseteq Names /\ db \in [DOMAIN db -> Users]

ASSUME LoginAssumption ==
  /\ {MaxAttempts, LoopBound, TOTPMaxAttempts, PasswordChangeMaxAttempts,
      MaxTime, MaxBoots}
       \subseteq Nat \ {0}
  /\ HostName \in Names
  /\ \A p \in Passwords : {p.runes, p.bytes} \subseteq Nat
  /\ NoSecret \notin Secrets
  /\ Configs \subseteq Settings
  /\ \A f \in Files : IsDatabase(f)

VARIABLES
  now,
  cfg,
  file,      \* the users file
  pc,        \* the prompt the process waits at, "session", "ending", "off"
  users,     \* ctx.Users
  who,       \* the name last typed, Session.Username once there is one
  admitted,  \* FALSE while a password change is forced
  attempt,   \* of the loop around the current prompt
  limiter,   \* KeyedRateLimiter.limiters
  offered,   \* the secret "totp enable" has shown
  issued,    \* history: secrets GenerateTOTPSecret has returned
  loaded,    \* history: users as the process read them
  proved,    \* history: what the name at the prompt has proved
  misses,    \* history: times of each name's failures in this process
  spent,     \* history: codes consumed, by the process and before the
             \* save it started from
  again,     \* history: a code was consumed that was spent
  saved,     \* history: spent, at the last save
  boots      \* processes started

prompt == <<pc, who, admitted, attempt, offered>>
evidence == <<loaded, proved, misses>>
disk == <<file, saved>>
codes == <<spent, again>>
vars ==
  <<now, cfg, disk, boots, prompt, users, limiter, issued, evidence, codes>>

Nobody == [n \in {} |-> n]
NoLimiters == [n \in Names |-> NewLimiter]
NoMisses == [n \in Names |-> <<>>]

Init ==
  /\ now = 2        \* step 0 is what TOTPLastCounter starts from
  /\ cfg \in Configs /\ file \in Files
  /\ users = Nobody /\ loaded = Nobody
  /\ boots = 0
  /\ pc = "off" /\ who = HostName /\ admitted = FALSE /\ attempt = 1
  /\ offered = NoSecret
  /\ issued = {s \in Secrets : \E n \in DOMAIN file : file[n].secret = s}
  /\ limiter = NoLimiters
  /\ proved = {} /\ misses = NoMisses
  /\ spent = {} /\ saved = {} /\ again = FALSE

-----------------------------------------------------------------------------
(* One-time codes.                                                         *)

\* A person types what an authenticator shows or showed: never a code of a
\* step further ahead than its clock may be.
hotp(secret, step) == [secret |-> secret, step |-> step]
Codes == {hotp(s, k) : s \in Secrets, k \in (now - 2)..(now + 1)}

\* The steps a code is taken for, one before and one after the present one.
VerifyTOTPCodeCounter(secret, code) ==
  {k \in (now - 1)..(now + 1) : code = hotp(secret, k)}

VerifyTOTPCode(secret, code) == VerifyTOTPCodeCounter(secret, code) # {}

SecondFactorRequired(n) == users[n].secret # NoSecret

\* verifyAndConsumeTOTP: a step is accepted once, and none before
\* it after.
AnyStep(n, step) == TRUE
Unused(n, step) == step > users[n].last
VerifyAndConsume(n, code) ==
  \E k \in VerifyTOTPCodeCounter(users[n].secret, code) : Unused(n, k)
Consume(n, code) ==
  /\ users' = [users EXCEPT ![n].last = code.step]
  /\ spent' = spent \cup {<<n, code>>}
  /\ again' = (again \/ <<n, code>> \in spent)

Authenticate(n, p) ==
  n \in DOMAIN users /\ VerifyPassword(users[n].password, p)

-----------------------------------------------------------------------------
(* A process starts: the users file, then establishSession.                *)

CodeWanted(db, n) ==
  cfg.totp /\ n \in DOMAIN db /\ db[n].secret # NoSecret

LoadUsers == IF cfg.required THEN file ELSE Nobody

FirstPrompt ==
  IF cfg.required /\ cfg.cli THEN "username"
  ELSE IF cfg.required /\ CodeWanted(LoadUsers, HostName) THEN "hostcode"
  ELSE "session"

Boot ==
  /\ pc = "off" /\ boots < MaxBoots
  /\ boots' = boots + 1
  /\ users' = LoadUsers /\ loaded' = LoadUsers
  /\ admitted' = TRUE
  /\ pc' = FirstPrompt
  /\ UNCHANGED <<now, cfg, disk, who, attempt, offered, limiter, issued, proved,
                 misses, codes>>

\* The code of the account the process runs as, with no password before it.
HostCode ==
  /\ pc = "hostcode"
  /\ \E c \in Codes :
       \/ /\ VerifyAndConsume(HostName, c)
          /\ Consume(HostName, c)
          /\ proved' = proved \cup {"code"}
          /\ pc' = "session"
          /\ UNCHANGED attempt
       \/ /\ ~VerifyAndConsume(HostName, c)
          /\ attempt' = attempt + 1
          /\ pc' = IF attempt < MaxAttempts THEN pc ELSE "ending"
          /\ UNCHANGED <<users, proved, codes>>
  /\ UNCHANGED <<now, cfg, disk, boots, who, admitted, limiter, offered, issued,
                 loaded, misses>>

-----------------------------------------------------------------------------
(* PromptLogin.                                                            *)

OneLimiter(n) == HostName
LimiterFor(n) == n
Refused(n) == cfg.limited /\ ~Allow(limiter[LimiterFor(n)], now)

TypeUsername(n) ==
  /\ pc = "username"
  /\ who' = n
  /\ proved' = {}
  /\ pc' = IF Refused(n) THEN "ending" ELSE "password"
  /\ UNCHANGED <<now, cfg, disk, boots, admitted, attempt, offered, users, limiter,
                 issued, loaded, misses, codes>>

OneBound == LoopBound
Bound == IF cfg.limited THEN LoopBound ELSE MaxAttempts

FailedAttempt ==
  /\ limiter' = IF cfg.limited
                THEN [limiter EXCEPT ![LimiterFor(who)] = RecordFailure(@, now)]
                ELSE limiter
  /\ misses' = [misses EXCEPT ![who] = Append(@, now)]
  /\ attempt' = attempt + 1
  /\ pc' = IF attempt < Bound THEN "username" ELSE "ending"
  /\ UNCHANGED <<admitted, proved>>

\* A first password somebody else chose is changed before anything else.
MustChange(n) == users[n].must

\* The limiter belongs to this one prompt: RecordSuccess is its last use.
LoggedIn(factors) ==
  /\ limiter' = NoLimiters /\ misses' = NoMisses
  /\ attempt' = 1
  /\ admitted' = ~MustChange(who)
  /\ pc' = IF MustChange(who) THEN "change" ELSE "session"
  /\ proved' = proved \cup factors

TypeCredentials ==
  /\ pc = "password"
  /\ \/ \E p \in Passwords :
          /\ ~Authenticate(who, p)
          /\ FailedAttempt
          /\ UNCHANGED <<users, codes>>
     \/ \E p \in Passwords :
          /\ Authenticate(who, p) /\ ~CodeWanted(users, who)
          /\ LoggedIn({"password"})
          /\ UNCHANGED <<users, codes>>
     \/ \E p \in Passwords, c \in Codes :
          /\ Authenticate(who, p) /\ CodeWanted(users, who)
          /\ \/ /\ VerifyAndConsume(who, c)
                /\ Consume(who, c)
                /\ LoggedIn({"password", "code"})
             \/ /\ ~VerifyAndConsume(who, c)
                /\ FailedAttempt
                /\ UNCHANGED <<users, codes>>
  /\ UNCHANGED <<now, cfg, disk, boots, who, offered, issued, loaded>>

-----------------------------------------------------------------------------
(* runPasswordChange: re-authentication and the new password draw on one   *)
(* budget of attempts.  A forced change that does not complete ends the    *)
(* process, a voluntary one goes back to the loop.                         *)

KeepsGoing == pc' = "session"
GiveUp == pc' = IF admitted THEN "session" ELSE "ending"

NextAttempt(max) ==
  /\ attempt' = attempt + 1
  /\ IF attempt < max THEN UNCHANGED pc ELSE GiveUp

\* verifyReauth asks for a code whatever EnableTOTPAuthentication says, and
\* looks at it only after the right password.
Reauthenticate ==
  /\ pc = "change"
  /\ \/ \E p \in Passwords :
          /\ ~Authenticate(who, p)
          /\ NextAttempt(PasswordChangeMaxAttempts)
          /\ UNCHANGED <<users, codes>>
     \/ \E p \in Passwords :
          /\ Authenticate(who, p) /\ ~SecondFactorRequired(who)
          /\ pc' = "newpassword"
          /\ UNCHANGED <<attempt, users, codes>>
     \/ \E p \in Passwords, c \in Codes :
          /\ Authenticate(who, p) /\ SecondFactorRequired(who)
          /\ \/ /\ VerifyAndConsume(who, c)
                /\ Consume(who, c)
                /\ pc' = "newpassword"
                /\ UNCHANGED attempt
             \/ /\ ~VerifyAndConsume(who, c)
                /\ NextAttempt(PasswordChangeMaxAttempts)
                /\ UNCHANGED <<users, codes>>
  /\ UNCHANGED <<now, cfg, disk, boots, who, admitted, offered, limiter, issued,
                 evidence>>

SamePassword(p) == VerifyPassword(users[who].password, p)

NewPassword ==
  /\ pc = "newpassword"
  /\ \E p, confirm \in Passwords :
       LET good == p = confirm /\ ValidatePassword(p) = {} /\ ~SamePassword(p) IN
       \/ /\ good
          /\ users' = [users EXCEPT ![who].password = HashPassword(p),
                                    ![who].must = FALSE]
          /\ pc' = "session" /\ admitted' = TRUE
          /\ proved' = proved \cup {"changed"}
          /\ UNCHANGED attempt
       \/ /\ ~good
          /\ NextAttempt(PasswordChangeMaxAttempts)
          /\ UNCHANGED <<users, admitted, proved>>
  /\ UNCHANGED <<now, cfg, disk, boots, who, offered, limiter, issued, loaded,
                 misses, codes>>

\* "password change", pruned from the tree without CLI authentication.
PasswordChange ==
  /\ pc = "session" /\ cfg.required /\ cfg.cli
  /\ who \in DOMAIN users
  /\ pc' = "change" /\ attempt' = 1
  /\ UNCHANGED <<now, cfg, disk, boots, who, admitted, offered, users, limiter,
                 issued, evidence, codes>>

-----------------------------------------------------------------------------
(* "totp enable" and "totp disable", pruned without TOTP authentication.   *)
(* Both check a code with VerifyTOTPCode, which consumes nothing.          *)

OwnAccount == cfg.required /\ cfg.totp /\ who \in DOMAIN users

TOTPEnable ==
  /\ pc = "session" /\ OwnAccount /\ ~SecondFactorRequired(who)
  /\ \E s \in Secrets \ issued :
       offered' = s /\ issued' = issued \cup {s}
  /\ pc' = "enable" /\ attempt' = 1
  /\ UNCHANGED <<now, cfg, disk, boots, who, admitted, users, limiter, evidence,
                 codes>>

EnableCode ==
  /\ pc = "enable"
  /\ \E c \in Codes :
       \/ /\ VerifyTOTPCode(offered, c)
          /\ users' = [users EXCEPT ![who].secret = offered]
          /\ pc' = "session"
          /\ UNCHANGED attempt
       \/ /\ ~VerifyTOTPCode(offered, c)
          /\ NextAttempt(TOTPMaxAttempts)
          /\ UNCHANGED users
  /\ UNCHANGED <<now, cfg, disk, boots, who, admitted, offered, limiter, issued,
                 evidence, codes>>

TOTPDisable ==
  /\ pc = "session" /\ OwnAccount /\ SecondFactorRequired(who)
  /\ pc' = "disable" /\ attempt' = 1
  /\ UNCHANGED <<now, cfg, disk, boots, who, admitted, offered, users, limiter,
                 issued, evidence, codes>>

DisableCode ==
  /\ pc = "disable"
  /\ \E p \in Passwords, c \in Codes :
       LET right == VerifyPassword(users[who].password, p)
                      /\ VerifyTOTPCode(users[who].secret, c) IN
       \/ /\ right
          /\ users' = [users EXCEPT ![who].secret = NoSecret]
          /\ pc' = "session"
          /\ UNCHANGED attempt
       \/ /\ ~right
          /\ NextAttempt(TOTPMaxAttempts)
          /\ UNCHANGED users
  /\ UNCHANGED <<now, cfg, disk, boots, who, admitted, offered, limiter, issued,
                 evidence, codes>>

-----------------------------------------------------------------------------
(* What may come in between: a prompt that cannot be read, the clock, the  *)
(* end of the process, and "write memory".                                 *)

PromptFails ==
  /\ \/ pc \in {"username", "password"} /\ pc' = "ending"
     \/ pc \in {"change", "newpassword", "enable", "disable"} /\ GiveUp
  /\ UNCHANGED <<now, cfg, disk, boots, who, admitted, attempt, offered, users,
                 limiter, issued, evidence, codes>>

WriteMemory ==
  /\ pc = "session" /\ cfg.required
  /\ file' = users /\ saved' = spent
  /\ UNCHANGED <<now, cfg, boots, prompt, users, limiter, issued, evidence, codes>>

\* All that is left is the file.
End ==
  /\ pc # "off"
  /\ pc' = "off" /\ who' = HostName /\ admitted' = FALSE /\ attempt' = 1
  /\ offered' = NoSecret
  /\ users' = Nobody /\ loaded' = Nobody
  /\ limiter' = NoLimiters
  /\ proved' = {} /\ misses' = NoMisses
  /\ spent' = saved
  /\ UNCHANGED <<now, cfg, disk, boots, issued, again>>

Tick ==
  /\ now < MaxTime
  /\ now' = now + 1
  /\ UNCHANGED <<cfg, disk, boots, prompt, users, limiter, issued, evidence, codes>>

Next ==
  \/ Boot \/ HostCode
  \/ \E n \in Names : TypeUsername(n)
  \/ TypeCredentials
  \/ Reauthenticate \/ NewPassword \/ PasswordChange
  \/ TOTPEnable \/ EnableCode \/ TOTPDisable \/ DisableCode
  \/ PromptFails \/ WriteMemory \/ End \/ Tick

Spec == Init /\ [][Next]_vars

-----------------------------------------------------------------------------
(* Properties.                                                             *)

Prompts == {"off", "ending", "username", "password", "hostcode", "change",
            "newpassword", "session", "enable", "disable"}

TypeOK ==
  /\ now \in Nat /\ now >= 2
  /\ cfg \in Settings
  /\ pc \in Prompts
  /\ who \in Names
  /\ admitted \in BOOLEAN
  /\ attempt \in Nat \ {0}
  /\ IsDatabase(users) /\ IsDatabase(file)

\* The process is past every prompt that stands before a session.
Inside ==
  \/ pc \in {"session", "enable", "disable"}
  \/ pc \in {"change", "newpassword"} /\ admitted

\* Nobody works in a session without everything the settings and the users
\* file ask of its account: the password, a code when one is enrolled, and
\* a password of its own instead of the one it was given, however often a
\* prompt failed, was given up or was left for another name.
SessionIsEarned ==
  Inside /\ cfg.required =>
    /\ cfg.cli => /\ who \in DOMAIN loaded /\ "password" \in proved
                  /\ loaded[who].must => "changed" \in proved
    /\ cfg.totp /\ who \in DOMAIN loaded /\ loaded[who].secret # NoSecret
         => "code" \in proved

\* "so the same code cannot be used again": a code that proved an account's
\* second factor at login, or for a password change, never proves it again,
\* in the same process or in a later one that read a file saved since.
NoCodeTwice == ~again

\* With a limiter, of more wrong guesses for one name than LoginMaxAttempts,
\* the first ones within the window, the last comes a lockout later; without
\* one a process gets LoginMaxAttempts guesses in all.
GuessesAreSlow ==
  IF cfg.limited
  THEN MaxAttempts > 0 => \A n \in Names : LET f == misses[n] IN
         \A i \in 1..(Len(f) - MaxAttempts) :
           f[i + MaxAttempts - 1] - f[i] <= Window =>
             f[i + MaxAttempts] - f[i] >= Lockout
  ELSE \A n \in Names : Len(misses[n]) <= MaxAttempts

\* "would let anyone lock out any other user": a name is refused only for
\* failures of its own.
LockoutIsOwn ==
  \A n \in Names : Refused(n) => Len(misses[n]) >= MaxAttempts

\* mfa.go and totp.go: "a code accepted once is never accepted again": the
\* prompt of "totp disable" takes none that was accepted before.
CodeAcceptedOnce ==
  pc = "disable" =>
    \A c \in Codes : <<who, c>> \in spent =>
      ~VerifyTOTPCode(users[who].secret, c)
=============================================================================
