----------------------------- MODULE LoginProofs -----------------------------
(***************************************************************************)
(* Proofs about Login: no code proves a second factor twice, a session is  *)
(* earned, and guesses at the login prompt are slow and lock out only the  *)
(* name they are about.                                                    *)
(***************************************************************************)
EXTENDS Login, CommonLemmas

LEMMA NobodyOK == IsDatabase(Nobody) /\ DOMAIN Nobody = {}
BY DEF Nobody, IsDatabase

-----------------------------------------------------------------------------
(* The inductive invariant.  A spent code is never ahead of the counter of *)
(* its account, in memory and on disk, so that what is accepted, being     *)
(* ahead of it, is not spent.  The rest says which prompts a session is    *)
(* past and that nothing about accounts changes before.                    *)

Asking == {"username", "password", "hostcode"}
Past == {"session", "change", "newpassword", "enable", "disable"}

CodeType == Names \X [secret : Secrets, step : Nat]
Behind(used, db) ==
  \A n \in DOMAIN db, c \in [secret : Secrets, step : Nat] :
    <<n, c>> \in used => c.step <= db[n].last

SpentInv ==
  /\ spent \in SUBSET CodeType /\ saved \in SUBSET CodeType
  /\ Behind(spent, users) /\ Behind(saved, file)
  /\ pc = "off" => spent = saved
  /\ ~again

PlaceInv ==
  /\ pc = "hostcode" => /\ cfg.required /\ ~cfg.cli
                        /\ who = HostName /\ HostName \in DOMAIN users
  /\ pc \in {"username", "password"} => cfg.required /\ cfg.cli
  /\ pc \in {"change", "newpassword"} => cfg.cli
  /\ pc \in Past \ {"session"} => cfg.required /\ who \in DOMAIN users
  /\ pc = "enable" => offered \in Secrets
  /\ pc = "off" => who = HostName

EarnedInv ==
  /\ DOMAIN loaded = DOMAIN users
  /\ pc \in Asking => \A n \in DOMAIN users :
       users[n].secret = loaded[n].secret /\ users[n].must = loaded[n].must
  /\ pc \in Past /\ cfg.required /\ cfg.cli =>
       who \in DOMAIN loaded /\ "password" \in proved
  /\ pc \in Past /\ cfg.required /\ cfg.totp /\ who \in DOMAIN loaded
       /\ loaded[who].secret # NoSecret => "code" \in proved
  /\ Inside /\ cfg.required /\ cfg.cli /\ loaded[who].must =>
       "changed" \in proved

IInv == TypeOK /\ SpentInv /\ PlaceInv /\ EarnedInv

USE DEF Prompts

LEMMA InitIInv == Init => IInv
<1> SUFFICES ASSUME Init PROVE IInv
  OBVIOUS
<1> USE LoginAssumption, NobodyOK DEF Init
<1>1. TypeOK
  <2>1. IsDatabase(users) /\ IsDatabase(file)
    OBVIOUS
  <2>2. cfg \in Settings
    OBVIOUS
  <2>3. now \in Nat /\ now >= 2
    OBVIOUS
  <2>4. attempt \in Nat \ {0} /\ who \in Names
    OBVIOUS
  <2>5. admitted \in BOOLEAN
    BY Zenon
  <2>6. QED
    BY <2>1, <2>2, <2>3, <2>4, <2>5 DEF TypeOK
<1>2. SpentInv
  BY DEF SpentInv, Behind
<1>3. PlaceInv /\ EarnedInv
  BY DEF PlaceInv, EarnedInv, Inside, Asking, Past
<1>4. QED
  BY <1>1, <1>2, <1>3 DEF IInv

LEMMA BootIInv == IInv /\ Boot => IInv'
<1> SUFFICES ASSUME IInv, Boot PROVE IInv'
  OBVIOUS
<1>1. TypeOK'
  BY NobodyOK, LoginAssumption DEF IInv, TypeOK, Boot, FirstPrompt, LoadUsers, disk
<1>2. SpentInv'
  BY NobodyOK DEF IInv, SpentInv, Behind, Boot, FirstPrompt, LoadUsers, disk, codes
<1>3. PlaceInv'
  BY DEF IInv, PlaceInv, Boot, FirstPrompt, Past, CodeWanted
<1>4. EarnedInv'
  BY NobodyOK DEF IInv, PlaceInv, EarnedInv, Boot, FirstPrompt, Past, Asking, Inside, CodeWanted
<1>5. QED
  BY <1>1, <1>2, <1>3, <1>4 DEF IInv

-----------------------------------------------------------------------------
(* A code that is accepted is ahead of every one that was.                 *)

LEMMA CodeShape ==
  ASSUME now \in Nat, now >= 2, NEW c \in Codes
  PROVE  c.step \in Nat /\ c \in [secret : Secrets, step : Nat]
BY DEF Codes, hotp

LEMMA ConsumeKeeps ==
  ASSUME TypeOK, SpentInv, NEW n \in DOMAIN users, NEW c \in Codes,
         VerifyAndConsume(n, c), Consume(n, c)
  PROVE  /\ IsDatabase(users') /\ DOMAIN users' = DOMAIN users
         /\ spent' \in SUBSET CodeType
         /\ Behind(spent', users')
         /\ ~again'
         /\ \A m \in DOMAIN users : users'[m].secret = users[m].secret
                                   /\ users'[m].must = users[m].must
<1>1. c.step \in Nat /\ c \in [secret : Secrets, step : Nat]
  BY CodeShape DEF TypeOK
<1>2. n \in Names /\ IsDatabase(users)
  BY DEF TypeOK, IsDatabase
<1>3. c.step > users[n].last
  BY DEF VerifyAndConsume, VerifyTOTPCodeCounter, Unused, hotp
<1>4. \A m \in DOMAIN users : users[m].last \in Nat
  BY <1>2 DEF IsDatabase, Users
<1>5. users' = [users EXCEPT ![n].last = c.step]
  BY DEF Consume
<1>6. /\ IsDatabase(users') /\ DOMAIN users' = DOMAIN users
      /\ users'[n].last = c.step
      /\ \A m \in DOMAIN users \ {n} : users'[m] = users[m]
      /\ \A m \in DOMAIN users : users'[m].secret = users[m].secret
                                /\ users'[m].must = users[m].must
  <2>1. n \in DOMAIN users /\ c.step \in Nat /\ IsDatabase(users)
    BY <1>1, <1>2
  <2>2. QED
    BY <2>1, <1>5 DEF IsDatabase, Users
<1>7. <<n, c>> \notin spent
  BY <1>1, <1>3, <1>4 DEF SpentInv, Behind
<1>8. ~again'
  BY <1>7 DEF Consume, SpentInv
<1>9. spent' = spent \cup {<<n, c>>}
  BY DEF Consume
<1>10. spent' \in SUBSET CodeType
  BY <1>1, <1>2, <1>9 DEF SpentInv, CodeType
<1>11. Behind(spent', users')
  <2> SUFFICES ASSUME NEW m \in DOMAIN users',
                      NEW d \in [secret : Secrets, step : Nat],
                      <<m, d>> \in spent'
               PROVE  d.step <= users'[m].last
    BY DEF Behind
  <2>1. CASE <<m, d>> \in spent
    <3>1. d.step <= users[m].last /\ d.step \in Nat
      BY <2>1, <1>6 DEF SpentInv, Behind
    <3>2. CASE m = n
      BY <3>1, <3>2, <1>1, <1>3, <1>4, <1>6
    <3>3. CASE m # n
      BY <3>1, <3>3, <1>6
    <3>4. QED
      BY <3>2, <3>3
  <2>2. CASE <<m, d>> = <<n, c>>
    BY <2>2, <1>1, <1>6
  <2>3. QED
    BY <2>1, <2>2, <1>9
<1>12. QED
  BY <1>6, <1>8, <1>10, <1>11

\* Most steps leave the accounts and the spent codes alone.
LEMMA SpentKeeps ==
  ASSUME SpentInv, UNCHANGED <<users, codes, disk>>, pc' # "off"
  PROVE  SpentInv'
BY DEF SpentInv, Behind, codes, disk

LEMMA ConsumedSpent ==
  ASSUME SpentInv, UNCHANGED disk, pc' # "off",
         spent' \in SUBSET CodeType, Behind(spent', users'), ~again'
  PROVE  SpentInv'
BY DEF SpentInv, Behind, disk

-----------------------------------------------------------------------------
(* The prompts before a session.                                           *)

LEMMA HostCodeIInv == IInv /\ HostCode => IInv'
<1> SUFFICES ASSUME IInv, HostCode PROVE IInv'
  OBVIOUS
<1> USE DEF IInv, HostCode
<1>1. PICK c \in Codes :
        \/ /\ VerifyAndConsume(HostName, c)
           /\ Consume(HostName, c)
           /\ proved' = proved \cup {"code"}
           /\ pc' = "session"
           /\ UNCHANGED attempt
        \/ /\ ~VerifyAndConsume(HostName, c)
           /\ attempt' = attempt + 1
           /\ pc' = IF attempt < MaxAttempts THEN pc ELSE "ending"
           /\ UNCHANGED <<users, proved, codes>>
  OBVIOUS
<1>2. HostName \in DOMAIN users /\ who = HostName /\ cfg.required /\ ~cfg.cli
  BY DEF PlaceInv
<1>3. CASE VerifyAndConsume(HostName, c)
  <2>1. /\ IsDatabase(users') /\ DOMAIN users' = DOMAIN users
        /\ spent' \in SUBSET CodeType /\ Behind(spent', users') /\ ~again'
    BY <1>1, <1>2, <1>3, ConsumeKeeps
  <2>2. /\ pc' = "session" /\ proved' = proved \cup {"code"}
        /\ UNCHANGED attempt
    BY <1>1, <1>3
  <2>3. TypeOK'
    BY <2>1, <2>2 DEF TypeOK, disk
  <2>4. SpentInv'
    BY <2>1, <2>2, ConsumedSpent
  <2>5. PlaceInv' /\ EarnedInv'
    BY <1>2, <2>1, <2>2 DEF PlaceInv, EarnedInv, Inside, Asking, Past
  <2>6. QED
    BY <2>3, <2>4, <2>5
<1>4. CASE ~VerifyAndConsume(HostName, c)
  <2>1. /\ pc' \in {"hostcode", "ending"} /\ UNCHANGED <<users, proved, codes>>
        /\ attempt' = attempt + 1
    BY <1>1, <1>4
  <2>2. TypeOK'
    BY <2>1 DEF TypeOK, disk
  <2>3. SpentInv'
    BY <2>1, SpentKeeps
  <2>4. PlaceInv' /\ EarnedInv'
    BY <2>1 DEF PlaceInv, EarnedInv, Inside, Asking, Past
  <2>5. QED
    BY <2>2, <2>3, <2>4
<1>5. QED
  BY <1>3, <1>4

LEMMA TypeUsernameIInv ==
  ASSUME NEW n \in Names PROVE IInv /\ TypeUsername(n) => IInv'
<1> SUFFICES ASSUME IInv, TypeUsername(n) PROVE IInv'
  OBVIOUS
<1> USE DEF IInv, TypeUsername
<1>1. pc' \in {"password", "ending"}
  OBVIOUS
<1>2. TypeOK'
  BY <1>1 DEF TypeOK, disk
<1>3. SpentInv'
  BY <1>1, SpentKeeps
<1>4. PlaceInv' /\ EarnedInv'
  BY <1>1 DEF PlaceInv, EarnedInv, Inside, Asking, Past
<1>5. QED
  BY <1>2, <1>3, <1>4

\* A login that succeeds, from what was checked at the prompt.
LEMMA LoggedInIInv ==
  ASSUME IInv, pc = "password", NEW factors \in SUBSET {"password", "code"},
         who \in DOMAIN users, "password" \in factors,
         cfg.totp /\ users[who].secret # NoSecret => "code" \in factors,
         LoggedIn(factors),
         UNCHANGED <<now, cfg, disk, boots, who, offered, issued, loaded>>,
         IsDatabase(users'), DOMAIN users' = DOMAIN users,
         SpentInv'
  PROVE  IInv'
<1> USE DEF IInv, LoggedIn
<1>1. /\ cfg.required /\ cfg.cli
      /\ loaded[who].secret = users[who].secret
      /\ loaded[who].must = users[who].must
  BY DEF PlaceInv, EarnedInv, Asking
<1>2. users[who].must \in BOOLEAN
  BY DEF TypeOK, IsDatabase, Users
<1>3. TypeOK'
  <2>1. admitted' \in BOOLEAN
    BY <1>2, Zenon DEF MustChange
  <2>2. pc' \in {"change", "session"} /\ attempt' = 1
    OBVIOUS
  <2>3. QED
    BY <2>1, <2>2 DEF TypeOK, disk
<1>4. PlaceInv'
  BY <1>1 DEF PlaceInv, Past
<1>5. EarnedInv'
  <2>1. CASE users[who].must
    <3>1. pc' = "change" /\ ~admitted'
      BY <2>1, Zenon DEF MustChange
    <3>2. QED
      BY <1>1, <3>1 DEF EarnedInv, Inside, Asking, Past
  <2>2. CASE ~users[who].must
    <3>1. pc' = "session"
      BY <2>2, Zenon DEF MustChange
    <3>2. QED
      BY <1>1, <2>2, <3>1 DEF EarnedInv, Inside, Asking, Past
  <2>3. QED
    BY <2>1, <2>2
<1>6. QED
  BY <1>3, <1>4, <1>5

LEMMA FailedAttemptIInv ==
  ASSUME IInv, pc = "password", FailedAttempt,
         UNCHANGED <<now, cfg, disk, boots, who, offered, issued, loaded>>,
         UNCHANGED <<users, codes>>
  PROVE  IInv'
<1> USE DEF IInv, FailedAttempt
<1>1. pc' \in {"username", "ending"}
  OBVIOUS
<1>2. TypeOK'
  BY <1>1 DEF TypeOK, disk
<1>3. SpentInv'
  BY <1>1, SpentKeeps
<1>4. PlaceInv' /\ EarnedInv'
  BY <1>1 DEF PlaceInv, EarnedInv, Inside, Asking, Past
<1>5. QED
  BY <1>2, <1>3, <1>4

LEMMA TypeCredentialsIInv == IInv /\ TypeCredentials => IInv'
<1> SUFFICES ASSUME IInv, TypeCredentials PROVE IInv'
  OBVIOUS
<1> USE DEF TypeCredentials
<1>1. ASSUME FailedAttempt, UNCHANGED <<users, codes>> PROVE IInv'
  BY <1>1, FailedAttemptIInv
<1>2. ASSUME NEW p \in Passwords, Authenticate(who, p),
             ~CodeWanted(users, who), LoggedIn({"password"}),
             UNCHANGED <<users, codes>>
      PROVE  IInv'
  <2>1. who \in DOMAIN users /\ ~(cfg.totp /\ users[who].secret # NoSecret)
    BY <1>2 DEF Authenticate, CodeWanted
  <2>2. IsDatabase(users') /\ DOMAIN users' = DOMAIN users
    BY <1>2 DEF IInv, TypeOK
  <2>3. pc' # "off" /\ SpentInv
    BY <1>2 DEF LoggedIn, IInv
  <2>4. SpentInv'
    BY <1>2, <2>3, SpentKeeps
  <2>5. QED
    BY <1>2, <2>1, <2>2, <2>4, LoggedInIInv
<1>3. ASSUME NEW p \in Passwords, NEW c \in Codes, Authenticate(who, p),
             VerifyAndConsume(who, c), Consume(who, c),
             LoggedIn({"password", "code"})
      PROVE  IInv'
  <2>1. who \in DOMAIN users
    BY <1>3 DEF Authenticate
  <2>2. /\ IsDatabase(users') /\ DOMAIN users' = DOMAIN users
        /\ spent' \in SUBSET CodeType /\ Behind(spent', users') /\ ~again'
    BY <1>3, <2>1, ConsumeKeeps DEF IInv
  <2>3. pc' # "off" /\ SpentInv
    BY <1>3 DEF LoggedIn, IInv
  <2>4. SpentInv'
    BY <2>2, <2>3, ConsumedSpent
  <2>5. QED
    BY <1>3, <2>1, <2>2, <2>4, LoggedInIInv
<1>4. QED
  BY <1>1, <1>2, <1>3

-----------------------------------------------------------------------------
(* Changing the account.                                                   *)

\* A step that stays inside, or ends, with accounts and proofs as they were.
LEMMA GoOnIInv ==
  ASSUME IInv, pc \in Past,
         UNCHANGED <<now, cfg, disk, who, users, codes, loaded, proved>>,
         attempt' \in Nat \ {0}, admitted' = admitted,
         \/ pc' \in {pc, "ending"}
         \/ pc' = "session" /\ (pc \in {"change", "newpassword"} => admitted)
         \/ pc = "change" /\ pc' = "newpassword"
         \/ pc = "session" /\ pc' = "change" /\ cfg.cli /\ cfg.required
              /\ who \in DOMAIN users
         \/ pc = "session" /\ pc' \in {"enable", "disable"} /\ cfg.required
              /\ who \in DOMAIN users,
         pc' = "enable" => offered' \in Secrets
  PROVE  IInv'
<1> USE DEF IInv
<1>1. TypeOK'
  BY DEF TypeOK, disk, Past
<1>2. SpentInv'
  BY SpentKeeps DEF Past
<1>3. PlaceInv'
  BY DEF PlaceInv, Past
<1>4. EarnedInv'
  BY DEF PlaceInv, EarnedInv, Inside, Asking, Past
<1>5. QED
  BY <1>1, <1>2, <1>3, <1>4

\* The next attempt of a loop inside.
LEMMA NextAttemptIInv ==
  ASSUME IInv, pc \in Past \ {"session"}, NEW max, NextAttempt(max),
         UNCHANGED <<now, cfg, disk, who, users, codes, loaded, proved>>,
         admitted' = admitted, offered' = offered
  PROVE  IInv'
<1>1. attempt' \in Nat \ {0}
  BY DEF NextAttempt, IInv, TypeOK
<1>2. \/ pc' \in {pc, "ending"}
      \/ pc' = "session" /\ (pc \in {"change", "newpassword"} => admitted)
  <2>1. CASE attempt < max
    BY <2>1 DEF NextAttempt
  <2>2. CASE ~(attempt < max) /\ admitted
    BY <2>2, Zenon DEF NextAttempt, GiveUp
  <2>3. CASE ~(attempt < max) /\ ~admitted
    BY <2>3 DEF NextAttempt, GiveUp
  <2>4. QED
    BY <2>1, <2>2, <2>3
<1>3. pc' = "enable" => offered' \in Secrets
  BY <1>2 DEF IInv, PlaceInv
<1>4. QED
  BY <1>1, <1>2, <1>3, GoOnIInv

LEMMA ReauthenticateIInv == IInv /\ Reauthenticate => IInv'
<1> SUFFICES ASSUME IInv, Reauthenticate PROVE IInv'
  OBVIOUS
<1> USE DEF Reauthenticate, evidence
<1>1. pc \in Past /\ pc = "change"
  BY DEF Past
<1>2. ASSUME NextAttempt(PasswordChangeMaxAttempts), UNCHANGED <<users, codes>>
      PROVE  IInv'
  BY <1>1, <1>2, NextAttemptIInv
<1>3. ASSUME pc' = "newpassword", UNCHANGED <<attempt, users, codes>>
      PROVE  IInv'
  <2>1. attempt' \in Nat \ {0}
    BY <1>3 DEF IInv, TypeOK
  <2>2. QED
    BY <1>1, <1>3, <2>1, GoOnIInv
<1>4. ASSUME NEW c \in Codes, VerifyAndConsume(who, c), Consume(who, c),
             pc' = "newpassword", UNCHANGED attempt
      PROVE  IInv'
  <2>1. who \in DOMAIN users /\ cfg.cli /\ cfg.required
    BY <1>1 DEF IInv, PlaceInv
  <2>2. /\ IsDatabase(users') /\ DOMAIN users' = DOMAIN users
        /\ spent' \in SUBSET CodeType /\ Behind(spent', users') /\ ~again'
    BY <1>4, <2>1, ConsumeKeeps DEF IInv
  <2>3. SpentInv'
    BY <1>4, <2>2, ConsumedSpent DEF IInv
  <2>4. TypeOK'
    BY <1>4, <2>2 DEF IInv, TypeOK, disk
  <2>5. PlaceInv'
    BY <1>4, <2>1, <2>2 DEF PlaceInv, Past
  <2>6. EarnedInv'
    BY <1>1, <1>4, <2>1, <2>2 DEF IInv, EarnedInv, Inside, Asking, Past
  <2>7. QED
    BY <2>3, <2>4, <2>5, <2>6 DEF IInv
<1>5. QED
  BY <1>2, <1>3, <1>4

LEMMA NewPasswordIInv == IInv /\ NewPassword => IInv'
<1> SUFFICES ASSUME IInv, NewPassword PROVE IInv'
  OBVIOUS
<1> USE DEF NewPassword
<1>1. pc \in Past /\ pc = "newpassword"
  BY DEF Past
<1>2. who \in DOMAIN users /\ cfg.cli /\ cfg.required
  BY <1>1 DEF IInv, PlaceInv
<1>3. ASSUME NextAttempt(PasswordChangeMaxAttempts),
             UNCHANGED <<users, admitted, proved>>
      PROVE  IInv'
  BY <1>1, <1>3, NextAttemptIInv
<1>4. ASSUME NEW p \in Passwords,
             users' = [users EXCEPT ![who].password = HashPassword(p),
                                    ![who].must = FALSE],
             pc' = "session", admitted' = TRUE,
             proved' = proved \cup {"changed"}, UNCHANGED attempt
      PROVE  IInv'
  <2>1. HashPassword(p) \in Hashed
    BY DEF HashPassword, Hashed
  <2>2. IsDatabase(users)
    BY DEF IInv, TypeOK
  <2>3. /\ IsDatabase(users') /\ DOMAIN users' = DOMAIN users
        /\ \A m \in DOMAIN users : users'[m].last = users[m].last
    BY <1>2, <1>4, <2>1, <2>2 DEF IsDatabase, Users
  <2>4. SpentInv'
    BY <1>4, <2>3 DEF IInv, SpentInv, Behind, codes, disk
  <2>5. admitted' \in BOOLEAN
    BY <1>4, Zenon
  <2>6. TypeOK'
    BY <1>4, <2>3, <2>5 DEF IInv, TypeOK, disk
  <2>7. PlaceInv'
    BY <1>4 DEF PlaceInv, Past
  <2>8. EarnedInv'
    BY <1>1, <1>4, <2>3 DEF IInv, EarnedInv, Inside, Asking, Past
  <2>9. QED
    BY <2>4, <2>6, <2>7, <2>8 DEF IInv
<1>5. QED
  BY <1>3, <1>4

LEMMA PasswordChangeIInv == IInv /\ PasswordChange => IInv'
<1> SUFFICES ASSUME IInv, PasswordChange PROVE IInv'
  OBVIOUS
<1>1. attempt' \in Nat \ {0} /\ pc \in Past
  BY DEF PasswordChange, Past
<1>2. QED
  BY <1>1, GoOnIInv DEF PasswordChange, evidence

LEMMA TOTPEnableIInv == IInv /\ TOTPEnable => IInv'
<1> SUFFICES ASSUME IInv, TOTPEnable PROVE IInv'
  OBVIOUS
<1>1. attempt' \in Nat \ {0} /\ pc \in Past /\ offered' \in Secrets
  BY DEF TOTPEnable, Past
<1>2. QED
  BY <1>1, GoOnIInv DEF TOTPEnable, OwnAccount, evidence

LEMMA TOTPDisableIInv == IInv /\ TOTPDisable => IInv'
<1> SUFFICES ASSUME IInv, TOTPDisable PROVE IInv'
  OBVIOUS
<1>1. attempt' \in Nat \ {0} /\ pc \in Past
  BY DEF TOTPDisable, Past
<1>2. QED
  BY <1>1, GoOnIInv DEF TOTPDisable, OwnAccount, evidence

\* A secret comes or goes: the counter stays.
LEMMA SecretIInv ==
  ASSUME IInv, pc \in {"enable", "disable"}, pc' = "session",
         NEW s \in Secrets \cup {NoSecret},
         users' = [users EXCEPT ![who].secret = s],
         UNCHANGED <<now, cfg, disk, who, admitted, attempt, codes, loaded,
                     proved>>
  PROVE  IInv'
<1>1. who \in DOMAIN users /\ pc \in Past
  BY DEF IInv, PlaceInv, Past
<1>2. IsDatabase(users)
  BY DEF IInv, TypeOK
<1>3. /\ IsDatabase(users') /\ DOMAIN users' = DOMAIN users
      /\ \A m \in DOMAIN users : users'[m].last = users[m].last
  BY <1>1, <1>2 DEF IsDatabase, Users
<1>4. SpentInv'
  BY <1>3 DEF IInv, SpentInv, Behind, codes, disk
<1>5. TypeOK'
  BY <1>3 DEF IInv, TypeOK, disk
<1>6. PlaceInv'
  BY DEF PlaceInv, Past
<1>7. EarnedInv'
  BY <1>1, <1>3 DEF IInv, EarnedInv, Inside, Asking, Past
<1>8. QED
  BY <1>4, <1>5, <1>6, <1>7 DEF IInv

LEMMA EnableCodeIInv == IInv /\ EnableCode => IInv'
<1> SUFFICES ASSUME IInv, EnableCode PROVE IInv'
  OBVIOUS
<1> USE DEF EnableCode, evidence
<1>1. pc \in Past \ {"session"} /\ pc = "enable" /\ offered \in Secrets
  BY DEF Past, IInv, PlaceInv
<1>2. ASSUME NextAttempt(TOTPMaxAttempts), UNCHANGED users PROVE IInv'
  BY <1>1, <1>2, NextAttemptIInv
<1>3. ASSUME users' = [users EXCEPT ![who].secret = offered],
             pc' = "session", UNCHANGED attempt
      PROVE  IInv'
  BY <1>1, <1>3, SecretIInv
<1>4. QED
  BY <1>2, <1>3

LEMMA DisableCodeIInv == IInv /\ DisableCode => IInv'
<1> SUFFICES ASSUME IInv, DisableCode PROVE IInv'
  OBVIOUS
<1> USE DEF DisableCode, evidence
<1>1. pc \in Past \ {"session"} /\ pc = "disable"
  BY DEF Past
<1>2. ASSUME NextAttempt(TOTPMaxAttempts), UNCHANGED users PROVE IInv'
  BY <1>1, <1>2, NextAttemptIInv
<1>3. ASSUME users' = [users EXCEPT ![who].secret = NoSecret],
             pc' = "session", UNCHANGED attempt
      PROVE  IInv'
  BY <1>1, <1>3, SecretIInv
<1>4. QED
  BY <1>2, <1>3

-----------------------------------------------------------------------------
(* What comes in between, and the theorems.                                *)

LEMMA PromptFailsIInv == IInv /\ PromptFails => IInv'
<1> SUFFICES ASSUME IInv, PromptFails PROVE IInv'
  OBVIOUS
<1> USE DEF PromptFails, evidence
<1>1. CASE pc \in {"username", "password"} /\ pc' = "ending"
  <2>1. TypeOK'
    BY <1>1 DEF IInv, TypeOK, disk
  <2>2. SpentInv'
    BY <1>1, SpentKeeps DEF IInv
  <2>3. PlaceInv' /\ EarnedInv'
    BY <1>1 DEF IInv, PlaceInv, EarnedInv, Inside, Asking, Past
  <2>4. QED
    BY <2>1, <2>2, <2>3 DEF IInv
<1>2. CASE pc \in {"change", "newpassword", "enable", "disable"} /\ GiveUp
  <2>1. pc \in Past /\ attempt' \in Nat \ {0}
    BY <1>2 DEF Past, IInv, TypeOK
  <2>2. \/ pc' = "ending"
        \/ pc' = "session" /\ (pc \in {"change", "newpassword"} => admitted)
    <3>1. CASE admitted
      BY <1>2, <3>1, Zenon DEF GiveUp
    <3>2. CASE ~admitted
      BY <1>2, <3>2 DEF GiveUp
    <3>3. QED
      BY <3>1, <3>2
  <2>3. pc' # "enable"
    BY <2>2
  <2>4. QED
    BY <2>1, <2>2, <2>3, GoOnIInv
<1>3. QED
  BY <1>1, <1>2

LEMMA WriteMemoryIInv == IInv /\ WriteMemory => IInv'
<1> SUFFICES ASSUME IInv, WriteMemory PROVE IInv'
  OBVIOUS
<1> USE DEF WriteMemory, prompt, evidence, codes
<1>1. TypeOK'
  BY DEF IInv, TypeOK
<1>2. SpentInv'
  BY DEF IInv, SpentInv, Behind
<1>3. PlaceInv' /\ EarnedInv'
  BY DEF IInv, PlaceInv, EarnedInv, Inside, Asking, Past
<1>4. QED
  BY <1>1, <1>2, <1>3 DEF IInv

LEMMA EndIInv == IInv /\ End => IInv'
<1> SUFFICES ASSUME IInv, End PROVE IInv'
  OBVIOUS
<1> USE DEF End, disk
<1>1. TypeOK'
  <2>1. admitted' \in BOOLEAN
    BY Zenon
  <2>2. QED
    BY <2>1, NobodyOK, LoginAssumption DEF IInv, TypeOK
<1>2. SpentInv'
  BY NobodyOK DEF IInv, SpentInv, Behind
<1>3. PlaceInv' /\ EarnedInv'
  BY NobodyOK DEF IInv, PlaceInv, EarnedInv, Inside, Asking, Past
<1>4. QED
  BY <1>1, <1>2, <1>3 DEF IInv

LEMMA QuietIInv ==
  ASSUME IInv, now' \in Nat, now' >= 2,
         UNCHANGED <<cfg, disk, boots, prompt, users, limiter, issued,
                     evidence, codes>>
  PROVE  IInv'
<1> USE DEF prompt, evidence, codes, disk
<1>1. TypeOK'
  BY DEF IInv, TypeOK
<1>2. SpentInv'
  BY DEF IInv, SpentInv, Behind
<1>3. PlaceInv' /\ EarnedInv'
  BY DEF IInv, PlaceInv, EarnedInv, Inside, Asking, Past
<1>4. QED
  BY <1>1, <1>2, <1>3 DEF IInv

LEMMA NextIInv == IInv /\ [Next]_vars => IInv'
<1> SUFFICES ASSUME IInv, [Next]_vars PROVE IInv'
  OBVIOUS
<1>1. CASE UNCHANGED vars
  <2>1. now' \in Nat /\ now' >= 2
    BY <1>1 DEF vars, IInv, TypeOK
  <2>2. QED
    BY <1>1, <2>1, QuietIInv DEF vars
<1>2. CASE Tick
  <2>1. now' \in Nat /\ now' >= 2
    BY <1>2 DEF Tick, IInv, TypeOK
  <2>2. QED
    BY <1>2, <2>1, QuietIInv DEF Tick
<1>3. CASE \E n \in Names : TypeUsername(n)
  BY <1>3, TypeUsernameIInv
<1>4. QED
  BY <1>1, <1>2, <1>3, BootIInv, HostCodeIInv, TypeCredentialsIInv,
     ReauthenticateIInv, NewPasswordIInv, PasswordChangeIInv, TOTPEnableIInv,
     EnableCodeIInv, TOTPDisableIInv, DisableCodeIInv, PromptFailsIInv,
     WriteMemoryIInv, EndIInv
     DEF Next

LEMMA Invariance == Spec => []IInv
BY InitIInv, NextIInv, PTL DEF Spec

\* The types of the accounts, in memory and in the file.
THEOREM TypeCorrect == Spec => []TypeOK
<1>1. IInv => TypeOK
  BY DEF IInv
<1>2. QED
  BY Invariance, <1>1, PTL

\* A code accepted for an account is never accepted for it again, neither in
\* the same process nor in one that read a file saved since.
THEOREM CodesAreSpent == Spec => []NoCodeTwice
<1>1. IInv => NoCodeTwice
  BY DEF IInv, SpentInv, NoCodeTwice
<1>2. QED
  BY Invariance, <1>1, PTL

\* Whoever is past the prompts of a session has answered all of them.
THEOREM EarnedSessions == Spec => []SessionIsEarned
<1>1. IInv => SessionIsEarned
  <2> SUFFICES ASSUME IInv, Inside, cfg.required PROVE SessionIsEarned
    BY DEF SessionIsEarned
  <2>1. pc \in Past
    BY DEF Inside, Past
  <2>2. QED
    BY <2>1 DEF IInv, EarnedInv, SessionIsEarned
<1>2. QED
  BY Invariance, <1>1, PTL

-----------------------------------------------------------------------------
(* The limiters of the login prompt.  With limiters, each name's remembers *)
(* that name's failures, and the prompt waits for a password only after    *)
(* Allow has let it.  Without them, the loop's own budget bounds the       *)
(* failures of all names.                                                  *)

AtLogin == {"username", "password"}

Budget ==
  \A n \in Names :
    /\ Len(misses[n]) <= MaxAttempts
    /\ pc \in AtLogin => Len(misses[n]) < attempt /\ attempt <= MaxAttempts

LimitInv ==
  /\ limiter \in [Names -> Limiters] /\ misses \in [Names -> Seq(Nat)]
  /\ cfg.limited => \A n \in Names : Remembers(limiter[n], misses[n], now)
  /\ cfg.limited /\ pc = "password" => Allow(limiter[who], now)
  /\ ~cfg.limited => Budget
  /\ pc = "off" => attempt = 1 /\ misses = NoMisses /\ limiter = NoLimiters

\* A prompt that has not failed yet.
LEMMA NewPrompt ==
  ASSUME limiter' = NoLimiters, misses' = NoMisses, attempt' = 1,
         pc' # "password"
  PROVE  LimitInv'
<1>1. \A n \in Names : limiter'[n] = NewLimiter /\ misses'[n] = <<>>
  BY DEF NoLimiters, NoMisses
<1>2. limiter' \in [Names -> Limiters] /\ misses' \in [Names -> Seq(Nat)]
  BY NewCounts DEF NoLimiters, NoMisses
<1>3. \A n \in Names : Remembers(limiter'[n], misses'[n], now')
  BY <1>1, NewRemembers
<1>4. Budget'
  BY <1>1, LoginAssumption DEF Budget
<1>5. QED
  BY <1>2, <1>3, <1>4 DEF LimitInv

LEMMA InitLimitInv == Init => LimitInv
<1> SUFFICES ASSUME Init PROVE LimitInv
  OBVIOUS
<1>1. \A n \in Names : limiter[n] = NewLimiter /\ misses[n] = <<>>
  BY DEF Init, NoLimiters, NoMisses
<1>2. limiter \in [Names -> Limiters] /\ misses \in [Names -> Seq(Nat)]
  BY NewCounts DEF Init, NoLimiters, NoMisses
<1>3. \A n \in Names : Remembers(limiter[n], misses[n], now)
  BY <1>1, NewRemembers
<1>4. Budget
  BY <1>1, LoginAssumption DEF Budget, Init, AtLogin
<1>5. QED
  BY <1>2, <1>3, <1>4 DEF LimitInv, Init

\* Steps that record nothing: what was remembered stays so, and who was let
\* through is, whatever the clock has done since.
LEMMA LimitKeeps ==
  ASSUME TypeOK, LimitInv, UNCHANGED <<cfg, limiter, misses>>,
         now' \in Nat, now <= now',
         pc' = "password" =>
           (pc = "password" /\ who' = who) \/ ~Refused(who'),
         who' \in Names,
         pc' \in AtLogin => pc \in AtLogin \cup {"off"} /\ attempt' = attempt,
         pc' = "off" => pc = "off" /\ attempt' = attempt
  PROVE  LimitInv'
<1>1. now \in Nat
  BY DEF TypeOK
<1>2. ASSUME cfg.limited, NEW n \in Names
      PROVE  Remembers(limiter[n], misses[n], now')
  <2>1. Remembers(limiter[n], misses[n], now)
    BY <1>2 DEF LimitInv
  <2>2. QED
    BY <1>1, <2>1, LaterRemembers
<1>3. ASSUME cfg.limited, pc' = "password" PROVE Allow(limiter[who'], now')
  <2>1. Allow(limiter[who'], now)
    BY <1>3 DEF LimitInv, Refused, LimiterFor
  <2>2. limiter[who'].lockedUntil \in Nat
    BY DEF LimitInv, Limiters
  <2>3. QED
    BY <1>1, <2>1, <2>2 DEF Allow
<1>4. ASSUME ~cfg.limited PROVE Budget'
  <2>1. Budget
    BY <1>4 DEF LimitInv
  <2>2. ASSUME NEW n \in Names, pc' \in AtLogin
        PROVE  Len(misses[n]) < attempt' /\ attempt' <= MaxAttempts
    <3>1. CASE pc \in AtLogin
      BY <2>1, <2>2, <3>1 DEF Budget
    <3>2. CASE pc = "off"
      <4>1. attempt = 1 /\ misses[n] = <<>>
        BY <3>2 DEF LimitInv, NoMisses
      <4>2. QED
        BY <2>2, <4>1, LoginAssumption
    <3>3. QED
      BY <2>2, <3>1, <3>2
  <2>3. QED
    BY <2>1, <2>2 DEF Budget
<1>5. QED
  BY <1>2, <1>3, <1>4 DEF LimitInv

LEMMA FailedAttemptLimitInv ==
  ASSUME TypeOK, LimitInv, pc = "password", FailedAttempt,
         UNCHANGED <<now, cfg, who>>
  PROVE  LimitInv'
<1>1. who \in Names /\ now \in Nat /\ attempt \in Nat \ {0}
  BY DEF TypeOK
<1>2. /\ misses' = [misses EXCEPT ![who] = Append(@, now)]
      /\ misses \in [Names -> Seq(Nat)] /\ limiter \in [Names -> Limiters]
      /\ pc' \in {"username", "ending"} /\ attempt' = attempt + 1
  BY DEF FailedAttempt, LimitInv
<1>3. /\ misses' \in [Names -> Seq(Nat)]
      /\ misses'[who] = Append(misses[who], now)
      /\ Len(misses'[who]) = Len(misses[who]) + 1
      /\ \A n \in Names \ {who} : misses'[n] = misses[n]
  BY <1>1, <1>2
<1>4. CASE cfg.limited
  <2>1. limiter' = [limiter EXCEPT ![who] = RecordFailure(@, now)]
    BY <1>4 DEF FailedAttempt, LimiterFor
  <2>2. Remembers(RecordFailure(limiter[who], now), misses'[who], now)
    <3>1. Remembers(limiter[who], misses[who], now) /\ Allow(limiter[who], now)
      BY <1>1, <1>4 DEF LimitInv
    <3>2. QED
      BY <3>1, <1>1, <1>3, FailureRemembers
  <2>3. RecordFailure(limiter[who], now) \in Limiters
    BY <2>2 DEF Remembers
  <2>4. \A n \in Names : Remembers(limiter'[n], misses'[n], now)
    BY <1>1, <1>2, <1>3, <1>4, <2>1, <2>2 DEF LimitInv
  <2>5. limiter' \in [Names -> Limiters]
    BY <1>1, <1>2, <2>1, <2>3
  <2>6. QED
    BY <1>2, <1>3, <1>4, <2>4, <2>5 DEF LimitInv
<1>5. CASE ~cfg.limited
  <2>1. limiter' = limiter
    BY <1>5 DEF FailedAttempt
  <2>2. pc' = "username" => attempt < MaxAttempts
    BY <1>5 DEF FailedAttempt, Bound
  <2>3. MaxAttempts \in Nat
    BY LoginAssumption
  <2>4. ASSUME NEW n \in Names
        PROVE  /\ Len(misses'[n]) <= MaxAttempts
               /\ pc' \in AtLogin =>
                    Len(misses'[n]) < attempt' /\ attempt' <= MaxAttempts
    <3>1. Len(misses[n]) < attempt /\ attempt <= MaxAttempts
      BY <1>5 DEF LimitInv, Budget, AtLogin
    <3>2. Len(misses[n]) \in Nat /\ Len(misses'[n]) \in {Len(misses[n]), Len(misses[n]) + 1}
      BY <1>2, <1>3
    <3>3. pc' \in AtLogin => pc' = "username"
      BY <1>2 DEF AtLogin
    <3>4. QED
      BY <1>1, <1>2, <2>2, <2>3, <3>1, <3>2, <3>3
  <2>5. Budget'
    BY <2>4 DEF Budget
  <2>6. QED
    BY <1>2, <1>3, <1>5, <2>1, <2>5 DEF LimitInv
<1>6. QED
  BY <1>4, <1>5

\* After a login, or out of one, the prompts before a session do not return.
LEMMA NextLimitInv == TypeOK /\ LimitInv /\ [Next]_vars => LimitInv'
<1> SUFFICES ASSUME TypeOK, LimitInv, [Next]_vars PROVE LimitInv'
  OBVIOUS
<1>1. now \in Nat /\ who \in Names
  BY DEF TypeOK
<1>2. CASE UNCHANGED vars \/ Tick
  BY <1>1, <1>2, LimitKeeps DEF vars, Tick, prompt, evidence
<1>3. CASE Boot
  BY <1>1, <1>3, LimitKeeps DEF Boot, FirstPrompt, AtLogin
<1>4. ASSUME NEW n \in Names, TypeUsername(n) PROVE LimitInv'
  BY <1>1, <1>4, LimitKeeps DEF TypeUsername, AtLogin
<1>5. CASE TypeCredentials
  <2>1. ASSUME FailedAttempt PROVE LimitInv'
    BY <1>5, <2>1, FailedAttemptLimitInv DEF TypeCredentials
  <2>2. ASSUME NEW factors, LoggedIn(factors) PROVE LimitInv'
    BY <2>2, NewPrompt DEF LoggedIn
  <2>3. QED
    BY <1>5, <2>1, <2>2 DEF TypeCredentials
<1>6. CASE End
  BY <1>6, NewPrompt DEF End
<1>7. CASE PromptFails \/ WriteMemory
  BY <1>1, <1>7, LimitKeeps
     DEF PromptFails, WriteMemory, GiveUp, prompt, evidence, AtLogin
<1>8. CASE \/ HostCode \/ Reauthenticate \/ NewPassword \/ PasswordChange
           \/ TOTPEnable \/ EnableCode \/ TOTPDisable \/ DisableCode
  <2>1. /\ UNCHANGED <<now, cfg, who, limiter, misses>>
        /\ pc' \notin AtLogin \cup {"off"}
    BY <1>8 DEF HostCode, Reauthenticate, NewPassword, PasswordChange,
       TOTPEnable, EnableCode, TOTPDisable, DisableCode, NextAttempt, GiveUp,
       evidence, AtLogin
  <2>2. QED
    BY <1>1, <2>1, LimitKeeps DEF AtLogin
<1>9. QED
  BY <1>2, <1>3, <1>4, <1>5, <1>6, <1>7, <1>8 DEF Next

LEMMA Limited == Spec => [](IInv /\ LimitInv)
<1>1. IInv => TypeOK
  BY DEF IInv
<1>2. QED
  BY InitIInv, NextIInv, InitLimitInv, NextLimitInv, <1>1, PTL DEF Spec

\* With limiters, of MaxAttempts + 1 wrong guesses for one name, all but the
\* last within Window, the last comes a lockout later; without them a process
\* gets MaxAttempts.  Whatever other names are guessed at in between.
THEOREM SlowGuesses == Spec => []GuessesAreSlow
<1>1. LimitInv => GuessesAreSlow
  BY DEF LimitInv, GuessesAreSlow, Remembers, Slow, Budget
<1>2. QED
  BY Limited, <1>1, PTL

\* A name is refused only after MaxAttempts failures of its own.
THEOREM OwnLockouts == Spec => []LockoutIsOwn
<1>1. IInv /\ LimitInv => LockoutIsOwn
  <2> SUFFICES ASSUME IInv, LimitInv, NEW n \in Names, Refused(n)
               PROVE  Len(misses[n]) >= MaxAttempts
    BY DEF LockoutIsOwn
  <2>1. /\ now \in Nat /\ Remembers(limiter[n], misses[n], now)
        /\ ~Allow(limiter[n], now)
    BY DEF IInv, TypeOK, LimitInv, Refused, LimiterFor
  <2>2. QED
    BY <2>1, RefusedAfterFailures
<1>2. QED
  BY Limited, <1>1, PTL
=============================================================================
