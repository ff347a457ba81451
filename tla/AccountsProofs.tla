--------------------------- MODULE AccountsProofs -----------------------------
(***************************************************************************)
(* Accounts for any number of processes, names, passwords and              *)
(* configurations.  Two arguments: somebody administers because the guard  *)
(* is evaluated on the view that is changed and saved, and a process loads *)
(* only whole databases; the files are as confirmed because a command that *)
(* met no other is the only writer, so each of its steps finds the files   *)
(* as its earlier steps left them.                                         *)
(***************************************************************************)
EXTENDS Accounts, TLAPS

\* ctx.Users and the Store's map are equal when they are one map, and they
\* are one map until a reboot fails.
OneMap ==
  \A s \in Sessions :
    /\ same[s] => users[s] = stored[s]
    /\ s \notin broken => same[s]

\* Saving saves what was to be saved, as the session is busy with it.
ToBeSaved ==
  /\ Factory \in saved
  /\ \A s \in Sessions :
       pc[s] \in {"saveConfig", "saveUsers"} => users[s] \in saved

IInv ==
  /\ TypeOK
  /\ OneMap
  /\ SomebodyAdministers
  /\ ToBeSaved
  /\ FileIsWhole

USE AccountsAssumption

-----------------------------------------------------------------------------
(* Views.                                                                  *)

LEMMA ViewIsView ==
  ASSUME NEW v \in Views, NEW n \in Names, NEW a \in Accounts \cup {Absent}
  PROVE  [v EXCEPT ![n] = a] \in Views
BY DEF Views

LEMMA RoleIsView ==
  ASSUME NEW v \in Views, NEW n \in Known(v), NEW b \in BOOLEAN
  PROVE  [v EXCEPT ![n].bypass = b] \in Views
BY DEF Views, Known, Accounts

LEMMA PasswordIsView ==
  ASSUME NEW v \in Views, NEW n \in Known(v), NEW p \in Passwords
  PROVE  [v EXCEPT ![n].password = p] \in Views
BY DEF Views, Known, Accounts

LEMMA RoleIsSet ==
  ASSUME NEW v \in Views, NEW n \in Known(v), NEW b \in BOOLEAN, b
  PROVE  n \in Holders([v EXCEPT ![n].bypass = b])
<1> DEFINE w == [v EXCEPT ![n].bypass = b]
<1>1. n \in Names /\ v[n] \in Accounts
  BY DEF Views, Known
<1>2. w[n] = [v[n] EXCEPT !.bypass = b]
  BY <1>1 DEF Views
<1>3. w[n].bypass /\ w[n] \in Accounts
  BY <1>1, <1>2 DEF Accounts
<1>4. QED
  BY <1>1, <1>3 DEF Holders, Known

LEMMA PasswordIsOther ==
  ASSUME NEW v \in Views, NEW n \in Known(v), NEW p \in Passwords,
         n \in Holders(v)
  PROVE  n \in Holders([v EXCEPT ![n].password = p])
<1> DEFINE w == [v EXCEPT ![n].password = p]
<1>1. n \in Names /\ v[n] \in Accounts /\ v[n].bypass
  BY DEF Views, Known, Holders
<1>2. w[n] = [v[n] EXCEPT !.password = p]
  BY <1>1 DEF Views
<1>3. w[n].bypass /\ w[n] \in Accounts
  BY <1>1, <1>2 DEF Accounts
<1>4. QED
  BY <1>1, <1>3 DEF Holders, Known

LEMMA NobodyIsView == Nobody \in Views
BY DEF Nobody, Views

\* Changing one account keeps the holders among the others.
LEMMA OthersHold ==
  ASSUME NEW v \in Views, NEW w \in Views, NEW n \in Names,
         \A m \in Names \ {n} : w[m] = v[m]
  PROVE  Holders(v) \ {n} \subseteq Holders(w)
BY DEF Holders, Known

\* Nobody loses the last holder by an account that is not it.
LEMMA NotTheLast ==
  ASSUME NEW v \in Views, NEW w \in Views, NEW n \in Names,
         \A m \in Names \ {n} : w[m] = v[m],
         Holders(v) # {},
         Holders(v) # {n} \/ n \in Holders(w)
  PROVE  Holders(w) # {}
<1>1. Holders(v) \ {n} \subseteq Holders(w)
  BY OthersHold
<1>2. QED
  BY <1>1

-----------------------------------------------------------------------------

LEMMA InitIInv == Init => IInv
<1> SUFFICES ASSUME Init PROVE IInv
  OBVIOUS
<1>1. TypeOK
  <2>1. /\ users \in [Sessions -> Views]
        /\ stored \in [Sessions -> Views]
    BY NobodyIsView DEF Init
  <2>2. last \in [users : Views, config : Configs] /\ saved \subseteq Views
    BY DEF Init
  <2>3. pc \in [Sessions -> Places]
    BY DEF Init, Places
  <2>4. commands \in 0..MaxCommands
    BY DEF Init
  <2>5. QED
    BY <2>1, <2>2, <2>3, <2>4 DEF Init, TypeOK
<1>2. OneMap /\ SomebodyAdministers /\ ToBeSaved /\ FileIsWhole
  BY DEF Init, OneMap, SomebodyAdministers, ToBeSaved, FileIsWhole
<1>3. QED
  BY <1>1, <1>2 DEF IInv

\* A change of accounts in memory that leaves somebody in charge.
LEMMA MutateKeeps ==
  ASSUME IInv, NEW s \in Sessions, NEW v \in Views, pc[s] = "prompt",
         MutateUsers(s, v), Stays, commands' \in 0..MaxCommands,
         same[s] /\ Holders(users[s]) # {} => Holders(v) # {}
  PROVE  IInv'
<1>1. TypeOK'
  BY DEF IInv, TypeOK, MutateUsers, Stays, diskVars, history
<1>2. OneMap'
  BY DEF IInv, TypeOK, OneMap, MutateUsers, Stays, history
<1>3. SomebodyAdministers'
  BY DEF IInv, TypeOK, SomebodyAdministers, MutateUsers, Stays, diskVars,
         history
<1>4. ToBeSaved' /\ FileIsWhole'
  BY DEF IInv, TypeOK, ToBeSaved, FileIsWhole, MutateUsers, Stays, diskVars,
         history
<1>5. QED
  BY <1>1, <1>2, <1>3, <1>4 DEF IInv

\* A process that is no more.
LEMMA GoneKeeps ==
  ASSUME IInv, NEW s \in Sessions, Gone(s), commands' \in 0..MaxCommands,
         s \in opened /\ file = Nobody => hollow',
         hollow => hollow', hollow' \in BOOLEAN, mixed' \in BOOLEAN,
         UNCHANGED <<daemon, me, file, conf, overlap, last, saved>>
  PROVE  IInv'
<1>1. TypeOK'
  BY NobodyIsView DEF IInv, TypeOK, Gone, Places
<1>2. OneMap'
  BY DEF IInv, TypeOK, OneMap, Gone
<1>3. SomebodyAdministers'
  BY DEF IInv, TypeOK, SomebodyAdministers, Gone
<1>4. ToBeSaved' /\ FileIsWhole'
  BY DEF IInv, TypeOK, ToBeSaved, FileIsWhole, Gone
<1>5. QED
  BY <1>1, <1>2, <1>3, <1>4 DEF IInv

LEMMA CreateIInv ==
  ASSUME IInv, NEW s \in Sessions, NEW n \in Names, NEW p \in Passwords,
         AccountCreate(s, n, p)
  PROVE  IInv'
<1> DEFINE v == [stored[s] EXCEPT ![n] = NewAccount(p)]
<1>1. v \in Views
  BY ViewIsView DEF NewAccount, Accounts, IInv, TypeOK
<1>2. \A m \in Names \ {n} : v[m] = stored[s][m]
  BY DEF IInv, TypeOK, Views
<1>3. ASSUME same[s], Holders(users[s]) # {}
      PROVE  Holders(v) # {}
  <2>1. users[s] = stored[s] /\ n \notin Known(users[s])
    BY <1>3 DEF IInv, OneMap, AccountCreate
  <2>2. n \notin Holders(stored[s])
    BY <2>1 DEF Holders
  <2> HIDE DEF v
  <2>3. QED
    BY <1>1, <1>2, <1>3, <2>1, <2>2, NotTheLast DEF IInv, TypeOK
<1>4. pc[s] = "prompt" /\ MutateUsers(s, v) /\ Stays
      /\ commands' \in 0..MaxCommands
  BY DEF AccountCreate, Command, IInv, TypeOK
<1> HIDE DEF v
<1>5. QED
  BY <1>1, <1>3, <1>4, MutateKeeps

LEMMA DeleteIInv ==
  ASSUME IInv, NEW s \in Sessions, NEW n \in Names, AccountDelete(s, n)
  PROVE  IInv'
<1> DEFINE v == [stored[s] EXCEPT ![n] = Absent]
<1>1. v \in Views
  BY ViewIsView DEF IInv, TypeOK
<1>2. \A m \in Names \ {n} : v[m] = stored[s][m]
  BY DEF IInv, TypeOK, Views
<1>3. ASSUME same[s], Holders(users[s]) # {}
      PROVE  Holders(v) # {}
  <2>1. users[s] = stored[s] /\ Holders(users[s]) # {n}
    BY <1>3 DEF IInv, OneMap, AccountDelete, IsLastBypassRoleHolder
  <2> HIDE DEF v
  <2>2. QED
    BY <1>1, <1>2, <1>3, <2>1, NotTheLast DEF IInv, TypeOK
<1>4. pc[s] = "prompt" /\ MutateUsers(s, v) /\ Stays
      /\ commands' \in 0..MaxCommands
  BY DEF AccountDelete, Command, IInv, TypeOK
<1> HIDE DEF v
<1>5. QED
  BY <1>1, <1>3, <1>4, MutateKeeps

\* Either role command, when a role taken away was not the last one.
LEMMA SetRoleIInv ==
  ASSUME IInv, NEW s \in Sessions, NEW n \in Names, NEW b \in BOOLEAN,
         Command(s), SetRole(s, n, b), b \/ Holders(users[s]) # {n}
  PROVE  IInv'
<1>0. pc[s] = "prompt" /\ commands' \in 0..MaxCommands
  BY DEF Command, IInv, TypeOK
<1>1. CASE n \in Known(stored[s]) /\ Stays
           /\ MutateUsers(s, [stored[s] EXCEPT ![n].bypass = b])
  <2> DEFINE v == [stored[s] EXCEPT ![n].bypass = b]
  <2>1. v \in Views
    BY <1>1, RoleIsView DEF IInv, TypeOK
  <2>2. \A m \in Names \ {n} : v[m] = stored[s][m]
    BY DEF IInv, TypeOK, Views
  <2>3. b => n \in Holders(v)
    BY <1>1, RoleIsSet DEF IInv, TypeOK
  <2>4. ASSUME same[s], Holders(users[s]) # {}
        PROVE  Holders(v) # {}
    <3>1. users[s] = stored[s]
      BY <2>4 DEF IInv, OneMap
    <3> HIDE DEF v
    <3>2. QED
      BY <2>1, <2>2, <2>3, <2>4, <3>1, NotTheLast DEF IInv, TypeOK
  <2>5. MutateUsers(s, v) /\ Stays
    BY <1>1
  <2> HIDE DEF v
  <2>6. QED
    BY <1>0, <2>1, <2>4, <2>5, MutateKeeps
<1>2. CASE Gone(s) /\ UNCHANGED <<daemon, me, file, conf, hollow, overlap,
                                  mixed, last, saved>>
  <2>1. s \notin opened /\ hollow \in BOOLEAN /\ mixed \in BOOLEAN
    BY <1>0 DEF IInv, TypeOK
  <2>2. QED
    BY <1>0, <1>2, <2>1, GoneKeeps
<1>3. QED
  BY <1>1, <1>2 DEF SetRole

LEMMA PasswordIInv ==
  ASSUME IInv, NEW s \in Sessions, NEW p \in Passwords, PasswordChange(s, p)
  PROVE  IInv'
<1> DEFINE v == [stored[s] EXCEPT ![me[s]].password = p]
<1>0. me[s] \in Names /\ me[s] \in Known(stored[s])
  BY DEF IInv, TypeOK, PasswordChange
<1>1. v \in Views
  BY <1>0, PasswordIsView DEF IInv, TypeOK
<1>2. \A m \in Names \ {me[s]} : v[m] = stored[s][m]
  BY DEF IInv, TypeOK, Views
<1>3. me[s] \in Holders(stored[s]) => me[s] \in Holders(v)
  BY <1>0, PasswordIsOther DEF IInv, TypeOK
<1>4. ASSUME same[s], Holders(users[s]) # {}
      PROVE  Holders(v) # {}
  <2>1. users[s] = stored[s] /\ stored[s] \in Views
    BY <1>4 DEF IInv, OneMap, TypeOK
  <2>2. Holders(stored[s]) # {me[s]} \/ me[s] \in Holders(v)
    BY <1>3
  <2> HIDE DEF v
  <2>3. QED
    BY <1>0, <1>1, <1>2, <1>4, <2>1, <2>2, NotTheLast
<1>5. pc[s] = "prompt" /\ MutateUsers(s, v) /\ Stays
      /\ commands' \in 0..MaxCommands
  BY DEF PasswordChange, Command, IInv, TypeOK
<1> HIDE DEF v
<1>6. QED
  BY <1>1, <1>4, <1>5, MutateKeeps

LEMMA ConfigureIInv ==
  ASSUME IInv, NEW s \in Sessions, NEW c \in Configs, Configure(s, c)
  PROVE  IInv'
<1>1. TypeOK'
  BY DEF IInv, TypeOK, Configure, Command, diskVars, history
<1>2. OneMap' /\ SomebodyAdministers' /\ ToBeSaved' /\ FileIsWhole'
  BY DEF IInv, OneMap, SomebodyAdministers, ToBeSaved, FileIsWhole, Configure,
         diskVars, history
<1>3. QED
  BY <1>1, <1>2 DEF IInv

LEMMA InMemoryIInv ==
  ASSUME IInv, NEW s \in Sessions, InMemory(s)
  PROVE  IInv'
<1>1. CASE \E n \in Names, p \in Passwords : AccountCreate(s, n, p)
  BY <1>1, CreateIInv
<1>2. CASE \E n \in Names : AccountDelete(s, n)
  BY <1>2, DeleteIInv
<1>3. CASE \E n \in Names : AccountRolesAdd(s, n)
  BY <1>3, SetRoleIInv DEF AccountRolesAdd
<1>4. CASE \E n \in Names : AccountRolesRemove(s, n)
  BY <1>4, SetRoleIInv DEF AccountRolesRemove, IsLastBypassRoleHolder
<1>5. CASE \E p \in Passwords : PasswordChange(s, p)
  BY <1>5, PasswordIInv
<1>6. CASE \E c \in Configs : Configure(s, c)
  BY <1>6, ConfigureIInv
<1>7. QED
  BY <1>1, <1>2, <1>3, <1>4, <1>5, <1>6 DEF InMemory

-----------------------------------------------------------------------------
(* Processes that begin, end and reboot.                                   *)

LEMMA BootIInv ==
  ASSUME IInv, NEW s \in Sessions, Boot(s)
  PROVE  IInv'
<1>1. TypeOK'
  BY DEF IInv, TypeOK, Boot, Places, Known, diskVars
<1>2. OneMap'
  BY DEF IInv, TypeOK, OneMap, Boot
<1>3. SomebodyAdministers'
  <2>1. file # Nobody
    BY DEF Boot, Nobody, Known
  <2>2. hollow \/ Holders(file) # {}
    BY <2>1 DEF IInv, SomebodyAdministers
  <2>3. QED
    BY <2>2 DEF IInv, TypeOK, SomebodyAdministers, Boot, diskVars
<1>4. ToBeSaved' /\ FileIsWhole'
  BY DEF IInv, TypeOK, ToBeSaved, FileIsWhole, Boot, diskVars
<1>5. QED
  BY <1>1, <1>2, <1>3, <1>4 DEF IInv

LEMMA EndIInv ==
  ASSUME IInv, NEW s \in Sessions, End(s)
  PROVE  IInv'
<1>1. /\ s \in opened /\ file = Nobody => hollow'
      /\ hollow => hollow'
      /\ hollow' \in BOOLEAN
      /\ mixed' \in BOOLEAN
      /\ commands' \in 0..MaxCommands
  BY DEF End, LeavesFile, IInv, TypeOK
<1>2. QED
  BY <1>1, GoneKeeps DEF End

LEMMA RebootLeavesAllIInv ==
  ASSUME IInv, NEW s \in Sessions, RebootLeavesAll(s)
  PROVE  IInv'
<1>1. TypeOK'
  BY DEF IInv, TypeOK, RebootLeavesAll, Goes, Places, memVars, diskVars, history
<1>2. OneMap' /\ SomebodyAdministers' /\ ToBeSaved' /\ FileIsWhole'
  BY DEF IInv, TypeOK, OneMap, SomebodyAdministers, ToBeSaved, FileIsWhole,
         RebootLeavesAll, Goes, memVars, diskVars, history
<1>3. QED
  BY <1>1, <1>2 DEF IInv

LEMMA RebootFailsIInv ==
  ASSUME IInv, NEW s \in Sessions, RebootFails(s)
  PROVE  IInv'
<1>1. TypeOK'
  BY DEF IInv, TypeOK, RebootFails, Reboots, Goes, ReadsFile, Places, diskVars
<1>2. OneMap'
  BY DEF IInv, TypeOK, OneMap, RebootFails
<1>3. SomebodyAdministers'
  <2>1. hollow' \/ Holders(file) # {}
    BY DEF IInv, SomebodyAdministers, RebootFails, ReadsFile
  <2>2. QED
    BY <2>1 DEF IInv, TypeOK, SomebodyAdministers, RebootFails, Reboots, Goes,
                ReadsFile, diskVars
<1>4. ToBeSaved' /\ FileIsWhole'
  BY DEF IInv, TypeOK, ToBeSaved, FileIsWhole, RebootFails, Goes, ReadsFile,
         diskVars
<1>5. QED
  BY <1>1, <1>2, <1>3, <1>4 DEF IInv

-----------------------------------------------------------------------------
(* Commands that write files.                                              *)

LEMMA WriteMemoryIInv ==
  ASSUME IInv, NEW s \in Sessions, WriteMemory(s)
  PROVE  IInv'
<1>1. TypeOK'
  BY DEF IInv, TypeOK, WriteMemory, Command, Goes, Begins, Others, Places,
         memVars
<1>2. OneMap' /\ SomebodyAdministers' /\ ToBeSaved' /\ FileIsWhole'
  BY DEF IInv, TypeOK, OneMap, SomebodyAdministers, ToBeSaved, FileIsWhole,
         WriteMemory, Command, Goes, memVars
<1>3. QED
  BY <1>1, <1>2 DEF IInv

LEMMA SaveConfigIInv ==
  ASSUME IInv, NEW s \in Sessions, SaveConfig(s)
  PROVE  IInv'
<1>1. TypeOK'
  BY DEF IInv, TypeOK, SaveConfig, WhileSaving, Goes, Places, memVars, history
<1>2. OneMap' /\ SomebodyAdministers' /\ ToBeSaved' /\ FileIsWhole'
  BY DEF IInv, TypeOK, OneMap, SomebodyAdministers, ToBeSaved, FileIsWhole,
         SaveConfig, WhileSaving, Goes, memVars, history
<1>3. QED
  BY <1>1, <1>2 DEF IInv

LEMMA SaveUsersIInv ==
  ASSUME IInv, NEW s \in Sessions, SaveUsers(s)
  PROVE  IInv'
<1>1. TypeOK'
  BY DEF IInv, TypeOK, SaveUsers, WholeDatabase, Goes, Places, memVars
<1>2. OneMap' /\ SomebodyAdministers' /\ ToBeSaved' /\ FileIsWhole'
  BY DEF IInv, TypeOK, OneMap, SomebodyAdministers, ToBeSaved, FileIsWhole,
         SaveUsers, WholeDatabase, Goes, memVars
<1>3. QED
  BY <1>1, <1>2 DEF IInv

LEMMA EraseStartupConfigIInv ==
  ASSUME IInv, NEW s \in Sessions, EraseStartupConfig(s)
  PROVE  IInv'
<1>1. TypeOK'
  BY DEF IInv, TypeOK, EraseStartupConfig, Command, Begins, Others, memVars
<1>2. OneMap' /\ SomebodyAdministers' /\ ToBeSaved' /\ FileIsWhole'
  BY DEF IInv, TypeOK, OneMap, SomebodyAdministers, ToBeSaved, FileIsWhole,
         EraseStartupConfig, memVars
<1>3. QED
  BY <1>1, <1>2 DEF IInv

LEMMA EraseUsersIInv ==
  ASSUME IInv, NEW s \in Sessions, EraseUsers(s)
  PROVE  IInv'
<1>1. TypeOK'
  BY NobodyIsView DEF IInv, TypeOK, EraseUsers, Command, Goes, Begins, Others,
                      Truncate, Places, memVars
<1>2. OneMap' /\ SomebodyAdministers' /\ ToBeSaved' /\ FileIsWhole'
  BY DEF IInv, TypeOK, OneMap, SomebodyAdministers, ToBeSaved, FileIsWhole,
         EraseUsers, Command, Goes, Truncate, memVars
<1>3. QED
  BY <1>1, <1>2 DEF IInv

\* The second half of a restore, in either command.
LEMMA WriteDefaultsKeeps ==
  ASSUME IInv, NEW s \in Sessions, WriteDefaults(s), pc[s] # "off",
         NEW place \in {"eraseLoad", "roles"}, Goes(s, place),
         UNCHANGED <<daemon, memVars, conf, commands, history>>
  PROVE  IInv'
<1>1. TypeOK'
  BY DEF IInv, TypeOK, Goes, WriteDefaults, Places, memVars, history
<1>2. OneMap' /\ SomebodyAdministers' /\ ToBeSaved' /\ FileIsWhole'
  BY DEF IInv, TypeOK, OneMap, SomebodyAdministers, ToBeSaved, FileIsWhole,
         Goes, WriteDefaults, memVars, history
<1>3. QED
  BY <1>1, <1>2 DEF IInv

LEMMA EraseLoadIInv ==
  ASSUME IInv, NEW s \in Sessions, EraseLoad(s)
  PROVE  IInv'
<1>1. TypeOK'
  BY DEF IInv, TypeOK, EraseLoad, Goes, Repopulated, MutateUsers, ReadsFile,
         Places, diskVars
<1>2. OneMap'
  BY DEF IInv, TypeOK, OneMap, EraseLoad, Repopulated, MutateUsers
<1>3. SomebodyAdministers'
  <2>1. hollow' \/ Holders(file) # {}
    BY DEF IInv, SomebodyAdministers, EraseLoad, ReadsFile
  <2>2. QED
    BY <2>1 DEF IInv, TypeOK, SomebodyAdministers, EraseLoad, Goes, Repopulated,
                MutateUsers, ReadsFile, diskVars
<1>4. ToBeSaved' /\ FileIsWhole'
  BY DEF IInv, TypeOK, ToBeSaved, FileIsWhole, EraseLoad, Goes, Repopulated,
         MutateUsers, ReadsFile, diskVars
<1>5. QED
  BY <1>1, <1>2, <1>3, <1>4 DEF IInv

LEMMA RestoreFactoryDefaultsIInv ==
  ASSUME IInv, NEW s \in Sessions, RestoreFactoryDefaults(s)
  PROVE  IInv'
<1>1. TypeOK'
  BY DEF IInv, TypeOK, RestoreFactoryDefaults, Command, Goes, Begins, Others,
         Places, memVars
<1>2. OneMap' /\ SomebodyAdministers' /\ ToBeSaved' /\ FileIsWhole'
  BY DEF IInv, TypeOK, OneMap, SomebodyAdministers, ToBeSaved, FileIsWhole,
         RestoreFactoryDefaults, Command, Goes, memVars
<1>3. QED
  BY <1>1, <1>2 DEF IInv

LEMMA FactoryUsersIInv ==
  ASSUME IInv, NEW s \in Sessions, FactoryUsers(s)
  PROVE  IInv'
<1>1. TypeOK'
  BY NobodyIsView DEF IInv, TypeOK, FactoryUsers, Goes, Truncate, Places,
                      memVars, history
<1>2. OneMap' /\ SomebodyAdministers' /\ ToBeSaved' /\ FileIsWhole'
  BY DEF IInv, TypeOK, OneMap, SomebodyAdministers, ToBeSaved, FileIsWhole,
         FactoryUsers, Goes, Truncate, memVars, history
<1>3. QED
  BY <1>1, <1>2 DEF IInv

LEMMA FactoryRolesIInv ==
  ASSUME IInv, NEW s \in Sessions, FactoryRoles(s)
  PROVE  IInv'
<1>1. TypeOK'
  BY DEF IInv, TypeOK, FactoryRoles, Goes, Places, memVars, diskVars
<1>2. OneMap' /\ SomebodyAdministers' /\ ToBeSaved' /\ FileIsWhole'
  BY DEF IInv, TypeOK, OneMap, SomebodyAdministers, ToBeSaved, FileIsWhole,
         FactoryRoles, Goes, memVars, diskVars
<1>3. QED
  BY <1>1, <1>2 DEF IInv

LEMMA WriteFailsIInv ==
  ASSUME IInv, NEW s \in Sessions, WriteFails(s)
  PROVE  IInv'
<1>1. TypeOK'
  BY DEF IInv, TypeOK, WriteFails, Writing, Idle, Goes, LeavesFile, Places,
         memVars
<1>2. OneMap' /\ ToBeSaved'
  BY DEF IInv, TypeOK, OneMap, ToBeSaved, WriteFails, Goes, memVars
<1>3. hollow' \/ (~hollow /\ (file = Nobody => opened' = opened))
  <2>1. ~hollow' => ~hollow /\ ~(s \in opened /\ file = Nobody)
    BY DEF IInv, TypeOK, WriteFails, LeavesFile
  <2>2. s \notin opened => opened' = opened
    BY DEF WriteFails
  <2>3. QED
    BY <2>1, <2>2
<1>4. UNCHANGED <<users, file, saved>> /\ pc[s] # "off"
      /\ pc' = [pc EXCEPT ![s] = "prompt"]
  BY DEF WriteFails, Writing, Idle, Goes, memVars
<1>5. SomebodyAdministers'
  BY <1>3, <1>4 DEF IInv, TypeOK, SomebodyAdministers
<1>6. FileIsWhole'
  BY <1>3, <1>4 DEF IInv, FileIsWhole
<1>7. QED
  BY <1>1, <1>2, <1>5, <1>6 DEF IInv

LEMMA OnDiskIInv ==
  ASSUME IInv, NEW s \in Sessions, OnDisk(s)
  PROVE  IInv'
<1>1. CASE EraseWrite(s)
  BY <1>1, WriteDefaultsKeeps DEF EraseWrite
<1>2. CASE FactoryWrite(s)
  BY <1>2, WriteDefaultsKeeps DEF FactoryWrite
<1>3. QED
  BY <1>1, <1>2, WriteMemoryIInv, SaveConfigIInv, SaveUsersIInv,
     EraseStartupConfigIInv, EraseUsersIInv, EraseLoadIInv,
     RestoreFactoryDefaultsIInv, FactoryUsersIInv, FactoryRolesIInv,
     WriteFailsIInv DEF OnDisk

-----------------------------------------------------------------------------

LEMMA StutterIInv == IInv /\ UNCHANGED vars => IInv'
BY DEF IInv, TypeOK, OneMap, SomebodyAdministers, ToBeSaved, FileIsWhole, vars,
       memVars, diskVars, history

LEMMA NextIInv == IInv /\ [Next]_vars => IInv'
BY BootIInv, EndIInv, InMemoryIInv, OnDiskIInv, RebootLeavesAllIInv,
   RebootFailsIInv, StutterIInv DEF Next

LEMMA Inductive == Spec => []IInv
<1>1. QED
  BY InitIInv, NextIInv, PTL DEF Spec

\* Every variable keeps its type.
THEOREM TypeCorrect == Spec => []TypeOK
<1>1. IInv => TypeOK
  BY DEF IInv
<1>2. QED
  BY Inductive, <1>1, PTL

\* Whatever processes do to their accounts and to the files, somebody holds
\* the bypass role, unless an emptied users file was left or read.
THEOREM SomebodyTheorem == Spec => []SomebodyAdministers
<1>1. IInv => SomebodyAdministers
  BY DEF IInv
<1>2. QED
  BY Inductive, <1>1, PTL

\* The users file is always a whole database, through crashes and errors, but
\* for the time a restore has it truncated.
THEOREM WholeTheorem == Spec => []FileIsWhole
<1>1. IInv => FileIsWhole
  BY DEF IInv
<1>2. QED
  BY Inductive, <1>1, PTL

\* ctx.Users and the Store's map differ only in a process whose reboot failed.
THEOREM OneMapTheorem == Spec => []DivergeOnlyIfBroken
<1>1. IInv => DivergeOnlyIfBroken
  BY DEF IInv, OneMap, DivergeOnlyIfBroken
<1>2. QED
  BY Inductive, <1>1, PTL

-----------------------------------------------------------------------------
(* The files are as confirmed.                                             *)

\* Of two sessions that are writing, each has met the other.
Met ==
  \A s, t \in Sessions : s # t /\ Writing(s) /\ Writing(t) => s \in overlap

\* What an undisturbed command finds of its earlier steps, and of the command
\* before it in the file that it does not touch.
OnItsWay(s) ==
  /\ pc[s] = "saveUsers" => conf = config[s]
  /\ pc[s] \in {"eraseWrite", "factoryWrite"} => s \in opened
  /\ pc[s] \in {"eraseLoad", "roles"} => file = Factory
  /\ pc[s] \in {"eraseWrite", "eraseLoad"} => mixed \/ conf = last.config
  /\ pc[s] \in {"factory", "factoryWrite", "roles"} => conf = NoConfig

CInv ==
  /\ TypeOK
  /\ FilesAreAsConfirmed
  /\ Met
  /\ \A s \in Sessions : Writing(s) /\ s \notin overlap => OnItsWay(s)

LEMMA InitCInv == Init => CInv
BY InitIInv DEF Init, IInv, CInv, FilesAreAsConfirmed, Met, Writing, Idle

\* Steps of a session that writes no file, on its way nowhere.
LEMMA QuietKeeps ==
  ASSUME CInv, TypeOK', NEW s \in Sessions, ~Writing(s),
         NEW place \in Idle, pc' = [pc EXCEPT ![s] = place],
         \A t \in Sessions \ {s} : config'[t] = config[t],
         UNCHANGED <<file, conf, opened, last, overlap, mixed>>
  PROVE  CInv'
<1>1. \A t \in Sessions : Writing(t)' <=> Writing(t)
  BY DEF CInv, TypeOK, Writing, Idle
<1>2. \A t \in Sessions : Writing(t) => t # s /\ pc'[t] = pc[t]
  BY DEF CInv, TypeOK, Writing
<1>3. FilesAreAsConfirmed' /\ Met'
  BY <1>1 DEF CInv, FilesAreAsConfirmed, Met
<1>4. \A t \in Sessions : Writing(t)' /\ t \notin overlap' => OnItsWay(t)'
  BY <1>1, <1>2 DEF CInv, OnItsWay
<1>5. QED
  BY <1>3, <1>4 DEF CInv

\* A command is cut short.
LEMMA CutKeeps ==
  ASSUME CInv, TypeOK', NEW s \in Sessions, Writing(s), mixed',
         NEW place \in {"off", "prompt"}, pc' = [pc EXCEPT ![s] = place],
         \A t \in Sessions \ {s} : config'[t] = config[t],
         opened' = opened \ {s},
         UNCHANGED <<file, conf, last, overlap>>
  PROVE  CInv'
<1>1. ~Writing(s)'
  BY DEF CInv, TypeOK, Writing, Idle
<1>2. \A t \in Sessions \ {s} : pc'[t] = pc[t]
  BY DEF CInv, TypeOK
<1>3. FilesAreAsConfirmed' /\ Met'
  BY <1>1, <1>2 DEF CInv, FilesAreAsConfirmed, Met, Writing
<1>4. \A t \in Sessions : Writing(t)' /\ t \notin overlap' => OnItsWay(t)'
  BY <1>1, <1>2 DEF CInv, OnItsWay, Writing
<1>5. QED
  BY <1>3, <1>4 DEF CInv

\* A step that writes files disturbs nobody who has not met the session that
\* takes it: what is left to show is about that session.
LEMMA WriterKeeps ==
  ASSUME CInv, TypeOK', NEW s \in Sessions,
         \/ Writing(s) /\ UNCHANGED overlap
         \/ Begins(s),
         \A t \in Sessions \ {s} : pc'[t] = pc[t],
         Writing(s)' /\ s \notin overlap' => OnItsWay(s)',
         ~Writing(s)' /\ Others(s) = {} =>
           mixed' \/ (file' = last'.users /\ conf' = last'.config)
  PROVE  CInv'
<1>1. \A t \in Sessions \ {s} : Writing(t)' <=> Writing(t)
  BY DEF Writing
<1>2. \A t \in Sessions \ {s} : Writing(t) => t \in overlap'
  <2>1. CASE Writing(s) /\ UNCHANGED overlap
    BY <2>1 DEF CInv, Met
  <2>2. CASE Begins(s)
    BY <2>2 DEF Begins, Others
  <2>3. QED
    BY <2>1, <2>2
<1>3. \A t \in Sessions \ {s} : Writing(t) /\ Writing(s)' => s \in overlap'
  <2>1. CASE Writing(s) /\ UNCHANGED overlap
    BY <2>1 DEF CInv, Met
  <2>2. CASE Begins(s)
    BY <2>2 DEF Begins, Others
  <2>3. QED
    BY <2>1, <2>2
<1>4. Met'
  BY <1>1, <1>2, <1>3 DEF Met
<1>5. FilesAreAsConfirmed'
  BY <1>1 DEF FilesAreAsConfirmed, Others
<1>6. \A t \in Sessions : Writing(t)' /\ t \notin overlap' => OnItsWay(t)'
  BY <1>1, <1>2
<1>7. QED
  BY <1>4, <1>5, <1>6 DEF CInv

\* At a prompt with nobody writing, the files are as confirmed.
LEMMA AtPrompt ==
  ASSUME CInv, NEW s \in Sessions, ~Writing(s), Others(s) = {}
  PROVE  mixed \/ (file = last.users /\ conf = last.config)
<1>1. \A t \in Sessions : ~Writing(t)
  BY DEF Others
<1>2. QED
  BY <1>1 DEF CInv, FilesAreAsConfirmed

\* A session that is writing and has not met another is on its way.
LEMMA Way == \A s \in Sessions : CInv /\ Writing(s) => s \in overlap \/ OnItsWay(s)
BY DEF CInv

LEMMA InMemoryCInv ==
  ASSUME CInv, TypeOK', NEW s \in Sessions, InMemory(s)
  PROVE  CInv'
<1>1. pc[s] = "prompt"
  BY DEF InMemory, AccountCreate, AccountDelete, AccountRolesAdd,
         AccountRolesRemove, PasswordChange, Configure, Command
<1>2. /\ pc' = [pc EXCEPT ![s] = "prompt"] \/ pc' = [pc EXCEPT ![s] = "off"]
      /\ opened' = opened
  <2>1. UNCHANGED <<pc, opened>> \/ Gone(s)
    BY DEF InMemory, AccountCreate, AccountDelete, AccountRolesAdd,
           AccountRolesRemove, PasswordChange, Configure, SetRole, Stays,
           diskVars
  <2>2. pc = [pc EXCEPT ![s] = "prompt"] /\ opened = opened \ {s}
    BY <1>1 DEF CInv, TypeOK
  <2>3. QED
    BY <2>1, <2>2 DEF Gone
<1>3. /\ \A t \in Sessions \ {s} : config'[t] = config[t]
      /\ UNCHANGED <<file, conf, last, overlap, mixed>>
  BY DEF InMemory, AccountCreate, AccountDelete, AccountRolesAdd,
         AccountRolesRemove, PasswordChange, Configure, SetRole, Stays, Gone,
         CInv, TypeOK, diskVars, history
<1>4. ~Writing(s) /\ {"prompt", "off"} \subseteq Idle
  BY <1>1 DEF Writing, Idle
<1>5. QED
  BY <1>2, <1>3, <1>4, QuietKeeps

LEMMA BootCInv ==
  ASSUME CInv, TypeOK', NEW s \in Sessions, Boot(s)
  PROVE  CInv'
<1>1. /\ \A t \in Sessions \ {s} : config'[t] = config[t]
      /\ ~Writing(s) /\ "prompt" \in Idle
  BY DEF Boot, CInv, TypeOK, Writing, Idle
<1>2. QED
  BY <1>1, QuietKeeps DEF Boot, diskVars

LEMMA EndCInv ==
  ASSUME CInv, TypeOK', NEW s \in Sessions, End(s)
  PROVE  CInv'
<1>1. /\ \A t \in Sessions \ {s} : config'[t] = config[t]
      /\ pc' = [pc EXCEPT ![s] = "off"] /\ "off" \in Idle
      /\ UNCHANGED <<file, conf, last, overlap>>
      /\ opened' = opened \ {s}
      /\ mixed' = (mixed \/ Writing(s))
  BY DEF End, Gone, CInv, TypeOK, Idle
<1>2. CASE Writing(s)
  BY <1>1, <1>2, CutKeeps
<1>3. CASE ~Writing(s)
  <2>1. opened' = opened /\ mixed' = mixed
    BY <1>1, <1>3 DEF CInv, TypeOK, Writing, Idle
  <2>2. QED
    BY <1>1, <1>3, <2>1, QuietKeeps
<1>4. QED
  BY <1>2, <1>3

LEMMA RebootCInv ==
  ASSUME CInv, TypeOK', NEW s \in Sessions, RebootLeavesAll(s) \/ RebootFails(s)
  PROVE  CInv'
<1>1. /\ \A t \in Sessions \ {s} : config'[t] = config[t]
      /\ pc' = [pc EXCEPT ![s] = "prompt"] /\ "prompt" \in Idle
      /\ UNCHANGED <<file, conf, opened, last, overlap, mixed>>
      /\ ~Writing(s)
  BY DEF RebootLeavesAll, RebootFails, Reboots, Goes, CInv, TypeOK, Writing,
         Idle, memVars, diskVars, history
<1>2. QED
  BY <1>1, QuietKeeps

LEMMA WriteFailsCInv ==
  ASSUME CInv, TypeOK', NEW s \in Sessions, WriteFails(s)
  PROVE  CInv'
<1>1. \A t \in Sessions \ {s} : config'[t] = config[t]
  BY DEF WriteFails, memVars
<1>2. QED
  BY <1>1, CutKeeps DEF WriteFails, Goes

\* A command that writes files is given.
LEMMA GivenCInv ==
  ASSUME CInv, TypeOK', NEW s \in Sessions,
         \/ WriteMemory(s) \/ EraseStartupConfig(s) \/ EraseUsers(s)
         \/ RestoreFactoryDefaults(s)
  PROVE  CInv'
<1>1. ~Writing(s) /\ Begins(s)
  BY DEF WriteMemory, EraseStartupConfig, EraseUsers, RestoreFactoryDefaults,
         Command, Writing, Idle
<1>2. \A t \in Sessions \ {s} : pc'[t] = pc[t]
  BY DEF WriteMemory, EraseStartupConfig, EraseUsers, RestoreFactoryDefaults,
         Goes, CInv, TypeOK
<1>3. s \notin overlap' => Others(s) = {}
  BY <1>1 DEF Begins
<1>4. CASE EraseStartupConfig(s)
  <2>1. Others(s) = {} =>
          mixed' \/ (file' = last'.users /\ conf' = last'.config)
    BY <1>1, <1>4, AtPrompt DEF EraseStartupConfig, CInv, TypeOK
  <2>2. ~Writing(s)'
    BY <1>1, <1>4 DEF EraseStartupConfig, Writing
  <2>3. QED
    BY <1>1, <1>2, <2>1, <2>2, WriterKeeps
<1>5. CASE EraseUsers(s)
  <2>1. pc'[s] = "eraseWrite" /\ s \in opened' /\ UNCHANGED <<conf, last, mixed>>
    BY <1>5 DEF EraseUsers, Goes, Truncate, CInv, TypeOK
  <2>2. s \notin overlap' => OnItsWay(s)'
    BY <1>1, <1>3, <2>1, AtPrompt DEF OnItsWay
  <2>3. Writing(s)'
    BY <2>1 DEF Writing, Idle
  <2>4. QED
    BY <1>1, <1>2, <2>2, <2>3, WriterKeeps
<1>6. CASE WriteMemory(s) \/ RestoreFactoryDefaults(s)
  <2>1. pc'[s] = "saveConfig" \/ (pc'[s] = "factory" /\ conf' = NoConfig)
    BY <1>6 DEF WriteMemory, RestoreFactoryDefaults, Goes, CInv, TypeOK
  <2>2. OnItsWay(s)' /\ Writing(s)'
    BY <2>1 DEF OnItsWay, Writing, Idle
  <2>3. QED
    BY <1>1, <1>2, <2>2, WriterKeeps
<1>7. QED
  BY <1>4, <1>5, <1>6

\* It goes on.
LEMMA OnwardCInv ==
  ASSUME CInv, TypeOK', NEW s \in Sessions,
         \/ SaveConfig(s) \/ EraseWrite(s) \/ FactoryUsers(s) \/ FactoryWrite(s)
  PROVE  CInv'
<1>1. Writing(s) /\ UNCHANGED overlap
  BY DEF SaveConfig, EraseWrite, FactoryUsers, FactoryWrite, Writing, Idle,
         history
<1>2. \A t \in Sessions \ {s} : pc'[t] = pc[t]
  BY DEF SaveConfig, EraseWrite, FactoryUsers, FactoryWrite, Goes, CInv, TypeOK
<1>3. Writing(s)'
  BY DEF SaveConfig, EraseWrite, FactoryUsers, FactoryWrite, Goes, Writing,
         Idle, CInv, TypeOK
<1>4. s \notin overlap' => OnItsWay(s)
  BY <1>1, Way
<1>5. s \notin overlap' => OnItsWay(s)'
  <2>1. CASE SaveConfig(s)
    BY <2>1 DEF SaveConfig, Goes, OnItsWay, CInv, TypeOK, memVars
  <2>2. CASE EraseWrite(s)
    BY <1>4, <2>2 DEF EraseWrite, WriteDefaults, Goes, OnItsWay, CInv, TypeOK,
                      history
  <2>3. CASE FactoryUsers(s)
    BY <1>4, <2>3 DEF FactoryUsers, Truncate, Goes, OnItsWay, CInv, TypeOK
  <2>4. CASE FactoryWrite(s)
    BY <1>4, <2>4 DEF FactoryWrite, WriteDefaults, Goes, OnItsWay, CInv, TypeOK
  <2>5. QED
    BY <2>1, <2>2, <2>3, <2>4
<1>6. QED
  BY <1>1, <1>2, <1>3, <1>5, WriterKeeps

\* It is confirmed.
LEMMA ConfirmedCInv ==
  ASSUME CInv, TypeOK', NEW s \in Sessions,
         SaveUsers(s) \/ EraseLoad(s) \/ FactoryRoles(s)
  PROVE  CInv'
<1>1. Writing(s) /\ UNCHANGED overlap
  BY DEF SaveUsers, EraseLoad, FactoryRoles, Writing, Idle
<1>2. \A t \in Sessions \ {s} : pc'[t] = pc[t]
  BY DEF SaveUsers, EraseLoad, FactoryRoles, Goes, CInv, TypeOK
<1>3. ~Writing(s)'
  BY DEF SaveUsers, EraseLoad, FactoryRoles, Goes, Writing, Idle, CInv, TypeOK
<1>4. s \in overlap => mixed'
  BY DEF SaveUsers, EraseLoad, FactoryRoles
<1>5. s \notin overlap =>
        mixed' \/ (file' = last'.users /\ conf' = last'.config)
  <2>1. s \notin overlap => OnItsWay(s)
    BY <1>1, Way
  <2>2. CASE SaveUsers(s)
    BY <2>1, <2>2 DEF SaveUsers, WholeDatabase, OnItsWay
  <2>3. CASE EraseLoad(s)
    BY <2>1, <2>3 DEF EraseLoad, OnItsWay, CInv, TypeOK, diskVars
  <2>4. CASE FactoryRoles(s)
    BY <2>1, <2>4 DEF FactoryRoles, OnItsWay, diskVars
  <2>5. QED
    BY <2>2, <2>3, <2>4
<1>6. QED
  BY <1>1, <1>2, <1>3, <1>4, <1>5, WriterKeeps

LEMMA StutterCInv == CInv /\ UNCHANGED vars => CInv'
BY DEF CInv, TypeOK, FilesAreAsConfirmed, Met, Writing, OnItsWay, vars, memVars,
       diskVars, history

LEMMA NextCInv == CInv /\ TypeOK' /\ [Next]_vars => CInv'
<1> SUFFICES ASSUME CInv, TypeOK', [Next]_vars PROVE CInv'
  OBVIOUS
<1>1. CASE UNCHANGED vars
  BY <1>1, StutterCInv
<1>2. ASSUME NEW s \in Sessions, OnDisk(s) PROVE CInv'
  BY <1>2, GivenCInv, OnwardCInv, ConfirmedCInv, WriteFailsCInv DEF OnDisk
<1>3. QED
  BY <1>1, <1>2, BootCInv, EndCInv, InMemoryCInv, RebootCInv DEF Next

\* Undisturbed commands that write files leave both as they confirmed.
THEOREM ConfirmedTheorem == Spec => []FilesAreAsConfirmed
<1>1. CInv => FilesAreAsConfirmed
  BY DEF CInv
<1>2. QED
  BY InitCInv, NextCInv, TypeCorrect, <1>1, PTL DEF Spec
=============================================================================
