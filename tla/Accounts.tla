------------------------------- MODULE Accounts -------------------------------
(***************************************************************************)
(* The user database: what the CLI processes of one deployment hold in     *)
(* memory, and the files they share (users.yaml and the startup-config).   *)
(*                                                                         *)
(* Every process loads its own copy, with a daemon or without one, and     *)
(* reaches it in two ways: commands look at ctx.Users and change the map   *)
(* of the process's Store (MutateUsers), which is meant to be the same     *)
(* object.  A command that writes files is a step per file operation, as   *)
(* another process, an error or a crash may come between two of them.      *)
(*                                                                         *)
(* Of a process: an account is whether it holds the bypass role, and a     *)
(* password; the running configuration is one value.  Reading a truncated  *)
(* users file gives no accounts at all (LoadUsers accepts an empty file).  *)
(***************************************************************************)
EXTENDS Naturals

CONSTANTS
  Sessions,     \* CLI processes, each started again after it has ended
  Names,        \* user names
  Passwords,
  Absent,       \* a name without an account
  Factory,      \* etc/defaults/users.yaml
  Configs,      \* running configurations
  NoConfig,     \* the configuration without a startup-config
  MaxCommands   \* bound on the commands that change something

Accounts == [bypass : BOOLEAN, password : Passwords]
Views == [Names -> Accounts \cup {Absent}]
Nobody == [n \in Names |-> Absent]
Known(view) == {n \in Names : view[n] # Absent}
Holders(view) == {n \in Known(view) : view[n].bypass}

ASSUME AccountsAssumption ==
  /\ Absent \notin Accounts
  /\ Factory \in Views
  /\ Holders(Factory) # {}
  /\ NoConfig \in Configs
  /\ MaxCommands \in Nat

VARIABLES
  daemon,    \* a daemon is configured
  pc,        \* pc[s]: "off", "prompt", or inside a command (see Places)
  me,        \* me[s]: who is logged in
  users,     \* users[s]: what ctx.Users holds
  stored,    \* stored[s]: what the map of s's Store holds
  same,      \* same[s]: these are one map
  config,    \* config[s]: the running configuration
  file,      \* users.yaml
  opened,    \* sessions that write the users file in place and still have
             \* open the one that is at its path
  conf,      \* startup-config
  commands,  \* how many commands were given
  broken,    \* history: processes whose reboot failed half way
  hollow,    \* history: an emptied users file was left, or read
  overlap,   \* history: sessions whose command that writes files, if they are
             \* in one, met another's
  mixed,     \* history: such a command was cut short, or met another, and no
             \* undisturbed one has written both files since
  last,      \* history: the files after the last such command confirmed
  saved      \* history: the databases that were ever to be saved

memVars == <<me, users, stored, same, config>>
diskVars == <<file, opened, conf>>
history == <<broken, hollow, overlap, mixed, last, saved>>
vars == <<daemon, pc, memVars, diskVars, commands, history>>

Places ==
  {"off", "prompt",
   "saveConfig",    \* write memory: startup-config truncated
   "saveUsers",     \* write memory: writing the temporary users file
   "eraseWrite",    \* erase users: users file truncated
   "eraseLoad",     \* erase users: about to read it back
   "factory",       \* restore-factory-defaults: startup-config removed
   "factoryWrite",  \* ... users file truncated
   "roles",         \* ... users file written, restoring the roles
   "reboot"}        \* ... confirmed, about to reboot

Idle == {"off", "prompt", "reboot"}
Writing(s) == pc[s] \notin Idle

Init ==
  /\ daemon \in BOOLEAN
  /\ pc = [s \in Sessions |-> "off"]
  /\ me \in [Sessions -> Names]
  /\ users = [s \in Sessions |-> Nobody]
  /\ stored = users
  /\ same = [s \in Sessions |-> TRUE]
  /\ config = [s \in Sessions |-> NoConfig]
  /\ file = Factory
  /\ opened = {}
  /\ conf = NoConfig
  /\ commands = 0
  /\ broken = {}
  /\ hollow = FALSE
  /\ overlap = {}
  /\ mixed = FALSE
  /\ last = [users |-> Factory, config |-> NoConfig]
  /\ saved = {Factory}

-----------------------------------------------------------------------------
(* A process begins and ends.                                              *)

\* Loading what a truncation has left, or leaving it behind.
ReadsFile == hollow' = (hollow \/ file = Nobody)
LeavesFile(s) == hollow' = (hollow \/ (s \in opened /\ file = Nobody))

\* run: startup-config and users are loaded, somebody logs in.
Boot(s) ==
  /\ pc[s] = "off"
  /\ \E n \in Known(file) : me' = [me EXCEPT ![s] = n]
  /\ users' = [users EXCEPT ![s] = file]
  /\ stored' = [stored EXCEPT ![s] = file]
  /\ same' = [same EXCEPT ![s] = TRUE]
  /\ config' = [config EXCEPT ![s] = conf]
  /\ pc' = [pc EXCEPT ![s] = "prompt"]
  /\ broken' = broken \ {s}
  /\ UNCHANGED <<daemon, diskVars, commands, hollow, overlap, mixed, last,
                 saved>>

\* What is forgotten when a process is no more.
Gone(s) ==
  /\ pc' = [pc EXCEPT ![s] = "off"]
  /\ users' = [users EXCEPT ![s] = Nobody]
  /\ stored' = [stored EXCEPT ![s] = Nobody]
  /\ same' = [same EXCEPT ![s] = TRUE]
  /\ config' = [config EXCEPT ![s] = NoConfig]
  /\ opened' = opened \ {s}
  /\ broken' = broken \ {s}

\* Quitting, a timeout, a farewell, a reboot, or a crash at any place.
End(s) ==
  /\ pc[s] # "off"
  /\ Gone(s)
  /\ LeavesFile(s)
  /\ mixed' = (mixed \/ Writing(s))
  /\ UNCHANGED <<daemon, me, file, conf, commands, overlap, last, saved>>

\* A command is given at the prompt.
Command(s) ==
  /\ pc[s] = "prompt"
  /\ commands < MaxCommands
  /\ commands' = commands + 1

-----------------------------------------------------------------------------
(* Commands that change accounts in memory.                                *)

Stays == UNCHANGED <<daemon, pc, me, same, config, diskVars, history>>

\* MutateUsers: the Store's map changes, ctx.Users when it is that map.
MutateUsers(s, view) ==
  /\ stored' = [stored EXCEPT ![s] = view]
  /\ users' = IF same[s] THEN [users EXCEPT ![s] = view] ELSE users

WithoutHash(p) == [bypass |-> FALSE, password |-> Absent]
NewAccount(p) == [bypass |-> FALSE, password |-> p]

AccountCreate(s, n, p) ==
  /\ Command(s)
  /\ n \notin Known(users[s])
  /\ MutateUsers(s, [stored[s] EXCEPT ![n] = NewAccount(p)])
  /\ Stays

NeverTheLast(s, n) == FALSE
IsLastBypassRoleHolder(s, n) == Holders(users[s]) = {n}

AccountDelete(s, n) ==
  /\ Command(s)
  /\ n \in Known(users[s])
  /\ ~IsLastBypassRoleHolder(s, n)
  /\ MutateUsers(s, [stored[s] EXCEPT ![n] = Absent])
  /\ Stays

\* The closure takes the account from the Store's map.  Without one there it
\* dereferences nil, on the Store's goroutine, and the process is gone.
SetRole(s, n, held) ==
  \/ /\ n \in Known(stored[s])
     /\ MutateUsers(s, [stored[s] EXCEPT ![n].bypass = held])
     /\ Stays
  \/ /\ n \notin Known(stored[s])
     /\ Gone(s)
     /\ UNCHANGED <<daemon, me, file, conf, hollow, overlap, mixed, last,
                    saved>>

AccountRolesAdd(s, n) ==
  /\ Command(s)
  /\ n \in Known(users[s]) \ Holders(users[s])
  /\ SetRole(s, n, TRUE)

AccountRolesRemove(s, n) ==
  /\ Command(s)
  /\ n \in Holders(users[s])
  /\ ~IsLastBypassRoleHolder(s, n)
  /\ SetRole(s, n, FALSE)

\* The session's own account, once the authentication provider, which has the
\* Store's map, knows the current password.
PasswordChange(s, p) ==
  /\ Command(s)
  /\ me[s] \in Known(users[s]) \cap Known(stored[s])
  /\ p # users[s][me[s]].password
  /\ MutateUsers(s, [stored[s] EXCEPT ![me[s]].password = p])
  /\ Stays

\* Any command of the product.
Configure(s, c) ==
  /\ Command(s)
  /\ c # config[s]
  /\ config' = [config EXCEPT ![s] = c]
  /\ UNCHANGED <<daemon, pc, me, users, stored, same, diskVars, history>>

-----------------------------------------------------------------------------
(* Commands that write files.  An early return on an error leaves the      *)
(* session at its prompt with what was done so far.                        *)

Goes(s, place) == pc' = [pc EXCEPT ![s] = place]
Others(s) == {t \in Sessions \ {s} : Writing(t)}
Begins(s) ==
  overlap' = IF Others(s) = {} THEN overlap \ {s}
                               ELSE overlap \cup {s} \cup Others(s)

\* write memory.  The startup-config is rewritten in place.
WriteMemory(s) ==
  /\ Command(s)
  /\ Goes(s, "saveConfig")
  /\ Begins(s)
  /\ conf' = NoConfig
  /\ saved' = saved \cup {users[s]}
  /\ UNCHANGED <<daemon, memVars, file, opened, broken, hollow, mixed, last>>

\* What the users file holds while SaveUsers writes: a temporary file is used.
Truncated == Nobody
WhileSaving == file

SaveConfig(s) ==
  /\ pc[s] = "saveConfig"
  /\ Goes(s, "saveUsers")
  /\ conf' = config[s]
  /\ file' = WhileSaving
  /\ UNCHANGED <<daemon, memVars, opened, commands, history>>

\* The rename puts another file at the path: one that is being written in
\* place is not the users file any more.
NotAtAll(s) == file
WholeDatabase(s) == users[s]
SaveUsers(s) ==
  /\ pc[s] = "saveUsers"
  /\ Goes(s, "prompt")
  /\ file' = WholeDatabase(s)
  /\ opened' = {}
  /\ last' = [users |-> users[s], config |-> config[s]]
  /\ mixed' = (s \in overlap)
  /\ UNCHANGED <<daemon, memVars, conf, commands, broken, hollow, overlap,
                 saved>>

EraseStartupConfig(s) ==
  /\ Command(s)
  /\ Begins(s)
  /\ conf' = NoConfig
  /\ last' = [last EXCEPT !.config = NoConfig]
  /\ mixed' = (mixed \/ s \in overlap')
  /\ UNCHANGED <<daemon, pc, memVars, file, opened, broken, hollow, saved>>

\* restoreFromDefaults: the users file is truncated, then written.
Truncate(s) ==
  /\ file' = Nobody
  /\ opened' = opened \cup {s}

WriteDefaults(s) ==
  /\ file' = IF s \in opened THEN Factory ELSE file
  /\ opened' = opened \ {s}

EraseUsers(s) ==
  /\ Command(s)
  /\ Goes(s, "eraseWrite")
  /\ Begins(s)
  /\ Truncate(s)
  /\ UNCHANGED <<daemon, memVars, conf, broken, hollow, mixed, last, saved>>

EraseWrite(s) ==
  /\ pc[s] = "eraseWrite"
  /\ Goes(s, "eraseLoad")
  /\ WriteDefaults(s)
  /\ UNCHANGED <<daemon, memVars, conf, commands, history>>

\* The map is cleared and filled again, and stays the same map.
Reassigned(s, view) ==
  /\ users' = [users EXCEPT ![s] = view]
  /\ UNCHANGED stored
Repopulated(s, view) == MutateUsers(s, view)

EraseLoad(s) ==
  /\ pc[s] = "eraseLoad"
  /\ Goes(s, "prompt")
  /\ Repopulated(s, file)
  /\ ReadsFile
  /\ last' = [last EXCEPT !.users = Factory]
  /\ mixed' = (mixed \/ s \in overlap)
  /\ UNCHANGED <<daemon, me, same, config, diskVars, commands, broken, overlap,
                 saved>>

RestoreFactoryDefaults(s) ==
  /\ Command(s)
  /\ Goes(s, "factory")
  /\ Begins(s)
  /\ conf' = NoConfig
  /\ UNCHANGED <<daemon, memVars, file, opened, broken, hollow, mixed, last,
                 saved>>

FactoryUsers(s) ==
  /\ pc[s] = "factory"
  /\ Goes(s, "factoryWrite")
  /\ Truncate(s)
  /\ UNCHANGED <<daemon, memVars, conf, commands, history>>

FactoryWrite(s) ==
  /\ pc[s] = "factoryWrite"
  /\ Goes(s, "roles")
  /\ WriteDefaults(s)
  /\ UNCHANGED <<daemon, memVars, conf, commands, history>>

FactoryRoles(s) ==
  /\ pc[s] = "roles"
  /\ Goes(s, "reboot")
  /\ last' = [users |-> Factory, config |-> NoConfig]
  /\ mixed' = (s \in overlap)
  /\ UNCHANGED <<daemon, memVars, diskVars, commands, broken, hollow, overlap,
                 saved>>

\* An error in any of these.
WriteFails(s) ==
  /\ Writing(s)
  /\ Goes(s, "prompt")
  /\ opened' = opened \ {s}
  /\ LeavesFile(s)
  /\ mixed' = TRUE
  /\ UNCHANGED <<daemon, memVars, file, conf, commands, broken, overlap, last,
                 saved>>

-----------------------------------------------------------------------------
(* reboot, when the session goes on after it (else it is an End).          *)

Reboots(s) == pc[s] \in {"prompt", "reboot"}

\* The daemon was asked, and has agreed or not; or the first file could not
\* be read.
RebootLeavesAll(s) ==
  /\ pc[s] = "reboot"
  /\ Goes(s, "prompt")
  /\ UNCHANGED <<daemon, memVars, diskVars, commands, history>>

\* reloadFromDisk has installed the users when the roles or a line of the
\* startup-config fail.
RebootFails(s) ==
  /\ Reboots(s)
  /\ pc[s] = "prompt" => commands < MaxCommands
  /\ commands' = IF pc[s] = "prompt" THEN commands + 1 ELSE commands
  /\ ~daemon
  /\ Goes(s, "prompt")
  /\ users' = [users EXCEPT ![s] = file]
  /\ same' = [same EXCEPT ![s] = FALSE]
  /\ \E c \in {config[s], conf} : config' = [config EXCEPT ![s] = c]
  /\ broken' = broken \cup {s}
  /\ ReadsFile
  /\ UNCHANGED <<daemon, me, stored, diskVars, overlap, mixed, last, saved>>

-----------------------------------------------------------------------------

InMemory(s) ==
  \/ \E n \in Names :
       \/ AccountDelete(s, n) \/ AccountRolesAdd(s, n) \/ AccountRolesRemove(s, n)
       \/ \E p \in Passwords : AccountCreate(s, n, p)
  \/ \E p \in Passwords : PasswordChange(s, p)
  \/ \E c \in Configs : Configure(s, c)

OnDisk(s) ==
  \/ WriteMemory(s) \/ SaveConfig(s) \/ SaveUsers(s) \/ EraseStartupConfig(s)
  \/ EraseUsers(s) \/ EraseWrite(s) \/ EraseLoad(s)
  \/ RestoreFactoryDefaults(s) \/ FactoryUsers(s) \/ FactoryWrite(s)
  \/ FactoryRoles(s) \/ WriteFails(s)

Next ==
  \E s \in Sessions :
    \/ Boot(s) \/ End(s) \/ InMemory(s) \/ OnDisk(s)
    \/ RebootLeavesAll(s) \/ RebootFails(s)

Spec == Init /\ [][Next]_vars

-----------------------------------------------------------------------------
(* Properties.                                                             *)

TypeOK ==
  /\ daemon \in BOOLEAN
  /\ pc \in [Sessions -> Places]
  /\ me \in [Sessions -> Names]
  /\ users \in [Sessions -> Views]
  /\ stored \in [Sessions -> Views]
  /\ same \in [Sessions -> BOOLEAN]
  /\ config \in [Sessions -> Configs]
  /\ file \in Views
  /\ opened \subseteq {s \in Sessions : pc[s] \in {"eraseWrite", "factoryWrite"}}
  /\ conf \in Configs
  /\ commands \in 0..MaxCommands
  /\ broken \subseteq {s \in Sessions : pc[s] # "off"}
  /\ hollow \in BOOLEAN
  /\ overlap \subseteq Sessions
  /\ mixed \in BOOLEAN
  /\ last \in [users : Views, config : Configs]
  /\ saved \subseteq Views

\* The guard of "account delete" and "account roles remove" closes off "the
\* one unrecoverable mistake" (runAccountDelete): as long as no emptied users
\* file was left or read, every process and the users file, however they were
\* edited, saved over each other, erased, rebooted or cut short, have somebody
\* who holds the bypass role.
SomebodyAdministers ==
  hollow \/
    /\ \A s \in Sessions : pc[s] # "off" => Holders(users[s]) # {}
    /\ Holders(file) # {} \/ (file = Nobody /\ opened # {})

\* "An interrupted write or a full disk never leaves a half-written file"
\* (SaveUsers): unless restoring the defaults empties it, which does not go
\* through SaveUsers, the users file is at any moment a whole database that
\* some session meant to save, or the defaults.
FileIsWhole == file \in saved \/ (file = Nobody /\ (hollow \/ opened # {}))

\* "ctx.Users and that Store can never diverge" (authenticateSession), as
\* "both callers" of reloadFromDisk "end the process immediately afterward".
NeverDiverge == \A s \in Sessions : users[s] = stored[s]

\* They do so in no other way than by a reboot that failed half way.
DivergeOnlyIfBroken ==
  \A s \in Sessions \ broken : same[s] /\ users[s] = stored[s]

\* What "write memory", the erasing commands and the factory reset confirmed is
\* what the next start finds, in both files together.  This is only lost when
\* such a command is cut short or meets another session's, and the next
\* undisturbed one that writes both files makes it good.
FilesAreAsConfirmed ==
  mixed \/ (\E s \in Sessions : Writing(s)) \/
    (file = last.users /\ conf = last.config)
=============================================================================
