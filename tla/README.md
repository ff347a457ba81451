# TLA+ specifications of routercli

routercli is a library for router-like command lines (command tree, levels,
authentication, paging, completion), an example CLI built on it, and an
optional daemon, `routerclid`, that several CLI processes attach to so that
they share one state.  This directory specifies its core: the daemon, its clients,
the channel between them and the state they share; how a session comes to be;
what a typed line means and what may run; and the session itself, with its
levels, modes, passwords, accounts and timeouts.  The
specifications are checked with TLC, the theorems with TLAPS.  Paths below are
relative to the repository.

    tlc -config Daemon.cfg MCDaemon.tla      checks one instance
    tlapm SharedObjectProofs.tla             checks the proofs of one module

## Inventory

Each entry gives the state, the operations, the interactions, what is hard,
and what makes the component correct.  *Left out* is
explained under "Not modelled".

| component | source | here |
|---|---|---|
| Store | `daemon/store.go` | Store, StoreSpec, SharedObjectProofs |
| Session directory | `daemon/sessions.go` | SessionDirectory, Daemon, DaemonProofs |
| Daemon server, listener | `daemon/server.go`, `socket.go`, `peercred.go` | DaemonServer, Daemon, DaemonProofs |
| routerclid process | `example/cmd/multiuser/main.go` | DaemonServer, Daemon, DaemonProofs |
| Remote client | `daemon/remoteclient.go`, `connectedclient.go` | RemoteClient, Daemon, DaemonProofs |
| Armored channel, daemon identity | `armorchan/`, `daemon/identity.go` | ArmorChannel, RecordStream, ArmorProofs; Connection |
| Delayed reboot | `command/reload.go` | PendingReload, SharedObjectProofs |
| Dispatch loop | `example/main.go` | RunLoop, RunLoopProofs (levels, time); CommandLine, CommandLineProofs (gates); PendingReload (its race with a timer) |
| Command tree and levels | `command/treestructure.go`, `commandlevelstack.go` | TreeStructure, RunLoop, RunLoopProofs, CommandLine, CommandLineProofs |
| Tree loading and verification | `command/loader.go`, `verify.go`, `prune.go`, `registry.go` | CommandLine, CommandLineProofs |
| Resolution, roles, arguments, aliases | `command/command.go`, `roles.go`, `alias.go`, `example/cmd/core/cmd_alias.go` | CommandTree, CommandLine, CommandLineProofs |
| Completion and help | `completer/completer.go`, `command/help.go` | CommandTree, CommandLine, CommandLineProofs |
| Pager, pipeline, tokenizer, input checks | `paging/`, `tokenize/`, `sanitize/` | CommandLine (what they refuse) |
| Attempt limiter | `auth/ratelimit.go` | RateLimiter, CommonLemmas, RunLoop, RunLoopProofs, Login, LoginProofs |
| Startup-config replay | `command/replay.go` | RunLoop, CommandLine |
| Level passwords, audit switch | `example/cmd/core/cmd_password_manager.go`, `cmd_audit.go`, `auditlog/` | RunLoop |
| Authentication, providers, password policy | `auth/login.go`, `auth.go`, `totp.go`, `mfa.go`, `hostauth.go`, `provider.go`, `password_policy.go`, `example/cmd/core/cmd_password.go`, `cmd_totp.go` | Login, LoginProofs |
| User database, admin commands | `auth/users.go`, `example/cmd/core/cmd_admin.go`, `example/cmd/product/cmd_startup_config.go` | Accounts, AccountsProofs |
| Configuration file | `config/` | Login (sources of identity) |
| Wire encoding, translations, product commands | `daemon/protocol.go`, `i18n/`, `example/cmd/product/` | left out, but for one step on the product state (Accounts) |

**Store.** State: one value, a queue-less request channel, `stop` and
`stopped` channels.  Operations: `Do` (submit a function, wait for its
result), `run` (the one goroutine that applies functions), `Close`.
Interactions: every reader and writer of daemon state goes through it.  Hard:
both cases of a `select` may be ready; `Do` may answer "closed" although its
function ran; several callers of `Close`.  Correct: functions never overlap,
an answer is the caller's own update and stays in place, nothing runs after
`Close`, and everybody gets an answer.

**Session directory.** State: a map from session ID to who is attached, with
a one-slot farewell channel each.  Operations: `Register`, `Unregister`,
`Farewell`, `BroadcastFarewell`, `List`, `Touch`, each one function run by a
Store.  Correct: it lists exactly sessions that are being served; a targeted
farewell reaches exactly one session or none.

**Daemon server.** State: the connection slots, the canonical state in a
Store, the reload function; per connection a goroutine running
`serveConnection` and a watcher of its farewell channel.  Operations: the
accept loop `Serve` (handshake in the loop itself), one handler per message
kind, `TriggerReboot` (SIGHUP), `Shutdown` (SIGTERM).  Interactions: the
directory pushes to the watcher, the watcher closes the connection under the
loop, a reboot request from one session ends all.  Hard: answer and farewell
race on one connection; two reboots overlap; each of many ways out must give
back the slot, the registration and the watcher; nothing joins the goroutines
at exit.

**Remote client.** State: the connection, `respCh`, `done`, the farewell
channel, a mutex allowing one call at a time.  Operations: `Hello`, calls,
audit events, `Close`, the read loop, `fail`.  Hard: answers carry no tag;
answer and end of connection may both be ready; `fail` comes from several
goroutines.  Correct: every call returns, an answer is to the call that is
waiting, the session is told of its end once.

**Armored channel.** State: the daemon's static key in memory and in two files;
per connection and end the ephemeral key, the derived keys, a counter and a
fault flag for each direction.  Operations: create or load the key, write the
`.pub` file, dial, the two halves of the handshake, `Send`, `Receive`, close.
Hard: counters at their limit, a failed write that leaves its counter behind, a
crash between two files, frames damaged, lost or repeated, also from an earlier
connection.  Correct: each direction is an ordered stream, the two ends have
the same keys, no nonce is used twice, a fault is final.

**Delayed reboot.** State: at most one timer, a one-slot fire channel.
Operations: `Schedule`, `Cancel`, the callback, the dispatch loop's read.
Hard: the callback runs on its own goroutine; `Stop` does not prevent one that
has started; the mutex is released before the send.  Correct: a withdrawn
reboot never happens, one that fell due is not lost.

**Dispatch loop.** State: where the session is (`Session.CommandLevel` with the
time it was entered, and the position, a stack of frames).  Operations: read a
line (or be idle, told to go, rebooted), measure it against the elevation
timeout, resolve it in the tree of the frame on top, pass the gates, run it,
record it, go on or quit.  Hard: the timeout lowers the level while modes stay
on the stack; the audit log may be switched by the command being recorded.

**Command tree and levels.** State: a tree per level, built once from the
manifest; per level its password, the time it was last proved and a limiter.
Operations: `EnterCommandLevel` and `ExitCommandLevel` replace the root frame,
modes push a frame, "exit" pops one, "end" pops all and leaves levels down to
exec.  Interactions: level and position are kept by different code.  Hard:
a password is waived in four ways (replay, no password, the level's own grace
period, a bypass level's trust), and each must leave the marks that decide
later waivers as it should.  Correct: level and position agree, and a level
with a password is reached only after a password was typed.

**Attempt limiter.** State: the failures in a moving window and the end of a
lockout.  Correct: wrong passwords come no faster than the settings say,
however they fall.

**Startup-config replay.** State: a flag that waives passwords.  Runs at boot
and, by "reboot", in the middle of a session; may stop at any line.  Correct:
it leaves the session at the base level and nobody trusted.

**Level passwords and audit switch.** Setting and clearing the password of the
current level; turning the audit log on and off.  Hard: which commands are
recorded when one of them moves the switch.

**Authentication.** State: the users as the process read them, a limiter per
name tried, the counter of consumed codes per account.  Operations: the login
prompt, the code of the host's account, the forced and the voluntary password
change, enabling and disabling a second factor, write memory.  Interactions:
processes meet in the users file; tree pruning decides which commands exist.
Hard: names change between attempts, a prompt fails or is given up half way,
counters live in memory until they are saved, boundaries of a moving window.
Correct: a session has proved all its account asks for, a code is spent once,
guesses are slow, and nobody is locked out by another's failures.

**Trees, lines and gates.** State: the tree of each level and the entries'
subcommands, shared between levels, changed in place at startup; the aliases of
each level; the limiter of each entry with a password.  Operations: load,
merge, verify, prune, attach limiters; replay; a line through filters, aliases,
resolution, gates, password and handler; Tab, "?" and "help".  Hard:
abbreviation, aliases and Tab all reinterpret a line; gates stand on both sides
of a password prompt; five listings filter separately; what a flag removes may
be inherited, nested or the target of something else.  Correct: a handler runs
only past its own entry's gates, aliases and Tab keep what a line means, a
disabled command is gone everywhere, hidden and vendor commands are named only to
who types their names, and no listing names a gated one.

**User database and admin commands.** State: in every process, ctx.Users and
the Store's users (one map), and the running configuration; on disk, users and
startup-config.  Operations: create, delete, empower an account, change a
password (memory only), write memory, erase users or startup-config, factory
defaults, reboot.  Interactions: processes meet only in the files, with a daemon
too.  Hard: commands read one map and write the other; a command is several file
operations, and an error, a crash or another process comes between; the last
account that can administer.  Correct: the maps stay one, somebody can always
administer, the users file is whole, and what was confirmed is on disk.

## Modules

**ArmorChannel** is `armorchan/` with `daemon/identity.go`: one client and one
daemon that connect again and again.  `stage[e]` is where an end is (`keyed`
has read the `.pub` file, `waiting` is in the handshake), `hand[e]` the three
public keys its channel keys are derived from, `wire[e]` the frames on their way
to it.  Cryptography is symbolic: a key is known by what it is derived from, and
a frame opens only under its key and count.  `Damage`, `Lose` and `Repeat` are
the wire; `Repeat` may use any frame that ever went that way.  `DaemonStops` may
come between the two files of `CreateKey` and `WritePublicKey`.  A failed `Send`
may have written part of its frame.  **RecordStream** is what the package
promises, an ordered stream each way; ArmorChannel implements it.

**Connection** is that channel as the daemon's modules use it, one accepted
socket: `up` and `down` are the messages in flight, `cliOpen` and `srvOpen` the
two ends.
`Send` to a connection either end has closed fails; `Receive` fails when its
own end is closed, and, when the peer has closed, after what is in flight has
been read.  Closing an end throws away what that end has not read.

**SessionDirectory** extends it with the registry.  Its operations are single
steps because each is one function run by a Store, and Store is shown to be an
atomic object.  A session is its own identifier.

**DaemonServer** adds the daemon.  `srv[s]` is where the goroutine of
connection `s` is:

| `srv[s]` | in `daemon/server.go` |
|---|---|
| `none`, `queued`, `handshake` | not dialled, in the listen queue, in `AcceptAndHandshake` |
| `hello` | waiting for `KindHello` |
| `greet` | registered, about to send `HelloResponse` |
| `loop` | `Receive` in the message loop |
| `replace` | a reboot request has run `reload`, not yet `replaceState` |
| `reply` | a handler is about to send its answer (kept in `reply[s]`) |
| `broadcast` | a reboot was answered, about to call `BroadcastFarewell` |
| `leave`, `close`, `gone` | deferred `Unregister`, deferred `Close` and slot release, returned |

`watcher[s]` is the farewell goroutine (`select`, `send`, `close`, `done`) and
`sig` the signal goroutine.  The canonical state is represented by the version
of the files it was loaded from, since a reboot replaces it wholesale.  Where a
handler only reads its message and answers (listing, audit event, refusal), the
two are one step: nothing it touches is shared.  Where it changes something
first (disconnect, reboot), the change, the answer and the broadcast are steps
of their own, because other goroutines come between.

**RemoteClient** is the CLI's end: `cl[s]` is the dispatch goroutine,
`reader[s]` the read loop, `told[s]` the farewell channel.  `done` is closed
exactly when `told` is filled, as both happen in `fail`.

**Daemon** joins the two ends, adds what people do, and states the properties.
**MCDaemon** is the instance: two sessions of one user.

**StoreSpec** is what a Store promises: an object with one value; a call takes
effect in one step between its start and its return; after the end it answers
"closed".  **Store** is `store.go`: the caller's position in `Do`, the writer's
position in `run`, the result channels, `stop` and `stopped`.  It implements
StoreSpec (`ImplementsStoreSpec`): a call takes effect when its function
finishes.  A call may take effect and still be answered "closed", and StoreSpec
allows exactly that.

**PendingReload** is `reload.go` with the part of the dispatch loop that reads
the fire channel.  Each `Schedule` makes a timer of its own.  A callback is two
steps, `Check` under the mutex and `Send` after it.

**TreeStructure** is the manifest as constants and the trees `LoadTreeStructure`
builds from it: a level's own commands, those inherited without the ones that
switch levels (`Inherited`), and the common ones.  Its assumptions are what
`verifyLevelHierarchy` accepts (`Hierarchy`; that no level is above itself is
stated as a rank, `LevelsRank`), and two facts about how tree files are written
(`TreeFiles`).

**RateLimiter** is `auth/ratelimit.go` as functions of a limiter and the time.
`CommonLemmas` shows once, for one limiter and the list of all failures it
was told of, what RunLoop (a limiter for each level) and Login (one for each
name) promise.

**RunLoop** extends both with one CLI process.  One goroutine does all of it, so
a command is one step; what comes in between is time.  `phase` says what the
process is doing:

| `phase` | in the code |
|---|---|
| `"boot"` | `LoadStartupConfig` before the first prompt |
| `"reading"` | `readLine`; time passes, the session may be ended |
| `"line"` | a line was read and measured against the elevation timeout |
| a level's name | `PromptSecret` inside `EnterCommandLevel`; time passes |
| `"reboot"` | `LoadStartupConfig` inside the "reboot" command |
| `"ended"` | the process is over |

`level` and `enteredAt` are the session's fields, `stack` the names of the
position's frames.  `Running(c)` says that a line `c` resolves in the tree of
the frame on top, or that a replay runs it; `Finish(c)` is what the loop does
afterwards.  `EnterWaived` and `AskPassword` are the branches of the switch in
`EnterCommandLevel`, `RightPassword` and `WrongPassword` the two ends of the
prompt.  Every way a line can fail without effect is `Refused`; roles are one
of its reasons.  Time is a counter that starts at 1, as 0 stands for the zero
`time.Time`.  **MCRunLoop** is part of the shipped manifest.

**Accounts** is the user database in several processes.  `users[s]` is what
ctx.Users holds, `stored[s]` the map in the process's Store, `same[s]` whether
they are one: commands look at the first and change the second, and where that
fails to be the same shows in the properties.  The processes share `file`
(users.yaml) and `conf` (startup-config).  A command that writes files is a step
per file operation, named by `pc[s]` (see `Places`); `End` may come anywhere and
is a crash there, `WriteFails` is an error return.  A file that is written in
place is empty until it is written, and `opened` is who writes the users file
that way: a rename by another process takes it from under them.  An account is
its bypass role and its password, a name without one is `Absent`; other roles
and fields change no guard here.  The level and roles a command needs are
RunLoop's matter; here anybody logged in may give any command.  **MCAccounts** is
two processes, the factory's administrator and another name.

**Login** is one process after the other over one users file: `pc` is the prompt
it waits at, `who` the name, `users` what it has in memory, `limiter` the
limiters by name.  The clock counts steps of the codes (30 seconds), a code is a
secret and a step.  `admitted` is false while a password change is forced.
`Boot`, `End` (at any moment) and `WriteMemory` are the life of a process.
**MCLogin** has an account with a first password to change, one with a second
factor, a name without an account, and six settings.

**CommandTree** is what words refer to: `Resolve` as a walk whose steps are its
branches, arguments, roles, the listings and what Tab writes.  A tree is a
function from words to entries, `kids` the subcommands of each entry; the fields
of an entry are constants, as nothing writes them after loading.
**CommandLine** puts it to use.  `stage` goes through `loadCommandLevels` in
order (`load`, `reachable`, `prune`, `limit`, `levels`, `vendor`, `roles`), then
`replay`, `reading`, `secret` (a command's password is awaited) and `ran`;
`failed` and `crashed` are ends.  `trees`, `kids` and `limited` are what startup
builds, `aliases` what sessions and replays define.  Where a handler takes the
session is RunLoop's matter, so here it may be any level it can lead to, and any
handler may fail.  **MCLine** has the entries of the shipped tree files that
differ in how they are found or gated, three deployments that start and ten with
one thing wrong.

History variables, which the code does not have: `granted` (requests the daemon
has carried out), `overtaken` (a reboot that another passed between reading the
files and installing them), `withdrawn` and `denied` in PendingReload; in Accounts
`broken` (processes whose reboot failed), `hollow` (an emptied users file was left
or read), `overlap`, `mixed` (whether commands that write files met or were cut
short), `last` (what was confirmed) and `saved` (what was to be saved); in
RunLoop `typedAt` (when each level's password was last typed), `open` (levels
that at some time had no password) and `misses` (wrong passwords in a row); in
Login `issued`, `loaded`, `proved`, `misses`, `spent`, `again` and `saved`, as
its declarations say; `sealed`, `sent` and `got` in ArmorChannel; `ran` in
CommandLine.

## Runs

| run | asks | states |
|---|---|---|
| `store` | 2 callers of `Do` with 2 calls each, 2 callers of `Close` | 43 thousand |
| `daemon` | 2 sessions, 2 things done to the system, 1 change on disk: safety, and no goroutine left waiting | 1.2 million |
| `daemon_live` | the same with 1 thing done: what must happen does | 18 thousand |
| `pending_reload` | 3 delayed reboots scheduled, cancelled, replaced, run out | 2 thousand |
| `session` | one session on six levels while the clock runs to 5 | 1.5 million |
| `accounts` | two processes over the same files, 5 commands cut short anywhere | 1.5 million |
| `login` | two processes, one after the other, six settings, two users files | 1.6 million |
| `armor` | two connections over a faulty wire, counters of two records | 2.1 million |
| `line` | thirteen deployments, six startup-configs, 60 lines typed | 0.11 million |
| `reboot_ends_all`, `code_reused`, `pushed_level` | statements of the comments and documentation that the code does not keep | |

`store` shows that a Store is the atomic object StoreSpec (`ImplementsStoreSpec`,
which covers exclusion, lost updates and foreign results), that nothing happens
after Close (`FrozenAfterClose`), and that every call returns
(`EveryCallReturns`).

`daemon` checks that a slot is held by exactly the connections being served
(`SlotsExact`), that no ended session is listed (`DirectoryIsServed`), that the
untagged answers reach the right call (`AnswerIsForCall`), that "ok" can be
relied on (`OkMeansDone`), that the end is told once (`ToldOnce`), and that an
older state replaces a newer one only when two reboots overlap
(`OlderOnlyIfOvertaken`).  `NothingStuck` says that whenever none of the waits
of the program is over (`CanStep` lists what each goroutine waits for), none is
waiting for another; with two events it covers the pairs of things that meet
badly (a farewell while a request is served, a kill during a reboot, SIGTERM
during a disconnect).  `WaitsAreExact` says that the list is right: a goroutine
that has what it waits for is enabled, and no other is.  In particular the end
of the process waits for no connection.

`daemon_live` checks that the program does not keep itself busy (`StepsRunOut`:
each of its own steps lowers what one of its goroutines owes, `Owes`, and raises
what none does), that a call returns (`CallReturns`), that a session that was
told to go does (`ToldSessionEnds`), that a silent peer does not hold up the
queue and slots come back (`PlaceIsGivenUp`), and that a shutdown reaches
everybody (`ShutdownTellsAll`).  `pending_reload` checks that a withdrawn reboot
never takes place and that one that fell due does.

`session` checks that the session's level and its position agree
(`PositionAgrees`), with the one exception the elevation timeout makes; that a
level with a password has been earned by a typed one, whatever was replayed,
waived or timed out in between (`NoUnearnedLevel`); that wrong passwords are
slowed down across lockouts and ageing failures (`AttemptsAreSlow`); and that
both switches of the audit log are in it (`SwitchIsAudited`).

`accounts` checks that the guard of the last administrator is enough for every
process and the file (`SomebodyAdministers`), that the file is whole at any
moment (`FileIsWhole`), that only a failed reboot parts a session from its Store
(`DivergeOnlyIfBroken`), and that both files are as the last undisturbed command
confirmed (`FilesAreAsConfirmed`).  The first two except the one thing that
defeats them, a users file emptied by restoreFromDefaults.

`login` checks that nobody is in a session without all its account asks for
(`SessionIsEarned`), that a consumed code is not consumed again, in this process
or one that starts from a later save (`NoCodeTwice`), that guesses are slow with
a limiter and few without (`GuessesAreSlow`), and that only a name's own failures
lock it (`LockoutIsOwn`).

`armor` checks that a channel is an ordered stream (`OrderedStream`, the abstract
specification), that both ends mean the same keys and the daemon the client
expects (`KeysAgree`), that no nonce is used twice under a key (`NonceOnce`), and
that a faulted direction is done (`FaultIsFinal`).

`line` checks that a handler runs only past its entry's gates (`GatesHold`), that
aliases leave every line that means something its meaning
(`AliasNeverRedirects`), that commands of disabled features are in no tree
(`FeatureOffIsGone`), that a password asked for is limited
(`PromptsAreLimited`), that Tab on a finished line leaves one that runs the same
(`TabKeepsMeaning`; a command that must be followed by a subcommand is not
finished, Tab goes on to that, and "help" is followed by a line of its own), and
where names of commands are shown (`SecretsStayUnnamed`).  No listing of "help",
"?" or Tab names a hidden, a vendor's or a forbidden entry.  Names are also shown
outside the listings: Tab writes an abbreviated word in full, "help" puts the full
name at the head of a page, and runLoop prints what an ambiguous line may mean.
There a hidden or a vendor's command is named only to who typed its name in full,
and gets its page then; roles are not looked at there at all, against what the
comments promise (`GatedStayUnnamed`, below).  (An alias of a tree file is an entry of its own, with its own hidden
flag and roles: the page under its name describes what it leads to.  Argument
hints, which "?" and Tab give for the command typed, name nothing and are left
out.)  These last two properties leave out lines with two
leading "no"s, for the reason below.

Bounds.  Two connections are the fewest that make a ceiling of one bite, make a
disconnect ambiguous and give a reboot a bystander; the ceiling is drawn from
one and two.  One of the two sessions is privileged, so refused and granted
requests both occur; two overlapping reboots are that session's and SIGHUP.
`MaxEvents` bounds what people do, counted over all sessions (requests, closes,
kills, signals); the program's own steps are not bounded.  `MaxWrites` bounds
the versions of the files: one change is enough for a newer and an older
version.  In Store, `MaxCalls` = 2 gives a caller that comes back after its
first answer; in PendingReload three schedules allow a cancelled, a replaced
and a live timer at once.  In RunLoop the two swapped levels and the two kinds
of mode, one of them nested, are the shipped manifest without levels of the
same kind (diagnostic, config-line).  The clock stops at 5: with a grace
period of 2, a trust window of 3, an elevation timeout of 1, a failure window
of 1 and a lockout of 2, each can begin, lapse and begin again; two attempts
are the fewest that tell the first failure from the last.  The clock also
bounds the wrong passwords in a row, as a lockout needs time to end; modes
bound the stack.  In Accounts two processes are the fewest that meet; five
commands let one make another administrator, try to remove the first, and still
save and erase; two passwords tell a changed database from the defaults.  In
Login two processes are the fewest that share a file; with attempts limited to
two, a window and a lockout of one step, and two steps of time, a limiter
locks, forgets and lets go, and a code is offered before, in and after its step;
`LoopBound` stands for 1000.  In ArmorChannel two connections give an earlier
frame to repeat, two static keys a key that was replaced, a counter of two
records an end of it; `MaxSealed` bounds encryptions and one fault of the wire is
enough to break any of the checks removed, as more faults only use up frames.
In CommandLine three levels are the fewest in which a command is inherited twice;
the lines are one or two for every way a line is treated.  `MaxAliases` = 2 lets
an alias meet another, `MaxLocked` = 1 lets one limiter refuse while others do
not.  Deadlock is checked
in Store only: Daemon and PendingReload rest while nobody does anything, and
`NothingStuck` says what rest must look like; a session, a login and a program
that did not start end; in Accounts an empty users file lets nobody in; the
bounds of ArmorChannel stop it.

Fairness.  In Store, a goroutine that can move does; the functions passed to
`Do` return (the code's own do).  In Daemon there is one weak fairness for all
steps of the program.  That is enough because those steps cannot go on for ever
(`StepsRunOut`) and the program rests only where nobody waits (`NothingStuck`), so
no goroutine is starved; it is also the weaker assumption.  It does not include the success of a handshake,
which depends on the peer, but does include its timeout (`HandshakeTimeout`),
and nothing makes a client connect, ask, close or die.  In PendingReload the
loop's read of the fire channel has strong fairness: Go's `select` chooses at
random among ready cases.  Typed lines may arrive for ever.  The other modules
state safety only: a person at a prompt need not answer, nor a wire deliver.

## Where the comments and the code differ

Three are runs of their own (`RebootEndsAll`, `CodeAcceptedOnce`,
`EveryLevelIsEarned`); the rest are stated, where a formula is named, as
definitions that TLC finds violated when they are put into the configuration of
the module's run, and otherwise seen while modelling.

* **A reboot may end nobody** (`RebootEndsAll`).  `serveConnection` replaces
  the canonical state, then answers, then broadcasts.  When the answer cannot
  be sent because the requester has gone, it returns before the broadcast
  (`daemon/server.go:413`), and the other sessions stay.
  `command/daemonclient.go:98` promises that a reboot ends every session.
* **An error from Reboot does not mean there was none**
  (`RebootErrorMeansNoReboot`).  The connection may end before the answer is
  read, or `select` may prefer `done` (`daemon/remoteclient.go:225`).
* **A refused cancel does not mean nothing was scheduled** (`RefusedMeansNone`).
  The callback clears the timer before it sends, so `Cancel` may report nothing
  pending while a reboot is on its way.

* **The elevation timeout leaves modes open** (`RevertsToBase`).  It sets the
  level and the root frame (`example/main.go:1485`); a session in
  "configure terminal" stays in it, and may go on to nested modes.
  `example/etc/README.md:72` says the session reverts to the base level.
* **A bypass level's trust can be prolonged without a password**
  (`TrustIsFresh`).  Re-entering it within its own grace period sets
  `LastAuthenticatedAt` (`command/treestructure.go:467`), which is also what
  `AuthBypassTrustWindow` is measured from.  Lines 351 and 375 say only a real
  password check sets it.

* **A reboot that fails parts a session from its Store** (`NeverDiverge`).
  `reloadFromDisk` assigns users before it reads the roles and the
  startup-config, on the ground that "both callers end the process"
  (`example/cmd/core/cmd_admin.go:676`); when one of those fails the session
  goes on.  Account commands are then confirmed and neither seen nor saved, and
  a role command on an account the Store does not have dereferences nil
  (`SetRole`).

* **A code is accepted again** (`CodeAcceptedOnce`).  "totp disable" and "totp
  enable" check codes without the counter (`example/cmd/core/cmd_totp.go:259`,
  `:294`), so the code of the login is good for a second use.  `auth/totp.go:94`
  and `auth/model.go:133` exclude that.  After a restart without "write memory" a
  code is also good again at the login prompt, as `auth/mfa.go:60` says and
  `auth/model.go:137` denies.
* **A pushed level asks for no password** (`EveryLevelIsEarned`).  "configure
  terminal" pushes the level config without the gates of `EnterCommandLevel`
  (`example/cmd/core/cmd_configure.go:36`); the shipped manifest gives that level a
  password, and `example/var/tree/README.md:78` and `:102` say it is asked for.
* **A gated command is named to whoever asks** (`GatedStayUnnamed`).  "help show
  va" prints the page of a "show vault" the session may not run
  (`command/help.go:503`), Tab writes its name (`completer/completer.go:166`), and
  an ambiguous "show v" lists it (`example/main.go:653`); only the listings ask
  `Authorized`.  `command/help.go:39` says such a command does not show itself
  "whichever way that session asked", and `example/main.go:199` and
  `command/model.go:338` that its name, arguments and description are kept.
* **A daemon nobody can dial** (`PublicKeyIsServed`).  When it stops between
  writing its key and its `.pub` file, no later start writes the second
  (`daemon/identity.go:48`).
* **An alias of a tree file that leads nowhere** ends the program when typed
  (`command/command.go:144`), also when a flag has removed its target; no check at
  startup looks.
* **A provider is chosen by its name**, not its type (`example/main.go:515`).

Seen while modelling: LOGIN entries are lost with a daemon (`example/main.go:1240`);
a login lockout ends with its process (`example/main.go:1226`); a password change
asks for a code with second factors turned off
(`example/cmd/core/cmd_password.go:88`); "configure ?" answers differently at the
keyboard and from a pipe (`command/help.go:186`); Tab rewrites a line with two
leading "no"s wrongly (`completer/completer.go:330`); a replay skips aliases, roles
and negation and runs a command before an ambiguous word (`command/replay.go:56`).

Further: `Serve` returns, and the daemon exits, with
connections still being served (`daemon/server.go:157`), although line 198 tells
a caller to wait on it; the defaults are restored in place
(`example/cmd/core/cmd_admin.go:502`), and an empty users file locks everybody
out; with a daemon every process still keeps its own accounts
(`daemon/connectedclient.go:17`, against `daemon/doc.go:11`), and the whole-file
save of one undoes another's; `ExitCommandLevel` does not set
`CommandLevelEnteredAt`, which `auth/model.go:94` says records when the level
last changed.

Two limits the properties state rather than hide: overlapping reboots may
install the older files last (`OlderOnlyIfOvertaken` says only then), and
`AnswerIsForCall` and `OkMeansDone` hold while the connection is up.  After
`done` is closed an answer may be left behind in `respCh`.

## Proofs

TLC checks the instances above; these hold for every value of the constants.

**SharedObjectProofs** is about the two objects that several goroutines call into.
The Store, from no assumption but those of the module (finite counters,
disjoint names): the inductive invariant `IInv` extends `TypeOK` with where a
request can be: a caller that waits has its request held by the writer or its
result in its own channel, the writer holds the request of one waiting caller
at most, `stopped` implies that the writer has left, and each answered update
is recorded in the value.  None of the stated properties is inductive without
it.  From it follow `TypeCorrect`, `Exclusion`, `NoUpdateLost`, `FreshResult`,
`Frozen` and `Refinement`, the last by showing that each step of Store is a
step of StoreSpec or leaves its variables alone.  The delayed reboot:
`ReloadInv` adds to `ReloadTypeOK` that only the pending timer counts, that a
timer that is cleared or in the fire channel was never withdrawn, and that timers
not yet made have no history.  From it `ReloadTypeCorrect`, `OneCountdown`,
`NoWithdrawnReboot`.

**DaemonProofs**, for any number of sessions, users and privileges, any ceilings
and any number of events and of versions on disk.  `IInv` is a conjunction of
named parts.  `SlotInv`: the connections in service are finitely many, and as
many as the slots taken.  `DirectoryIsServed` is inductive with the types.
`RebootInv`: a reboot that nobody has overtaken has read what is no older than
the canonical state.  `ExchangeInv` is the heart: as long as a client's end is
open and nothing has ended its session, the one exchange it may have under way is
in exactly one of four places (`OnePlace`: request on its way, being served,
answer on its way, answer handed over), wherever it is it is of the kind the
client waits for (`Wanted`), and an "ok" has been carried out (`Honest`).
Answers carry no tag, so nothing less gives `AnswerIsForCall`: that the
place before held nothing else has to be remembered at every place.  From it
`TypeCorrect`, `SlotsTheorem`, `DirectoryTheorem`, `AnswerTheorem`, `OkTheorem`,
`ToldTheorem`, `OlderTheorem`.

`RestTheorem` is `NothingStuck`.  It needs to know of everybody who waits that
somebody will come, which is `RestInv`, on top of `IInv`.  `Listens`: who is queued
is queued at an open listener, and a goroutine that has returned has closed its
end.  `Watched`: a watcher runs as long as the loop of `serveConnection` does, and
leaves either an ended loop or a closed connection behind.  `Told`: a client that
has been told, or has a farewell on its way, is parting from a daemon that has
closed its end or whose watcher is about to; until then somebody reads for it.
`Owed`: a call in progress, whose connection both ends still hold open, is in one
of the four places of `OnePlace`, or its loop is over.  The last is the converse of
what `ExchangeInv` says, and neither follows from the other: the one forbids a
second answer, the other a missing one.

`StepsTheorem` is `StepsRunOut`.  `Owes` weighs where each goroutine of a session
is and every message it has not handled, a message at more than all the steps
and answers it can lead to; a greeting outweighs the watcher it starts, a dialled
client its Hello.  There is one lemma per actor (`ServeLowers`, `WatchLowers`,
`AcceptLowers`, `ClientLowers`, `SignalLowers`).  `OwingTheorem` adds that only
finitely many sessions owe anything at a time, so the sum over them is a natural
number that every step of the program's own lowers: left to itself it comes to
rest, and by `RestTheorem` rest is where nobody waits.  What separates this from the
liveness properties of `daemon_live` is `WaitsAreExact` and the reasoning about
fairness, which are TLC's.

**CommonLemmas** holds what several of these rest on.  *Recursion*: a recursive
function of the models is a choice among the functions that satisfy its equation,
so nothing follows from it until one is shown to exist.  `Steps` (along the numbers
up to a bound) and `Descent` (from a level to its parent, by rank) show that,
`Induct` and `AlongParents` are the inductions that go with them; all speak of sets
and functions where the library's theorems have an operator for a parameter.
*Attempt limiters*, for every limit, window and lockout: a limiter forgets, so what
it promises is not about what it holds.  `Counts` says what it remembers of the
list of all failures: it holds the latest, fewer than `MaxAttempts`, and every
earlier one has aged or was followed by a lockout that is not over before its
time.  `FailureRemembers` is that recording a failure that was allowed keeps this.

**RunLoopProofs**, for every manifest, every setting of the timeouts and limits
and any length of time.  Assumed: `Hierarchy`, `TreeFiles`, `SessionAssumption`.
That the recursive definitions of TreeStructure unfold (`RawTreeDefined`,
`PathDefined`) and that "end" stops on the way up, never in a mode
(`EndsOnTheWay`), is proved along the parents.  `IInv` adds to `TypeOK`, `PositionAgrees` and
`NoUnearnedLevel` that a password is asked for with only the root frame on the
stack, which is the level's parent (the prompt is a step of its own, so the
check made before it has to be remembered), and that a level with a
`LastAuthenticatedAt` has had its password typed, which no waiver breaks.  The
lemma that carries `PositionAgrees` is `ExitCmdIsOwn`: a command that leaves a
level resolves only with that level on top, because it is not inherited.  From
it `TypeCorrect`, `PositionTheorem`, `BaseMeansBase` (without an elevation
timeout `RevertsToBase` holds, so the timeout is the only cause of the
violation) and `EarnedTheorem`.  `LimitInv`, every limiter remembers its level's
wrong passwords and the prompt on screen was allowed, gives `SlowTheorem`.
`SwitchTheorem` needs that no saved configuration has the audit commands in it
(`SessionAssumption`; `example/cmd/product/cmd_show.go:96` writes none): a replay
records nothing.

**AccountsProofs**, for any number of processes, names, passwords and
configurations; assumed is only that the defaults have a holder of the bypass
role (`AccountsAssumption`).  `IInv` adds to the properties that the two maps are
equal when they are one (so the guard, evaluated on one, protects the other) and
that a session busy saving has its view in `saved`.  From it `TypeCorrect`,
`SomebodyTheorem`, `WholeTheorem`, `OneMapTheorem`.  `CInv` is for
`ConfirmedTheorem`: of two sessions that write, each has met the other (`Met`),
so a session that met nobody is the only writer, and the files are as its
earlier steps left them (`OnItsWay`).  The lemmas `QuietKeeps`, `CutKeeps` and
`WriterKeeps` say this once for all actions.

**LoginProofs**, for any accounts, settings, number of processes and time.
`IInv` adds to `TypeOK` that a spent code is never ahead of its account's counter,
in memory or on disk (`Behind`), so what is accepted is not spent; which prompts
imply which settings; and that nothing about an account changes before the
session.  From it `TypeCorrect`, `CodesAreSpent`, `EarnedSessions`.  `LimitInv` is
that the limiter of each name remembers that name's failures and, without
limiters, that all names share one budget of attempts; with `MaxAttempts` at
least 1, which `config/config.go:313` demands of a limiter that is on, it gives
`SlowGuesses` and `OwnLockouts`.

**ArmorProofs**, for any number of connections, keys, records and faults.  `IInv`
rests on one idea: a key is derived from ephemeral keys already made (`Known`),
so one just made is in no frame and no encryption yet.  From there: what an end
has sealed lies below its count (`Counted`), a response to this client was made
by this daemon end (`Responses`), and frames under an end's key are what that end
reported as sent (`Delivered`).  From it `TypeCorrect`, `NoncesAreFresh`,
`PeerIsGenuine`, `FaultsAreFinal`, and `ChannelIsStream`, the refinement.

**CommandLineProofs**, for any tree files of any depth, deployments, accounts, and
lines, aliases and saved configurations of any length.  Every invariant of
CommandLine is a theorem.  The inductive invariant is `LineInv`, in four parts:

* `GatesInv`: while a command's password is awaited the line still means what its
  gates cleared (`Awaited`); from it `GatesAreKept`.
* `AliasInv`: an alias's name is one that no command answers to, or its expansion
  is that command; from it `AliasesAreApart` and, over the words of a line,
  `MeaningTheorem`.
* `TreesInv`: trees and subcommands stay well-formed, and of what is in a tree at
  whatever depth, only enabled commands are left after pruning, exactly those with
  a password are limited, and every vendor's command is hidden; from it `FeatureTheorem`.
* `LinesInv`: what is replayed, awaited and run is made of known words and entries
  in the trees; from it and `TreesInv`, `PromptsTheorem` and `SecretsTheorem`.

The model's recursive functions (a walk along a line, what is under a tree, the
trees of inheriting levels, the levels above one) are first shown to exist.
That every entry below a tree is found in as many rounds
as there are entries is a pigeonhole argument on the finite set of entries.
`TabTheorem` rests on `Typable`: what `Resolve` has made of a line so far, typed
again with every name in full, leads to the same place with the same arguments.
Tab writes exactly those names, in front of what `Resolve` did not consume.

Assumed (`CommandLineAssumption`): finitely many entries, levels and words; every
level but the base has a parent and is not above itself (`verifyLevelHierarchy`
checks the second, `example/var/tree/README.md:38` demands the first); no command
is called "" (the empty word is the place where nothing is typed yet) or "no"
(`example/cmd/core/cmd_alias.go:89`: "never a real command name").  No check at
startup enforces the last two; a tree file that breaks them is outside the
theorems and the runs.

Model-checked only: `WaitsAreExact`, which speaks of ENABLED; every liveness
property (the prover reasons about neither fairness nor ENABLED here); and the
violations.  The type invariants of Store, PendingReload, Daemon, RunLoop, Accounts,
Login and ArmorChannel are theorems, as are `OneAtATime`, `AnsweredUpdateStands`,
`ResultIsThisCalls` and `OnlyPendingCounts`; they are not repeated as runs.

## Plan

What would add most next:

1. *ArmorChannel* and *Connection*: that the first, while no fault occurs,
   implements the second, so that the two models of a connection are one.
2. *The saved configuration*: the lines `show running-config` writes and what
   their replay at the next start makes of them, level passwords included.

## Not modelled

The text of messages, prompts and logs, the order and layout of listings; JSON
encoding (`protocol.go` carries records as they are); refused peers and malformed
messages, which close one connection as a failed handshake does; the times and
the levels a session reports to a daemon; the errors of opening the audit file;
how a line is cut into words, what a filter does to lines of output, and the
pager's screen, which keep no state that outlives a command; YAML, the
configuration file's defaults and ranges; translations; the product state, which
is one value in Accounts.  A container that mixes commands that switch levels
with others is in no tree modelled below a level that is inherited.
