# A formal model of minecraft-afk-bot

TLA+ modules, TLC configurations and TLAPS proofs for `minecraft-afk-bot`, the
headless Bedrock client that keeps one player slot occupied and can be parked
and resumed by `minecraft-server-agent`. Paths below are relative to the
repository (`src/` in `PROJECT.json`).

Run a model with `tlc -config <run>.cfg <module>`, the proofs with `tlapm` on each
module whose name ends in `Proofs` (`TokenCacheProofs` takes a few minutes).
`PROJECT.json` lists the runs, the source lines each definition stands for, the
mistakes (`mutants`) each property is known to catch, the hazards, the findings
and the theorems.

## 1. The system

One process, a handful of goroutines, one lock of its own design and one file.

| Component | Source | State it keeps | Operations | Correct when |
|---|---|---|---|---|
| Connect loop | `cmd/bot/main.go` `runConnectLoop`, `backoff` | `delay`, `first`, the session context | ask the gate, connect, report disconnection, classify the end, release, back off | only a park skips the backoff; the delay stays in bounds; SIGTERM ends it from anywhere; it says connected only of a session it holds |
| Presence gate | `internal/presence/gate.go`, `reconciler.go` (`Admit`, `cancelOnPark`, `set`, `Connected`) | `desired`, `etag`, `connected`, `changed` under `mu` | admit or hold the loop, cancel a session on a park | no change of state is slept through; a session is let in only while present and cancelled only after a park; no watcher leaks or outlives its session |
| Presence poller | `reconciler.go` (`Run`, `poll`, `report`, `streak`, `classify`), `client.go` | the two streaks, the ETag | fetch, act, report, log | the bot has the state the agent last told it, a 304 included; failures move nothing; the log tells how the last call went and blames nobody for a shutdown; the agent's record converges |
| Session | `main.go` `session`, `internal/liveness/respawn.go` | `Respawner.dead`, the connection, the close hook | negotiate, dial, spawn, request the radius, read, respawn | a killed player comes back with its view distance; a stray packet is never confirmed; no connection is left; the end of the context ends it |
| Token cache | `internal/mcauth/token.go` | the token in memory, `mu`, the cache file | name the file, log in, load, refresh, save | the file is never torn; a newer token is never replaced by an older one; two accounts share a file only if their names collide in slug and hash; a failing refresh blocks nobody |
| Configuration | `internal/config/config.go` | none | validate the environment | every later conversion is in range; what the table in `README.md` allows is what starts |
| Protocol negotiation | `internal/mcproto/protocol.go` | none between sessions | ping, parse the pong, choose the number to announce | only a usable number is announced; a server that changes version is followed, and no kick is the bot's own doing |
| Protocol check | `cmd/protocolcheck/main.go`, `.github/workflows/protocol-check.yml` | the step outputs | compare the compiled with the production version, tell the job | exit code, outputs and annotation never contradict each other; the bump step runs when there is something to bump |
| Process start-up | `main.go` `main`, `presenceGate` | the process context | load the configuration, sign in, start the poller, run the loop | a park at the agent gets the player out of the world and is reported, a resume gets it back, SIGTERM ends everything, each part getting what it assumes of the others |
| Skin, logging | `internal/skin`, `internal/logging` | the log's mutex | pure data, pure output | no decision depends on them |

How they interact. `main` starts the poller in a goroutine of its own and runs
the connect loop. The loop calls `Gate.Admit`, which blocks until the bot
should be in the world and returns a context that descends from the process
context; the Reconciler starts one `cancelOnPark` goroutine per session, which
waits on the `changed` channel and cancels that context. The loop calls
`session` with it; `session` calls back `Connected(true)` once spawned, and an
`AfterFunc` on the context closes the connection from yet another goroutine.
The poller calls `set`, which closes and replaces the channel, and reports
`connected` to the agent. The dial, and a refresh goroutine of gophertunnel,
call `Token` of the token cache. Each session asks `Negotiate` which protocol
number to announce before it dials. `Load` runs once, before all of this; the
protocol check is a program of its own, run by a workflow.

What is hard to get right: the change channel is read in two places and
replaced in a third; the loop tells a park from a drop by `sess.Err()`, which
it destroys itself a line later by calling `release`; a context may end between
any two lines; a watcher may live on after its session; the ETag is stored
apart from the state it stands for and the agent may restart; reports given up
on may arrive late; the respawn handshake is spread over three packets each
way; a kill or a power cut may come between any two steps of `saveToken`; ticks
are dropped while a call hangs; the server may change between the ping and the
dial; the outputs of the protocol check may be written by halves. The
list with lines is `hazards` in `PROJECT.json`.

## 2. The modules

| Module | What it is |
|---|---|
| `Gate` | what the interface `Gate` promises the connect loop, with no lock, channel or goroutine in it |
| `ConnectLoop` | `runConnectLoop` with the Reconciler (or `AlwaysPresent`): loop, watchers, `set`, signal handler. Its end states the inductive invariant and the refinement of `Gate` |
| `Relay` | what the poller promises the bot and the agent, with no request, ETag, status, ticker or log in it |
| `Link` | what `session` promises the loop that calls it, with no packet, hook or respawn in it |
| `Bot` | the whole program: `main` with `ConnectLoop`, and `Relay` and `Link` for its two neighbours |
| `ConnectLoopProofs`, `PollerProofs`, `PollTimerProofs`, `SessionProofs`, `TokenCacheProofs`, `ConfigProofs` | TLAPS proofs about the modules they are named after |
| `ProtocolProofs` | TLAPS proofs about the two modules that deal with protocol numbers, `Negotiation` and `ProtocolCheck` |
| `BotProofs` | TLAPS proofs that the whole program implements its parts, with the theorems of `ConnectLoopProofs` reused, and that the loop follows the agent and nothing else |
| `Poller` | `Run` with `poll`, `report`, `set`, the streaks, `classify`, the client's reading of answers, and an agent. Implements `Relay` |
| `PollTimer` | when the calls of `Run` start and end: the ticker, its channel of one tick, the client's timeout, in discrete time |
| `Session` | the function `session` with the close hook, the `Respawner` and a server. Implements `Link` |
| `TokenCache` | `tokenFileName`, `TokenSource`, `Token`, `loadToken`, `saveToken`, crashes and power cuts |
| `Negotiation` | `Negotiate`, `protocolFor`, `ParsePong`, `splitPong`, and a server that changes |
| `Config` | `Load` and its readers, and somebody who edits the deployment |
| `ProtocolCheck` | `protocolcheck` with failing writes, and the job of the workflow around it |
| `MCConnectLoop` and the other `MC` modules | model values and bounds, and the claims of the documentation that the code does not keep |

Every action is a piece of code between two points where another goroutine can
tell the difference: a section under `mu`, a read of a context, a network call
or a `select`. Definitions marked FAULT belong to no specification: each is a
plausible mistake in the definition after it, and for every property there is
one that makes it fail.

### ConnectLoop

| State | Code |
|---|---|
| `desired`, `connected` | the fields of `Reconciler` |
| `gen` | the field `changed`: the channel now in it is number `gen`, and channel `c` is closed exactly when `c < gen` |
| `ctxDone`, `cancelled[s]` | the process context has ended; `cancel` of session context `s` has been called |
| `wpc[s]`, `wchan[s]` | program counter and local `changed` of the `cancelOnPark` goroutine of `s` |
| `pc`, `first`, `delay`, `sess`, `parked`, `admChan` | program counter and locals of `runConnectLoop` and of `Admit` within it |
| `lasted` | whether the session reached `stableSession` |
| `lastGen`, `rested` | history only: the channel of the last admission, and whether a backoff wait has elapsed since |

A lap of the loop is `LoopTop`, `BackoffElapsed`, `AdmitCheck`, `AdmitRead`
(`AdmitWake` back to the check), `AdmitBuild`, `Spawn`, `SessionReturns`,
`LoopDisconnected`, `LoopClassify`, `LoopRelease`, `LoopDecide`. Watchers take
`WatchWake`, `WatchRead` and `WatchCancel` or `WatchSessionEnd`. A `select` with
two ready cases is two enabled actions. `Set` is only the part of
`Reconciler.set` that the loop can see; the ETag is in `Poller`. With
`PresenceEnabled = FALSE` the gate is `AlwaysPresent`. A session context is
reused once its watcher is gone and the loop no longer holds it, so `Sessions`
bounds how many are alive, not how many sessions there ever are.

The jitter is a wait that elapses, the session is opaque between `AdmitBuild`
and `SessionReturns`, and its error is left out: `session` returns nil only when
its context is done (`Leave` of `Link`, which `Session` implements), so the loop
never learns from it what `sess.Err()` does not say. As a consequence the branch
that logs `session_ended` is never taken.

### Poller

`pc` is where the one goroutine of `Run` is; `condition`, `answer` and `posted`
are the call in flight. An answer is a status, an effective state (or one that
does not decode) and an ETag; an ETag is the version and state of the setting it
was made from, as the fake agent of `reconciler_test.go` makes it. The agent may
change, restart with its versions from zero, answer any status class, an
unusable body, no ETag, or nothing; a report given up on may be recorded,
dropped or recorded later. A call the process context cuts off returns an error
like any other. `health` is how the last call went in the world, as against
`shown`, what the log made of it; with `asOf` and `repeated` they are history.

The mapping to `Relay`: an answer of use (a 200 with a known state, or a 304)
stands for the state the agent held when it gave it, until `PollEnds` acts on
it; a report is posted from `ReportStart` to its answer.

### PollTimer

`pc`, `busy` and `toTick` say where `Run` is, how long the call in flight has
taken and when the ticker fires next; `ticks` is the ticker's channel.
`TimePasses` advances everything by one unit; it must not pass the client's
timeout, and a `Run` in its `select` takes a tick that is there first. `asked`
is the moment the agent reads its state for an answer: news later than that
waits for the next fetch. A fetch may fail `MaxFailures` times in a row, a
report whenever it likes. What the calls say is in `Poller`.

### Session

`pc` follows `session` call by call, its deferred calls included. `hook` is the
`AfterFunc`; `inbox` and `outbox` are the packets under way. The server side is
external: it sends `DeathInfo`, answers the request to respawn with two
`Respawn` packets, replaces the player on the confirmation and drops its view
distance then, and may send a `Respawn` outside a death. The context may be done
already when `session` is called, which the race in `Admit` (section 6) makes
possible.

The return of `DoSpawnContext` (`Spawn`) and the call of `spawned` (`Spawned`) are
two steps, and neither asks for an open connection: the hook or the server may
have closed it by then, and only the next write notices.

The mapping to `Link`: up to the dial the session is called, up to the call of
`spawned` it is joining, from then on it has joined, in its deferred calls it is
leaving.

### TokenCache

A token is the number under which it was issued, and `issued` says to whom. `pc`,
`tok` and `tmp` belong to a thread (a caller of `Token`), `inner`, `mu` and
`user` to a process; `file` maps a file name to a cache file and `onDisk` to what
it may be after a power cut, which destroys unsynced bytes and may undo renames
not written out. The read of `loadToken` (`LoadFails`) and any step of `saveToken`
may fail, a process may be killed between any two. The temporary file of a process
that is gone lies about under a name nobody uses again, and is no longer followed. A user name is a short sequence of characters and
`tokenFileName` does to it what the code does: fold the case, keep letters and
digits, make everything else a dash, cut the slug, and add the first four bytes
of a hash of the whole name as it was given. Those bytes are `Sum`, a function that
is a parameter of the module and need not tell any two names apart. A refresh
(`Ask`) renews the token a process has, for whatever account that is, so a mix-up
would last.

### Relay, Link, Bot

`Relay` has the state the agent wants, the answer and the report under way, and
what the agent has recorded. `Link` has how far a session is, whether a
connection is open, and what it returns. `Gate` is the third promise, that of the
gate to the loop. In `Bot` the loop is `ConnectLoop` itself, its watchers
included, since the chain from a park to a closed connection runs through
them; the poller is `Relay` and the session the loop is in is `Link`. Where two
parts meet, an action of each is one step of `Bot`: `set` is `Relay!Act` with
`Loop!Set`, the call of `spawned` is `Link!Join` with `Loop!Spawn`. The context
of `Link` is the one `Admit` made (`SessionCtx`), the process context is
everybody's. `phase` is where `main` is: `config.Load`, `TokenSource`, and then
the loop, or exit code 1. Before `NotifyContext` a signal kills the process, which
is `failed` as well.

### Negotiation

A pong is a sequence of symbols, of which the semicolon and the backslash mean
what they mean to `splitPong` and a numeral is one symbol with a value.
`Negotiate` is one action: nothing of it is seen from outside before the dial.
`kicked` is what the server, external, does to a client that announces another
number than its own. The version string is passed to the log only and left out.

### Config

`env` is the environment, each variable unset (or blank, as `TrimSpace` makes
it), a number, or a text of the kinds `Load` tells apart. `Edit` changes one
variable, `Start` runs `Load`, `Stop` takes the process down again.

### ProtocolCheck

`job` follows `main` and `emit` write by write, in the random order of a Go map;
each open, write and close may fail. Around them is the job: resolving the
upstream version, the failure of a step on a non-zero exit, and the condition of
the last step with the `success()` every `if` without a status function has.
`byHand` is a run outside Actions, without `GITHUB_OUTPUT` and maybe without
`-upstream-version`. `go run` turns exit 2 into 1, so the job cannot tell the
two apart; the model keeps the program's own code and fails the step on either.

## 3. The runs

| Run | Question | Bounds |
|---|---|---|
| `loop` | Does the loop with its watchers lose no wake-up, skip the backoff only for a park, hold one session, say connected only of it, keep the contract of `Gate`, act on a park, and end every watcher? | 2 contexts, 4 changes, delays 1..3 |
| `bot` | Does a park at the agent get the player out of the world and into the agent's record, a resume get it back, SIGTERM end everything from anywhere? Does the loop get from the session what it was assumed to? | 1 context, 2 changes of the agent's mind, one delay, started present |
| `poller` | Does the ETag ever hide a change, a failure ever move the bot, the log ever tell of a failure that is over or miss one, or blame the agent for a shutdown? Does it keep the promise of `Relay`, so that the bot and the agent's record of it end up in step with the agent? | 3 changes or failures, 3 versions, 5 failing statuses, started parked |
| `timer_bounds` | How late can a park be, and is a hang made up for by a burst? | interval 4, timeout 5, 2 failures in a row |
| `session` | Does the handshake stay in step, is the connection always closed, does a killed player come back with its radius, does a park end a silent session? Does it keep the promise of `Link`? | 3 deaths, 2 strays |
| `token_cache` | Is the file whole, is it current for a process alone with it, does every account keep to its own token, does `Token` return? | 2 processes, of one account or of two: alike in slug, in hash bytes, or in both; one process with two callers of `Token`; 2 tokens, 1 fault |
| `negotiation` | Is every real pong understood, a kick never the bot's own doing, and a server that settles joined? | every name of up to 2 symbols, 7 kinds of nonsense, 3 versions, 3 changes |
| `protocol_check` | Do exit code, outputs and annotation agree, whatever write fails? | 2 versions of each kind, or none |
| `config_safety` | Does `Load` let through only what the table allows and later code assumes, and refuse only what the table rules out? | 5 edits away from the smallest deployment, values on both sides of every boundary |
| `loop_doc_resume`, `poller_doc_timeout`, `protocol_doc_bump` | What a document says and the code does not do (section 6) | as the passing run |

Why these bounds are enough. Two session contexts are the loop's own and one
left over from the session before; a third would be another leftover, and the
proofs hold for any number. In `Bot` there is one, so a new session waits for
the watcher of the last one to go: what leftovers may do is checked in `loop`
and proved, and a second context would multiply the states of `bot` by ten. Two
changes of the agent's mind there are a park and a resume, from a bot that
starts present, and a late report is left to `poller`. Four changes in `loop`
are park, resume, park, resume: the watcher must survive a flicker and then see
a park. The floor 1 and ceiling 3 make the ceiling no power of two times the
floor. A change of the agent's setting, a restart back to version 0 and a
failure fit in three moves, so a stale ETag can meet a restarted agent. Three
deaths let a handshake begin while packets of two earlier ones are on their way.
Every fault of `TokenCache` can come alone at every step, and the next process
starts on what it left; two tokens are enough for an older one to meet a newer.
With the timeout longer than the interval the two calls of a tick can swallow
two ticks or none. Two symbols in a name give an escape before, after and beside
every other symbol. The program tells versions only equal and different, so two
of each are all there are. Five edits are what it takes to switch presence on
with all its variables.

What is stated of each part, apart from types:

* **Gate and loop.** `NoLostWakeup`: who blocks on an open channel blocks on
  the state it wants to see the end of. `HotReadmission`: a session admitted
  without a backoff wait has at least two changes of state (a park and a
  resume) behind it, so a server that drops the bot is never answered with an
  immediate reconnect. `ConnectedOnlyInWorld`, `OneLiveSession`.
  `ParkTakesEffect`, `WatcherEnds`; a resume and a shutdown are `Bot`'s.
  `GateSafe` is the specification of `Gate` under the mapping at the end of
  `ConnectLoop`: Admit decides when it reads the state, the caller leaves at
  `release`, and a session is due to end once the state has changed since it was
  read.
* **Bot.** `LoopServed`: the loop gets from `Link` the fairness it was assumed to
  get from `session`. `ParkArrives`, `ParkRecorded`: a park at the agent ends with
  the connection closed, the loop at its gate, and a record that says so.
  `ResumeArrives`: a resume gets the loop to dial again. `ShutdownCompletes`:
  SIGTERM ends the process with the player gone from the server, whether it comes
  at the prompt for a device code, in a dial, in a backoff or while parked.
  `CleanExit`: the process ends only when asked to, and never with the
  connection open.
* **Poller.** `RelayKept`: the bot moves only to the state a usable answer stands
  for, so neither a failure nor a stale ETag ever moves it or hides a change,
  and only snapshots of the bot are recorded. `LogTellsHealth`, and
  `NoBlameForShutdown`: a call cut off by the shutdown is never logged as a
  failure of the agent. `AgentFollowed`, `ReportConverges`.
* **Timer.** `NewsInTime`: with an agent that answers, news is at most one round
  and one timeout old, a round being the interval or two timeouts, whichever is
  longer, and every failed fetch in between costs one more round. `NoBurst`: any
  three fetches are spread over at least one interval.
* **Session.** `ConfirmsOnlyWhenAsked`, `HandshakeMovesOn`, `RadiusRestored`,
  `LinkKept`: whatever way `session` returns, it called `spawned` at most once and
  only after a dial that succeeded, left from then on only for an ended context or
  connection, returned nil only for the former, and left no connection open.
  `RespawnCompletes`, `SessionEnds`.
* **Token cache.** `NeverTorn`; `OwnAccount`: a token of another account only when
  both the slug and the four bytes of hash of the two names are the same;
  `CacheNeverRegresses`, `CacheCurrent`; `TokenReturns`. The third and fourth are
  claimed as long as no two processes on one cache file have been alive at once
  (`overlapped`): with two on one file an older token can replace a newer one,
  which the code does not guard against and no property rules out.
* **Negotiation.** `HonestPongUnderstood`; `KickHasCause`: a dial is turned away
  for its number only if the server has changed since the ping, or the ping told
  nothing and the server does not speak the compiled-in protocol;
  `ServerFollowed`.
* **Configuration.** `RadiusAsRequested`, `StrayIgnored`, and the table in
  `README.md`: `RunsOnlyDocumented` says that what it allows is what starts.
* **Protocol check.** `AnswerIsWhole`, `QuietMeansMatch`.

## 4. Fairness

Assumed is what Go and the called libraries give: a goroutine that can run runs
(weak fairness of its steps), timers and tickers fire, a call with a timeout
ends, a `sync.Mutex` does not starve a waiter (strong fairness of `Lock`), and
`select` does not choose the ticker for ever over a context that is done (strong
fairness of `Stop`). `session` returns once its context is done, since every
call it blocks in takes the context or is unblocked by the hook. `ConnectLoop`
assumes it (`SessionFair`), `Bot` derives that assumption from the promise of
`Link` (`LoopServed`), and `Session` keeps that promise (`SessionEnds`). A dial
ends by its 30 s timeout. Of the agent `Bot` assumes what `Follows` and `Tells`
of `Relay` say, which `Poller` keeps as `AgentFollowed` and `ReportConverges`: it
answers, and it records, again and again (strong fairness of `Answer`, `Recorded`
and `Post`). In `Poller` the same comes from the bound on failures.

Not assumed: that the agent changes its mind, that a signal comes, that a
session ever spawns or ends by itself, that the server sends anything unasked,
that a device code is entered, that `Token` is called. `DoSpawnContext` has no
timeout in the code, so nothing claims that a connected bot gets into the world.

## 5. What is proved

Every safety property that a run checks is a theorem for every value of the
constants. Each theorem has the form `Spec => ...`, for the specification without
fairness.

| Module | For every | Theorems (property) | Inductive invariant |
|---|---|---|---|
| `ConnectLoopProofs` | set of sessions, number of changes, backoff interval, presence on or off | `TypeCorrect`, `NoWakeupIsLost`, `OnlyAParkSkipsTheBackoff` (`HotReadmission`), `ConnectedIsTrue`, `AtMostOneLiveSession`, `GateImplemented` (`GateSafe`) | `IndInv` (`Invariance`) |
| `PollerProofs` | set of versions and failing statuses, number of changes and failures | `RelayImplemented` (`RelayKept`), `LogTrue`, `NobodyBlamed` | `RelayInv`, `LogInv` |
| `PollTimerProofs` | interval, timeout, number of failures | `NewsIsInTime`, `NoBurstEver` | `TimerInv` |
| `SessionProofs` | number of deaths and stray packets | `LinkImplemented` (`LinkKept`), `ConfirmsWhenAsked`, `HandshakeMoves`, `RadiusComesBack` | `LinkInv`, `HandshakeInv` |
| `TokenCacheProofs` | set of processes, threads and accounts, hash function, number of tokens and faults | `CacheNeverTorn`, `EveryoneOwnAccount` (`OwnAccount`), `NoCollisionNoMixUp`, `NoRegress`, `CacheIsCurrent` | `SaveInv`, `OwnerInv`, `MutexInv`, `AliveInv /\ OrderInv` |
| `BotProofs` | as `ConnectLoopProofs`, number of changes of the agent's mind | `LoopImplemented`, `LoopInvariance`, `GateKept`, `RelayImplemented`, `ExitIsClean` (`CleanExit`), `AgentLeads`, `UnparkedLeftAlone`, `BoundIsNoBound` | `LoopP!IndInv`, `ExitInv`, `AgentInv` |
| `ConfigProofs` | set of settings of each variable, number of edits | `RadiusIsAsRequested`, `StrayIsIgnored`, `RunsOnTheTable` | `ConfigInv` |
| `ProtocolProofs` | set of protocols, names of any length, nonsense, number of changes of the server | `PongUnderstood` (`HonestPongUnderstood`), `KicksHaveCauses` (`KickHasCause`) | `NegotiationInv` |
| | set of versions | `AnswersAreWhole`, `QuietRunsMatch` | `AnswerInv` |

The assumptions are about constants, and TLC evaluates each on a run.
`ConfigAssumption` is what `config.Load` guarantees of the backoff interval and
the initial state; `BotAssumption` restates it for the program.
`PollerAssumption`: 304 is no failing status, and a missing ETag or report is
none. `TimerAssumption`: interval and timeout are positive. `SessionAssumption`:
the bounds are numbers. `CacheAssumption`: a thread belongs to a process, each
process has a main thread of its own, and every crew gives each process an
account; `SumAssumption`: every account's name has a hash, and no more than that is
asked of it; `FileAssumption`: a missing, a torn and a whole file are three things.
`SettingsAssumption`: the markers for an unset variable, a text and an error are
not mistaken for a setting, and a variable `Load` reads as a number holds an
integer, a text or nothing. `CheckAssumption`: a missing version is no version.
`NegotiationAssumption`: the numerals are no separator and no escape, names are made
of symbols, and the server speaks protocols whose numbers fit the field.
`NonsenseAssumption`: what is no Bedrock server does not name a usable number by
chance; its pong holds none at all or has fewer than three separators. It is an
assumption about the world, not about the code: a stranger's pong that is well formed
and names a number is announced, and no client could tell.

**The loop.** `HotReadmission` is not inductive: it speaks of two changes at
admission, while the decision to skip the backoff is taken from a context
cancelled much earlier by another goroutine. `IndInv` adds what connects them.
The state alternates, so the distance of `gen` from the channel read at admission
tells the state (`ParityInv`); nobody holds a channel that does not exist
(`ChannelInv`); a watcher leaves its first `select`, a context is cancelled, and
an end is taken for a park only with `gen` beyond `lastGen` (`ParkInv`, which
needs that the flag is read before `release`); so the loop asks again without a
wait only after a change, which by parity was a park, and Admit lets it in only
after another. `LoopInv` says what the loop holds where, and `AloneInv` that
without presence nothing changes. The refinement of `Gate` uses `ChannelInv` (a
change makes a session due), `ParkInv` (only a session that is due is revoked)
and `AloneInv` (`AlwaysPresent` grants only in the present state). The runs have
presence on; that the loop is as safe with `PRESENCE_URL` unset, where every
reconnect is preceded by a backoff wait, is what the theorems say for
`PresenceEnabled = FALSE`.

**The poller.** `RelayInv` is what makes a 304 safe to trust: the ETag the bot
remembers stands for the state it acts on, a request in flight carries that ETag,
and so an answer of use, with or without a body, stands for the state of the
agent that gave it. A step that loses the connection between the two (an ETag
kept for an answer that was not acted on, say) breaks the invariant. `LogInv` says
that a streak is the kind of the last line of its stream and, unless an answer is
still being digested or the process is stopping, how the last call went.

**The timer.** Two bounds hold each other up. A round ends in time (`RoundInv`)
because an empty channel has seen no tick since the fetch started; news that an
answer under way does not carry is younger than that fetch, and otherwise has
waited a round per failure (`AgeInv`). A tick in the channel has fired since the
last fetch started, and the tick which that fetch took fired before it, so the
fetch it will start comes an interval after the last but one (`SpreadInv`).

**The session.** `LinkInv` says that before the dial has returned there is neither
a connection nor a hook that could close one, and that nothing has been decided
to be returned before `session` is on its way out. `HandshakeInv` places the
handshake: a dead player has a death ahead of the bot (`DeathAhead`, with every
`Respawn` packet under way sent before it), or a request under way (`ActionAhead`);
a player waiting for the confirmation has the packet that says so ahead of the
bot (`ReadyAhead`) or the confirmation under way (`ConfirmationAhead`), with the
next request for the radius behind it. What follows what in the two queues is
needed: a `Respawn` packet behind a death would be taken for its answer, and a
request for the radius before the confirmation would be lost with the old player.
`AppendQueue` and `TailQueue` say what sending and receiving does to that order.

**The token cache.** `SaveInv` follows a save step by step: what gets renamed is
whole and on the disk, so whatever a power cut leaves is whole. `OwnerInv` ties
every token to a cache file, the one the name of its account leads to, also tokens
in files that may come back; a refresh keeps it, since it is for the account of the
token it renews. Nothing is assumed of the hash: `EveryoneOwnAccount` says that two
accounts are mixed up only if slug and hash both collide, and `NoCollisionNoMixUp`
draws the conclusion for names of which no two do.
`MutexInv` says who is busy. `CacheNeverRegresses` needs all three: the token a
thread saves is the one in memory, no other thread or process is between asking
and renaming, and nothing that may come back is newer than what is there
(`OrderInv`). `CurrentInv` adds that a process whose saves are done has its token
in the file.

**The whole program.** `LoopImplemented` takes each action of `Bot` and shows the
step of `ConnectLoop` in it, so the theorems about the loop, instantiated in
`BotProofs`, hold in the program, `GateSafe` included. `RelayImplemented` does the
same for the poller: the `Relay` that `Poller` is proved to implement is the one
the program was built on. `ExitInv` says what is known of the session from where
the loop is: outside `connect` it has returned, and a session that has returned
holds no connection. `AgentInv` joins the two halves: it counts the changes still on
their way, between the agent and an answer and between the answer and the bot, and
says that with them the loop has seen no more changes than the agent has made. With
`ParkInv` of the loop it follows that the gate never parks a bot of its own accord
(`UnparkedLeftAlone`): while the agent keeps to what `PRESENCE_DEFAULT` says, no
session is cancelled, no drop is taken for a park, and every reconnect waits. And
the bound on changes that `ConnectLoop` is instantiated with bounds nothing of the
program (`BoundIsNoBound`): the agent runs out of changes before the loop does.

**The negotiation.** What `splitPong` makes of a text and `Escape` of a name are
recursive functions over the length. Both are shown to be what they are for the empty text and for a text with one symbol more (`AfterEmpty`,
`AfterAppend`, `EscapeEmpty`, `EscapeAppend`), from the existence and uniqueness of
the function. `SetInduction`, which needs only that `Nat` is well founded and takes
no operator, then gives two facts by induction over the length. `NameRead`: behind
the leading field, an escaped name leaves the loop in a field that holds the name,
since each written symbol adds just that symbol (`SymbolRead`) whether it needed an
escape or not. `FieldsBound`: the loop ends a field only at a separator and puts
nothing into one that is not in the text. The first makes every real pong understood
(`HonestRead`), the second keeps all nonsense from being taken for one
(`NonsenseRead`). `NegotiationInv` needs both: after a ping the number to announce
is that of the server if the answer was honest, and the compiled-in one if not, as
long as the server has not changed; a number announced earlier leaves no trace.

**The configuration.** `PollInterval`, `PresenceAccepted` and `LoadAccepts` turn the
chain of early returns of `Load` into the ranges it accepts, `TableIsAccepted`
turns the table into the same ranges. The run tries the values around each
boundary; the theorem covers every integer.

**The protocol check.** `OnlyEqualMatch` is about `decide`; the rest is that emit
finishes only with every key written, in whatever order.

Only model-checked is all liveness, and with it the fairness that `Bot` derives for
the loop (`LoopServed`): it is out of the prover's reach, as is ENABLED.

## 6. Findings

* `loop_doc_resume`: `docs/operations.md:65` has the parked loop reconnect "as
  soon as the state returns to `present`, without a backoff". A bot parked
  during a backoff wait sees neither the park nor the resume; it waits up to
  `RECONNECT_MAX_MS`.
* `poller_doc_timeout`: `docs/operations.md:84` calls an agent that times out
  unreachable. A timeout while the body is read is logged as
  `presence_fetch_invalid`, since `client.go:90` wraps every error of `Decode`
  (`Cut` in `Poller`).
* `protocol_doc_bump`, a bug: the workflow opens the bump pull request in a step
  guarded by `steps.check.outputs.status == 'behind'`. `protocolcheck` exits 1
  exactly then, which fails the job, and the guard includes `success()`. The
  step never runs. `continue-on-error` on the check, or `!cancelled() &&` in the
  guard, would let it.

Smaller disagreements met while modelling. The models do what the code does, and
their properties state what holds instead:

* The comment in `Admit` (`reconciler.go:146`) says a caller racing shutdown gets
  the error and not a session on a cancelled context. The context may end after
  the check and before `AdmitBuild`; the loop still stops (`ShutdownCompletes`).
* `README.md:81` has the process exit when a token refresh fails. A refresh
  happens in `Token`, whose error only ends the dial (`AskFails`).
* `docs/operations.md:63` has a park arrive "within one interval". With an
  interval below 10 s and a slow agent it takes up to 10 s and the time of the
  answer; `NewsInTime` is the bound that holds.
* `README.md:39` allows `PRESENCE_POLL_MS` from 1, `Load` refuses anything below
  1000; `RunsOnlyDocumented` names it as the one exception (`PollTooShort`).
* `protocol-check.yml:46` says a red run "always means there is something to do";
  it is red as well when the outputs cannot be written or the vendored version
  cannot be read.

One more thing a reader of the agent's record should know, which no document
denies: `connected` is false until the spawn, and a session that is being joined
when a park arrives may still spawn before its context is cancelled. The agent
can be told "parked, not connected" and the player appear for a moment after.
The next report puts it right, and `ParkArrives` holds. For the same reason, and
because `spawned` is called without another look at the connection (`main.go:221`),
`connected` may be reported for a moment for a connection that is closed already.

## 7. What is not modelled

* Lengths of time outside `PollTimer`: timeouts, the backoff and its jitter are
  events that happen.
* The skin is data the login carries and decides nothing; of logging only which
  presence lines are written is modelled, not levels and layout, and a write to
  standard output is taken to return. The bump step of the workflow is modelled
  up to whether it runs.
* The text of URLs, tokens and packets. How likely two names collide in slug and
  hash; that they may is modelled. A `WritePacket` that fails on a connection that
  goes on working: gophertunnel reports an error only on a closed one, and what the
  Respawner would do (`respawn.go:86`) is a hazard without a property.
* A last report at exit: the code sends none, so the agent may believe the player
  connected until it looks at the time of the last report.
* `TokenSource` inside `Bot` is one step that ends in a token or in exit code 1;
  its insides are `TokenCache`, where a dial and a refresh meet. Reports that
  arrive late are `Poller`'s.

## 8. The plan

Every component that decides anything is modelled, its safety is proved, and its
liveness is checked on small instances. What is left is work on the edges:

1. `DoSpawnContext` has no timeout of its own (`main.go:214`), and `main` waits for
   no last report (`main.go:76`). Both are hazards without a property, since no
   property of the kind holds; with a fix in the code, the first would become a
   liveness property of `Session`, the second one of `Bot`.
2. The parts of `Bot` are promised (`Relay`, `Link`) and the promises are kept by
   `Poller` and `Session` apart. A specification of all the detailed modules at once
   would be too large to check and would show nothing the refinements do not.
