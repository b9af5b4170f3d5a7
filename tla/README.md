# TLA+ models of localitas-go

localitas-go is the Go SDK of the Localitas platform: a client for the
platform's HTTP and WebSocket APIs, a `database/sql` driver and a schema
migrator on top of it, verification of the identity tokens core puts on
requests, and a command line. This directory holds TLA+ modules that model its
concurrent and failure-prone parts, the TLC configurations that check them on
small instances, and theorems about them checked by TLAPS.

## Inventory

What the repository consists of. "Promises" is what makes the component
correct; what of it is not modelled is named at the end.

| component (source) | state | operations and interactions | hard behaviour | promises |
|---|---|---|---|---|
| Schema migrator (`migrator.go`) | rows of `schema_migrations`, the schema itself; per run the applied set read at its start | `Run`, `apply`, `repair`; uses `database/sql`, usually through the driver | several nodes at once, crash or lost reply at any request, legacy databases without version rows, duplicate versions | each migration applied whole and once, in order; every healthy node finishes |
| SQL splitter (`migrator.go`, copy in `cmd/localitas/main.go`) | none (a pure function) | splits a script at semicolons; used by the migrator, `migrate check` and the SQL shell | strings, comments, BEGIN/END nesting | a script is cut into its statements, never inside a string or trigger |
| SQL driver (`driver.go`) | per connection the active transaction and its buffered statements; a process-wide client cache | `Begin`, `Exec`, `Query`, `Commit`, `Rollback` over the SQL API | reads bypass the buffer, lost replies at commit | a transaction is one atomic request or nothing |
| Pub/sub WebSocket client (`pubsub_ws.go`) | connection, subscriptions, attempts, `intentionalClose`, listeners, one mutex | `Subscribe`, `Unsubscribe`, `Publish`, `Ack`, `On`, `Close`; read-loop goroutine, reconnect timer, callbacks | frames written after the mutex is released, reconnection against calls, `Close` against dial and send | subscriptions survive reconnects, frames do not interleave, closed means closed |
| Asynchronous runs (`async.go`) | the run at the server; per run one goroutine | `RunAsync`, `publishCompletion` | lost, repeated and late completions, panics, crash | the outcome arrives unless the process ends |
| Automation client (`automation.go`) | none of its own | `WaitForRun` by pub/sub, then by polling; RPCs | deadline against ticker, failing polls | a wait ends, and tells the real outcome |
| Identity verification (`auth.go`) | process-wide keys, fetch time, legacy policy, HMAC key under a mutex | `ParseBearerToken`, `fetchIdentityKey`, setters and resets | one fetch that is never repeated, 30-second gate, policy precedence, clock skew | only tokens core signed and that are valid now are accepted |
| Scope middleware (`scope.go`) | the request's context | `AuthMiddleware`, `RequireScope` | default scopes | no handler below its scope |
| Bearer token (`client.go`) | the token shared by a client's copies, a mutex | `bearer`, `refreshIdentity` before every call | concurrent refresh, refresh failure, maximum lifetime | one refresh, seen by all copies |
| Client transport and RPCs (`client.go`, `types.go`, `cluster.go`) | none | `do`, `send`, `Download`, one method per endpoint | error classification | an error answer is an `*APIError` |
| Service registry (`client.go`) | the `services` table at the server | ensure, register, discover, list | instances registering at once | the last registration wins, none is lost |
| Encryption key (`crypto.go`) | key in memory (`sync.Once`), key file, environment | `getOrCreateKey`, `RequireSecretKey`, `Encrypt`, `Decrypt` | processes creating the file at once, partial write, an error inside `Once` | what was encrypted can be decrypted later |
| Cache client (`cache.go`) | at the server | keys, locks, sorted sets, durable pub/sub and groups, lists, sets, queues, stacks, hashes | TTL truncated to seconds, multi-request `HashRef.Del`, claim/ack/reclaim | locks expire, group messages are handled by one worker at a time |
| Upstream requests (`httputil/upstream.go`) | none | `Get` with bounded retries | retry limits, context end | at most `Attempts` tries, a 5xx is never returned |
| Negotiation and rendering (`httputil/negotiate.go`) | none | format choice, flattening, tables | key collisions while flattening | pure |
| Locale (`locale.go`) | country code, set once | lookup by time zone | none | pure |
| Command line (`cmd/localitas`) | the `migrations` directory, the shell's buffer | `migrate new/check/status/run`, `sql`, `cluster force-active` | file number chosen from a listing, statement buffering, status read before the flip | unique file names, each statement run once |
| Identity test signer (`identitytest`) | a key pair | signs a token | none | a test helper |

`PROJECT.json` lists the hazards of this code line by line, each with the
property that covers it or the reason why none does.

## Modules

| module | models | kind |
|---|---|---|
| `Migrator` | `migrator.go` | state machine, safety, order, liveness |
| `AtomicMigrations` | the promise in the doc comment of `Migrator.Run` | abstract specification |
| `MCMigrator` | instances of `Migrator` | model checking |
| `MigratorProofs` | theorems about `Migrator` | proofs |
| `PubSubWS` | `pubsub_ws.go` | state machine, safety, liveness |
| `MCPubSubWS` | instances of `PubSubWS` | model checking |
| `PubSubWSProofs` | theorems about `PubSubWS` | proofs |
| `SQLDriver` | `driver.go` under the pool of `database/sql` | state machine, safety |
| `AtomicTransactions` | what a caller of `database/sql` expects | abstract specification |
| `SQLDriverProofs` | theorems about `SQLDriver` | proofs |
| `AsyncRun` | `async.go`, `WaitForRun` of `automation.go` | state machine, safety, liveness |
| `AsyncRunProofs` | theorems about `AsyncRun` | proofs |
| `IdentityTokens` | tokens, scopes and routes: `ParseBearerToken`, `scope.go` | pure operators |
| `Identity` | the identity state of `auth.go` and the requests verified with it | state machine, action properties, liveness |
| `BearerToken` | the shared token of `client.go` | state machine, safety |
| `MCIdentity` | an instance of both sides of identity tokens | model checking |
| `IdentityProofs` | theorems about `Identity` and `BearerToken` | proofs |
| `SecretKey` | the key file of `crypto.go` | state machine, safety |
| `CommandLine` | `localitas migrate` | state machine, safety |
| `CommandLineProofs` | theorems about `CommandLine` | proofs |
| `SQLShell` | `splitSQL`, `localitas sql` | pure algorithm, state machine |
| `SQLShellProofs` | theorems about `SQLShell` | proofs |
| `CacheTTL` | how durations reach the cache app | pure operator |
| `CacheLock` | a lock by `SetNX` and `Del` | state machine, safety, liveness |
| `ConsumerGroup` | claim, acknowledge and reclaim of `PubSubRef` | state machine, safety, liveness |
| `Upstream` | `Upstream.Get` | state machine, safety |
| `StandaloneProofs` | theorems about `SecretKey`, `CacheLock`, `ConsumerGroup` and `Upstream` | proofs |
| `MCStandalone` | instances of six parts that share no state | model checking |

Each state-machine module contains a few definitions whose comment starts with
"Fault": a plausible mistake in the definition below it. They are not part of
the specification. Put in place of the definition below they make a property
fail, which shows that the property depends on that piece of the code;
`PROJECT.json` says which one belongs to which.

### Migrator

`versions` is the set of rows of `schema_migrations`; `effect[s]` counts how
often statement `s` took effect in the database, up to 2. A node's `pc` is its
place in `Run`, `todo` the migrations of its loop it has not got past (computed
once, from the one read of the applied versions), `pos` the next statement of a
repair. A statement is of one of four kinds: `schema` fails with an error
`isMigrationIdempotentError` recognises when its object is in place (a table, an
index, a column), `once` succeeds once and then fails with one it does not (a
trigger, a view, an INSERT with a key, a DROP, a RENAME), `data` succeeds every
time, `bad` never does. Which error comes first decides what `Run` does, so
`FirstFailure` finds it.

A `once` statement that has run without its version row cannot be got past: the
transaction fails at it, and so does repair, in every Run until someone repairs
the database by hand, although `migrator.go:144-145` says that repair skips what is
in place and records the version. `Stuck` says so of a migration, and
`HealthyNodesFinish` excepts the nodes that have one. On a database only transactions touched there
is none (`OnlyFaultsStopClean`).

`InOrder` is about the node that moves: what takes effect in its step comes
after everything earlier in its own binary. That another binary has the earlier
migrations in place does not excuse it, which is the case of a branch merged
late.

| action | code |
|---|---|
| `ReadVersions` | `CREATE TABLE IF NOT EXISTS` and `appliedVersions` |
| `Commit` | `apply`: version row and statements in one transaction |
| `VersionTaken`, `SchemaInPlace`, `ApplyFails` | the three error branches of `Run` |
| `RepairStatement`, `RepairFails`, `RecordVersion` | `repair`, one request at a time |
| `Finish` | `Run` returns nil |
| `Stop`, the second alternative of `Replied` and of `RepairStatement` | a crash or an error before, between and after requests (the reply is lost) |
| `Restart` | whatever runs the node starts it again (outside the repository) |

The transaction is atomic in the model because it is one in SQLite, and because
`driver.go` buffers it into a single `exec` request, which is what `SQLDriver`
shows.

`AtomicMigrations` is the promise without nodes: `Apply(m)` applies an
unrecorded migration whole, when some binary has it and all of that binary's
earlier ones are recorded. `Migrator` refines it with the identity on
`versions` and `effect` on a database only transactions touched.

| run | instance | result |
|---|---|---|
| `migrator_clean` | three nodes on three branches (one without migration 2, one with a broken migration 4), every starting point, two faults | `AppliedWhole`, `InOrder`, `AtomicSpec` hold |
| `migrator_legacy` | the same, and the database may hold 0 to 3 statements of the next migration without its row | `TypeOK`, `RecordedInPlace`, `DoneMeansApplied`, `HealthyNodesFinish` hold |
| `migrator_repair_race` | two nodes, no fault, one inherited statement | `AtMostOnce` fails: both repair and both run the backfill; so would one node that stops before the version row and starts again |

Three nodes are the least that gives two racing nodes and a third with another
set of migrations; two faults let a node fail, come back and fail again, or two
nodes fail once. The scripts contain each order of kinds the branches of `Run`
tell apart: schema then data, data alone, a table with its trigger, data and
schema then a broken one.
All instances have distinct versions. Of two files with one version `Run` takes
the second for "applied by another node" and returns nil without it, which is
why the theorems assume `DistinctVersions`; `CommandLine` says when
`migrate new` keeps that assumption.

Fairness: a node that can take a step takes one (`WF` of `Run(n)`). `Run`
never waits for another node, and a stopped node is started again. Faults are
not fair, and bounded.

### SQLDriver

The pool of `database/sql` (outside the repository) gives a connection to one
goroutine at a time, for one statement or for a whole transaction. The driver
keeps the pointer to the active transaction on the connection, so what becomes
of a statement depends on what the connection's last user left there. `owner`
says whom the pool has given a connection, `activeTx[c]` is the connection's
pointer (named after the goroutine that began the transaction), `stmts[u]` the
buffer, `call` and `req` where a goroutine is and what it waits for. `net`,
`answered` and `log` are the requests on their way, the ones applied, and what
the database has applied; `acked` are the statements whose success was told.

| action | code |
|---|---|
| `Begin`, `CommitEmpty`, `Commit`, `Rollback` | the methods of the same names |
| `ExecBuffers`, `ExecSends` | the two branches of `ExecContext` |
| `Succeeds`, `Refused`, `Unanswered` | the three ways the request under `SQLExec` and `SQLTransaction` ends; without an answer it may still be applied later |
| `Serve`, `Refuse` | the server applies a request whole, or not at all |

`AtomicTransactions` has no connections: a transaction is one batch in the order
of its statements, a batch is applied once and whole or never, and a caller is
only told of what is applied. `SQLDriver` refines it: `open` is the buffer of a
goroutine that has not ended its transaction, `pending` is `net`.

| run | instance | result |
|---|---|---|
| `sqldriver_pool` | two goroutines, two connections, two statements each, one request or answer lost | `TypeOK`, `AckedApplied`, `OwnStatements`, `AtomicSpec` hold |

Two goroutines with two statements each let one leave something on a connection
the other is then given, and give a transaction an order to keep. One lost
answer is enough for a request that is applied after its caller has failed. The
runs stop when the statements are used up, so deadlock is not checked; no
liveness is claimed.

### PubSubWS

The goroutines and timers of a client hand over to each other: `connect` starts
`readLoop` as its last act, `readLoop` ends in `scheduleReconnect`, which starts
the timer, which calls `connect`. They are one process, the connector, with its
stage in `pc`; the goroutines that call the API are the `Callers`. A section
under `ps.mu` is one action. `send` takes `ps.mu` for the time of its write,
and `Close` writes without it, so a write is a pair of actions (`BeginSend`,
`EndSend` and so on) and `mu` says who holds the mutex between the two.

`cur` numbers the connections, `up` says whether the latest one is usable,
`conn` is `ps.conn`, `subs` the map of subscriptions with their consumers,
`server` what the server holds for the connection, `left` what remains of the
snapshot `connect` resubscribes from. The timer's function looks at
`intentionalClose` under the mutex (`TimerFires`) and connects after it has
released it (`StartDial`), so `Close` may come in between. A frame takes effect at the server when its write ends, if
the connection it was written to is still the usable one.

The delays are abstracted to the attempt at which they reach
`maxReconnectInterval` (`CapAttempt`), where the code starts the count again.
Callbacks run on the connector or on goroutines of their own and call the API
like any caller.

| run | instance | result |
|---|---|---|
| `pubsub_own_channels` | two callers with a channel each, two consumers, two faults, four calls, fairness | `TypeOK`, `SubscriptionsKept`, `SendsExclusive`, `ConnIsServed`, `OneLateDial`, `Reconnects`, `StopsAfterClose` hold |
| `pubsub_unsubscribe` | one caller, one dropped connection | `UnsubscribeHolds` fails: the snapshot subscribes the channel again |
| `pubsub_close_write` | two callers | `OneWriter` fails: `Close` writes while `send` does |
| `pubsub_close_dial` | one caller, one dropped connection | `ClosedIsDisconnected` fails: the dial succeeds after `Close` |

Two history variables say where a promise ends. `raced` holds the channels whose
latest `Subscribe` or `Unsubscribe` was made while the snapshot had something
else of them still to be sent: for these alone `SubscriptionsKept` does not ask
that the server hold the client's own consumer, or none. There the code brings a
channel back after its `Unsubscribe` (`pubsub_unsubscribe`) or puts the old
consumer back after a `Subscribe` with a new one. `overtaken` says that
`Close` came when the timer had decided to connect and that dial or its
connection is not over yet: it is the only way in which a closed client may dial
or be connected (`OneLateDial`).

`SubscriptionsKept` needs each channel to have one caller. With
`SharedChannels` in place of `OwnChannels` and two callers of one channel it
fails: their frames are written in the other order than the map was changed.

Four calls allow a subscription and three calls that race with it; two faults a
drop and a failed dial, or two drops. With the cap at the second attempt a drop
and a failed dial take the client to it, where the count starts again.

Fairness: the connector and every call under way go on (`WF`). Goroutines and
timers run, a dial ends within its ten-second `HandshakeTimeout`, and a write is
assumed to end because the peer reads or TCP gives up: the code sets no write
deadline. Drops, failed dials and new calls are not fair.

### AsyncRun

One run: `app` is the place of `RunAsync`'s goroutine, `attempt` and `failure`
the state of `publishCompletion`, `status` and `announced` what the automation
server (outside the repository) knows and has published, `delayed` completions
that timed out and are still on their way. `waiter` is the place of each caller
of `WaitForRun`. A failed publish either reached the server, or did not, or may
still; the server takes the first completion it gets. Whether `json.Marshal`
accepts the result is chosen when the work ends.

A waiter is in a request when it connects (`waitViaPubSub` asks `bearer` for a
token, which may refresh it, before it looks at any timer) and when it polls.
A request may hang (`Hangs`), be answered late (`LateAnswer`), or be ended by
the caller's context or the timeout of its `http.Client` (`CallEnds`). `New`
takes `http.DefaultClient`, which has no timeout, and `waitViaPoll` looks at its
deadline between polls only. So only the waiters in `Bounded`, whose requests
and those of all who share their token end by themselves, are promised an end of
the wait whatever happens; for the others `WaitersEnd` allows a request that
hangs for good. With a context without a deadline and the default client the
`Timeout` of `WaitOpts` does not end such a wait.

| run | instance | result |
|---|---|---|
| `async_runs` | two waiters, one with pub/sub and bounded, one with neither; five faults | `TypeOK`, `WaitersSeeOutcome`, `Reported`, `WaitersEnd` hold |

Five faults are one less than `publishAttempts`, the most after which the
outcome must still arrive; `Reported` says so, and allows for a crash, a refusal
and a result that cannot be encoded. Such a result is tried again like a dropped
connection (`Retryable`), six times in all, although async.go:68-70 speaks of
failures that may pass.

Fairness: the goroutine goes on, and so do the waiters that are not in a request
that hangs, and the requests of those in `Bounded` (`WF`). The deadline of a poll is
taken under strong fairness: once it has passed it stays ready, and `select`
chooses at random among the ready cases at every turn.

### Identity

`IdentityTokens` has what is a function in the code: the signature check for
each kind of token, the lifetime with its skew, the ranks of scopes, and the
answer of a route to a token (`Answer`). A token is a record of its claims, the
key it names and the key that signed it; a signature verifies with its own key
only.

In `Identity`, `identity` is the struct of that name with its flags, `env` the
environment, `core` what core serves now, `req[r]` a request: what
`resolveIdentity` returned for it, or its answer. Resolution is one step under
`identity.mu`, the fetch included; verification is another, without the mutex,
and setters, resets, the clock, core and other requests come in between.

| action | code |
|---|---|
| `NeedsNoFetch`, `FetchAnswered`, `FetchFails` | `resolveIdentity`, by what becomes of `fetchIdentityKey` |
| `Verify` | the rest of `ParseBearerToken`, then the route's middleware |
| `Shortcut` | requests that never resolve keys: no token, one that does not parse, `RequireSystem`, `RequireScopeFunc` alone |
| `Set...`, `Reset...` | the functions of the same names |
| `CoreChanges`, `Tick` | core and the clock (outside the repository) |

`told`, `trusted` and `chosen` are history: what core last reported, the keys
last given by anyone entitled to, and what the app or its environment says of
legacy tokens. The properties compare answers with these and not with
`identity`, so that a key that stays after it was replaced is a violation.
`PolicyHolds` makes visible that core's policy is asked for only together with
core's key: with a key in the environment core has told nothing, and legacy
tokens are accepted unless someone said no.

`BearerToken` is the client's side: goroutines share `value` under `mu`, a
refresh may be slow, fail or be answered in vain, and `Reaches` asks
`LifetimeFault` what an app with a drifting clock makes of the token sent.

| run | instance | result |
|---|---|---|
| `identity_tokens` | nine tokens (two keys, each order of expiry and issue, no user, HMAC, system), five routes, four environments, four states of core, one failed fetch, two changes; and two goroutines on a clock of nine minutes with a drift of two | `OnlyVouched`, `NotRefused`, `PolicyHolds`, `KeyArrives`, `SentInTime`, `NeverOlder` hold |

One unit of time is a minute. One request at a time is enough for the app:
requests meet only in `identity`, each in one step, and what another request
could do to it between resolution and verification (a fetch) the setters and
core's changes do as well. Two changes allow a key to be replaced and reset
between the two steps of a request; nine tokens hold each branch of the checks
at its boundary. A behaviour runs one side, since the two share no state.

Fairness, for `KeyArrives`: time passes, a request that was resolved is
verified, and requests keep coming (`WF` of `Tick`, `Verify`, `Arrival`). Failed
fetches are bounded and not fair.

### CommandLine

A file is the scheme of its name (`stamped`, `legacy`, or `misnamed` when it has
neither), its place in the order of names, and its author; a legacy name, which
sorts as a string, may stand anywhere among the others, and two of them may have
the same digits and so one version. `NewLists` and `NewWrites` are
`migrate new`: it takes the number after the highest of the clock's second, or 0
when the directory cannot be read, an error the code ignores. Between the two
the clock moves, forwards or back (`ClockMoves`), and files come with merges and
checkouts (`Arrives`), older than what is applied or not. `ListMigrations`,
`ListFiles`, `SkipFile`, `ApplyFile`, `ApplyFails` and `RunEnds` are
`migrate run`, by invocations that overlap with each other and with all that;
files of one place may be listed in either order. `Pending` is `migrate status`.
A number has three digits, so more than a thousand files in a second are left
out. Files do not leave the directory, and no two invocations are given the same
name: with one name and one version the second would overwrite the first.

`VersionsDistinct` says when a written file has a version of its own, and its
exceptions are the cases in which the code does not see to it: two invocations
of `migrate new` that overlap (`together`), one that could not read the
directory (`Unread`), and a file that came after the directory was read.
`RunCompletes` has no exceptions: it counts two files of one version as applied
when one of them is, since the server and the command line know them by their
version only. So a legacy file whose digits another one has taken is never
applied, without a word. It does not say that migrations are applied in the
order of their versions over all runs, which a file that is merged late makes
impossible, but in the order of the files each run found.

Its runs are two of the standalone parts below.

### Six standalone parts

`SecretKey`, `CommandLine`, `SQLShell`, `CacheLock`, `ConsumerGroup` and
`Upstream` share no state with each other. `MCStandalone` puts instances of them side by side, and a
behaviour runs one of them, `CommandLine` in two ways: "files" has invocations of
`migrate new`, "migrations" of `migrate run`.

`SecretKey`: processes on one home directory, each with its environment. `Mint`,
`Truncate` and `Written` are the steps between which `getOrCreateKey` can be
stopped or seen by another process, because `os.WriteFile` truncates before it
writes; `Once` is `sync.Once`, `WriteFails` leaves it done without a key.
`Encrypt` leaves data that outlives the process. `Readable` and
`CheckedNeverMint` except two cases in which the code does not keep them, and
which the model records: two processes that create the key at once (`overlap`)
and a good file that could not be read and is overwritten (`misread`).

`SQLShell`: `splitSQL` is a recursion over symbols, one per character or word
that its loop tells apart; characters are named ("quote", "semicolon"), and
"none" stands for no open string and for no next symbol. `Scan` is one turn of
the loop, `InString` and `Outside` its two halves, and a turn below `from` is
one the loop has jumped over. A script is built from pieces whose meaning is
known (a string with a semicolon and dashes in it, a comment with a quote, a
trigger body on a line), so `SplitsBack` compares the result with what was
written and not with a second splitter. The shell reads lines, runs its buffer
when a line ends in a semicolon, and stops or goes on after a failure. So the
splitter sees the text in pieces, and `SplitsBack` also says (`CutsRight`) that
it finds the same statements in the pieces as in the whole, wherever a line
closes a statement. This is what fails in `shell_trigger`.

`SelfContained` says which pieces this can be expected of: read alone,
`splitSQL` finds no end of a statement in them, is outside strings, comments and
bodies behind them and keeps what they mean, and none of their lines ends in a
semicolon, not even in a string or a body. `MCPiecesAssumption` has TLC find it
of all eight pieces of the run. The pieces leave out what the splitter does not
recognise: block comments, `CASE ... END` inside a trigger, and a word that ends
in `END`.

`CacheLock`: durations are in half seconds, and `ttlSeconds` cuts them to whole
ones on the way. `belief[c]` is how long client `c` may count on the lock: the
time to live, from when it asked. `Del` removes the key whoever has set it, as
the example of the package releases it, so `LockExclusive` needs a release that
reaches the server in time: a client releases with at least `MinLeft` to go, and
a `Del` takes at most `MaxDelay`. With `MinLeft = 0` TLC finds two clients in
the lock.

`ConsumerGroup`: `pending` is the group's pending list at the server with the
age of each entry, `todo` and `done` what a worker has and which of it it has
worked on. Answers of `Claim`, `Reclaim` and `Ack` may be lost and workers stop,
so that a message is worked on again, but never by two workers at once
(`OneAtATime`) if the timeout, as it is sent, is longer than the work on all a
worker was given. `trimmed` is the last message the channel no longer keeps:
`Publish` trims to `MaxSize` messages and, with `ByAge`, any of the older ones
(`MaxAge`), and so does `Trim`; ages are left open. What was pending of them the
server may know or have forgotten. A trimmed message need not be worked on, so
`AllProcessed` and `NothingLost` except it; in an unbounded channel there is
none.

`Upstream`: the loop of `Get`. `PauseEnds` and `PauseCancelled` are the two cases
of its `select`; a try after the cancellation may or may not send a request.

| run | instance | result |
|---|---|---|
| `standalone_parts` | three processes (one with a key, one with an invalid one, one with none that checks) and four keys; two `migrate new` or two `migrate run`, two seconds, one failed reading or call, and two legacy files of one version, one file of another branch and one misnamed one, there from the start or arriving later; every script of two statements of two pieces out of eight, one error; two clients, a time to live of two seconds; two workers and two messages in a channel that keeps one and trims by age, two faults; one to four attempts | `Readable`, `CheckedNeverMint`, `KeyKept`, `VersionsDistinct`, `RunCompletes`, `SplitsBack`, `ShellRuns`, `LockExclusive`, `LockFreed`, `OneAtATime`, `AllProcessed`, `GetEndsWell` hold |
| `shell_trigger` | one trigger over several lines | `ShellRuns` fails: it is cut at the first line of its body that ends in a semicolon |

Three processes are one that finds a key and two that race for the file; four
keys let each mint another one. Two `migrate new` find a number of the other
or of the other branch's file in their second; two seconds let the clock be set
back to one in use. One of the legacy files sorts before all stamps and one after
them. Two `migrate run` and one lost call make a file applied twice and a failure
in the middle; what is written while they run comes as a file from elsewhere does.
Two pieces put each of them before
and after each other. Two messages are the least that one `Reclaim` hands over
together, and two faults let a worker stop and its successor lose the answer.
Scripts and requests end, so deadlock is not checked.

Fairness: for `LockFreed`, time passes and a `Del` arrives or fails; for
`AllProcessed`, time passes, some worker goes on asking for messages and a
worker that has one works on it and acknowledges it. New clients, stops and lost
answers are not fair.

## Proofs

TLC checks the instances above. TLAPS proves the following for every value of
the constants that satisfies the modules' assumptions. In `Migrator` these say
that scripts are finite sequences sorted by version and `MaxFaults` is a
natural number (`ScriptAssumption`, `NodesAssumption`); in `PubSubWS` that the
markers differ from the callers and consumers (`NamesAssumption`) and the
bounds are natural numbers (`BoundsAssumption`); in `SQLDriver` that `None` is
neither a user nor a request (`NoneAssumption`) and the bounds are natural
numbers; in `Identity` that `NoKey` is no key and tokens, environments and core
have claims, keys and policies of their types (`IdentityBounds`,
`IdentityInputs`); in `BearerToken` (`BearerAssumption`) that a refresh started
in time ends before the token does, `RefreshBefore + MaxDelay <= Life`, and that
delay and drift stay within the minute before and the skew after the expiry; in
`SecretKey` that the markers are no keys (`SecretAssumption`); in `CommandLine`
(`CliAssumption`) that the files from elsewhere are finitely many, have a place
in the directory's order and were not written by its own `migrate new`; elsewhere that bounds
are numbers. The two theorems about scripts assume that each piece is
`SelfContained`. There may be any number of nodes, callers, channels,
waiters, users, connections, requests, tokens, keys, processes, clients,
workers, messages, invocations, pieces and statements.

| theorem | says | rests on |
|---|---|---|
| `MigratorProofs!TypeCorrect` | `TypeOK` | one lemma per action |
| `MigratorProofs!RowsNeverAhead` | `RecordedInPlace`, given `DistinctVersions` | `Inductive` |
| `MigratorProofs!DoneIsApplied` | `DoneMeansApplied`, given `DistinctVersions` | `Inductive` |
| `MigratorProofs!OrderKept` | `InOrder`, given `DistinctVersions` | `Inductive` |
| `MigratorProofs!WholeOrNotAtAll` | `AppliedWhole`, given `DistinctVersions` and `Clean` | a second invariant: no node of a clean database is ever in repair |
| `MigratorProofs!OnceWhenClean` | `AtMostOnce`, given both | `WholeOrNotAtAll` |
| `MigratorProofs!OnlyFaultsStop` | `HealthyFailsByFault`, given `DistinctVersions` | `Inductive` |
| `MigratorProofs!OnlyFaultsStopClean` | `CleanFailsByFault`, given `DistinctVersions` and `Clean` | what has run has its row |
| `MigratorProofs!Refinement` | the migrator implements `AtomicMigrations`, given both | the two invariants |
| `SQLDriverProofs!TypeCorrect` | `TypeOK` | with `Pointers` (below) |
| `SQLDriverProofs!SuccessIsApplied` | `AckedApplied` | an applied request stays in the log |
| `SQLDriverProofs!TransactionsApart` | `OwnStatements` | buffered statements are numbered below the next one |
| `SQLDriverProofs!Refinement` | the driver implements `AtomicTransactions` | the invariants above |
| `PubSubWSProofs!TypeCorrect` | `TypeOK` | |
| `PubSubWSProofs!SendsAlone` | `SendsExclusive` | who writes holds the mutex |
| `PubSubWSProofs!Served` | `ConnIsServed` | |
| `PubSubWSProofs!ClosedDialsOnce` | `OneLateDial` | |
| `PubSubWSProofs!Kept` | `SubscriptionsKept`, given that no two callers share a channel | an invariant that tells where a subscription is on its way |
| `PubSubWSProofs!OneWriterTillClose` | `OneWriter`, until `Close` is called | only the close frame is written without the mutex |
| `PubSubWSProofs!ShutForGood` | `ClosedIsDisconnected` for ever, once a closed client is neither connected nor dialling | |
| `PubSubWSProofs!UnsubscribeKept` | `UnsubscribeHolds`, given that no two callers share a channel and `UnsubscribesApart` | `KeptInv` and `NoneStray`, below |
| `PubSubWSProofs!SomebodyGoesOn` | `NobodyStuck` | `TypeInv`, `Holders` and `ConnIsServed` |
| `AsyncRunProofs!OutcomeSeen` | `WaitersSeeOutcome` | a final status is the outcome |
| `AsyncRunProofs!TypeCorrect` | `TypeOK` | a sleeping goroutine has an attempt left |
| `AsyncRunProofs!OutcomeKept` | `OutcomeDelivered` | each attempt but the first cost a fault (`Spent`) |
| `IdentityProofs!Vouched` | `OnlyVouched` | `IdInv`: a request goes on with what is trusted |
| `IdentityProofs!GoodNotRefused` | `NotRefused` | the same |
| `IdentityProofs!PolicyKept` | `PolicyHolds` | the same |
| `IdentityProofs!KeepsAsking` | `AsksTillItHasKeys` | one case per action |
| `IdentityProofs!TokensInTime` | `SentInTime` | `BtInv`, below |
| `IdentityProofs!TokensInOrder` | `NeverOlder` | what core answered is no older than the token held |
| `StandaloneProofs!AlwaysReadable` | `Readable` | a key in use is in the file, or the environment's |
| `StandaloneProofs!NoKeyOfItsOwn` | `CheckedNeverMint` | a process that checked finds a good file |
| `StandaloneProofs!KeyStays` | `KeyKept` | only a process without a key resolves one |
| `CommandLineProofs!VersionsApart` | `VersionsDistinct` | `DirInv`, below |
| `CommandLineProofs!RunsComplete` | `RunCompletes` | `DirInv` and `RunInv`, below |
| `SQLShellProofs!ShellSplitsBack` | `SplitsBack`, given `SelfContained` pieces | induction over the text, below |
| `SQLShellProofs!ShellRunsInOrder` | `ShellRuns`, given the same | `ShellInv`, below |
| `SQLShellProofs!QuotedFits` | a string is `SelfContained` whatever it holds, unless a line of it ends in a semicolon | induction over the text |
| `StandaloneProofs!OneHolder` | `LockExclusive`, given `Timely` | the key outlasts what its holder counts on |
| `StandaloneProofs!LockExpires` | `Expiring` and `NeverRenewed`, given a time to live of a second | what is granted is a tick at least |
| `StandaloneProofs!OneWorker` | `OneAtATime`, given `Patient` | no message has been pending longer than its worker has had it |
| `StandaloneProofs!NoMessageLost` | `NothingLost` | an acknowledgement on its way is of work that was done |
| `StandaloneProofs!EndsWell` | `GetEndsWell` | each try but those after the cancellation sends a request |

The invariant of the migrator (`Inv` in `MigratorProofs`) adds to
`RecordedInPlace` what the nodes know: every migration a node has got past is in
place, and in a repair every statement before `pos` is. Without these two,
`RecordVersion` and `Finish` would not preserve the properties. They need
`DistinctVersions`: with two files under one version `VersionTaken` gets past a
migration nobody applied. The refinement maps `Commit` to `Apply` and every other step to a stutter; on a
clean database the row of a migration and its statements come and go together,
so a statement can find its schema in place only when its version is taken, and
repair is never entered.

The invariant of the driver (`Inv` in `SQLDriverProofs`) adds `Pointers` to the
types: a connection in the pool has no active transaction, a connection with one
is held by the goroutine that began it, and a goroutine holds one connection at
most. It makes the second alternative of `Has` impossible in `ExecBuffers`, so
success without a request is only told inside a transaction, before its commit.

The invariant of `Kept` (`KeptInv`) says of each subscribed channel that the
server has it, or the connector still has it to send, or its one caller is about
to send it, or the connection is not the one in use. It needs each channel to
have one caller. `InForce` says more of a channel that is not `raced`: what the
connector has still to send of it, what its caller has, or what the server holds
is the subscription the client has now, consumer included. `NoneStray` is its counterpart for the other channels: the
snapshot still to be sent holds none of them, and where the server has one its
caller is about to unsubscribe it. An `Unsubscribe` between `connect`'s snapshot
and the channel's turn breaks it, and nothing else does.

`IdInv` says that the identity's keys are the trusted ones and the policy it got
from core the one told, that a request goes on with the keys trusted when it was
resolved, and that it accepts legacy tokens only where what was chosen and told
allows it. With it each property is a lemma about `Answer` (`HandledWhen`,
`PassesMeans`, `GoodToken`). `BtInv` says that every token held, answered or sent was minted by
core and is not from the future, that a refresh under way holds the mutex and
its answer is no older than the token held, and that a token on its way had at
least `RefreshBefore` left when it was sent, unless its refresh failed or its
expiry is its `max`.

The lock's invariant (`LockInv`) has three ways to have the key, each with a
bound on the time left at the server: a client that was told so, one whose
answer is under way, and one whose release is. The last is where
`MinLeft > MaxDelay` is used; whole seconds are where the server's time and the
client's agree. `GroupInv` keeps, for each message a worker has, that it is
pending at the server for no longer than the worker has had it, so that while
the worker is at it nobody can reclaim it (`NotOverdue`).

`DirInv` says that a file's version is that of no file its author saw, when it
could see them (`Numbered`, by `NextIsHigher` and `FreeNumber`), that every file
in the directory comes from elsewhere or was written by one of the invocations
(`Origins`), and that of two invocations that do not overlap one saw the other's
file (`InTurn`). `RunInv` says of each run that what it took for applied is, that
of what it found it has each valid file applied or before it, and that what is
before a file it sent was applied (`OnTrack`); both hold of any directory, clock
and order in which files come.

`ShellSplitsBack` is an induction over the text. The library's induction
theorems take an operator, which the provers cannot instantiate, so
`SQLShellProofs` does without: a finite set of numbers has a highest one
(`Highest`), hence a set that holds 0 and with i - 1 also i holds every number
up to n (`Counting`), hence a recursive definition over these numbers has the
value its steps give (`Recursion`, `ScannedIs`). `Simulated` compares the loop
over a text alone with the loop over the same text behind another one, turn by
turn: when the first text leaves the loop outside strings, comments and bodies
and the buffer blank but for what it meant, both see the same symbols
(`SameView`), do the same to their buffers (`StepAlike`), and end in states that
differ by what the first text put there. So settled texts can be joined
(`SettledJoin`) and, where the buffer is blank, cut (`SplitJoin`). By a second
induction, over the pieces of a statement and the statements of a script, each
beginning of the script means what its statements mean and may be cut where the
shell cuts it (`Built`). What a piece means read alone is the hypothesis; that
no piece changes how another is read, in any order and number, is the theorem.
`QuotedFits` shows of the pieces that matter most, strings, that the hypothesis
is met whatever they hold.

`ShellInv` says that what the shell has collected is a piece of its input that
starts at a cut, and that the statements run so far, the ones of the buffer
being run and those `splitSQL` finds in the rest from the cut are together the
ones wanted. That a cut preserves this is `SplitsBack`. The rest of the proof is
about lines, buffers and positions (`NextLine`, `RightCut` and the lemmas around
them) and holds for text of any length.

Two groups of theorems stand beside the properties of the runs. One says what
the code does keep where a violation run shows a promise broken: no statement
twice on a clean database, one writer until `Close`, no connection after a
`Close` that raced with no dial, `Unsubscribe` apart from resubscription, and
the shell on pieces without a line that closes a statement early. The other is what is safety in a liveness
property, for every value of the constants and any number of faults, and leaves
to TLC only that the steps are taken:

| liveness property | what is proved of it |
|---|---|
| `HealthyNodesFinish` | `HealthyFailsByFault`: nothing but a crash, a lost message or a `once` statement that has run takes such a node out of `Run`; on a clean database only the first two (`CleanFailsByFault`) |
| `Reconnects`, `StopsAfterClose` | `NobodyStuck`: the mutex is never left locked, the connector ends only for a closed client, and a connection `Close` took away is about to be hung up |
| `Reported` | `OutcomeDelivered`: a goroutine that is over has told the server, was refused, or met six failures |
| `KeyArrives` | `AsksTillItHasKeys`: a process with keys to come from core asks until it has some |
| `LockFreed` | `Expiring`, `NeverRenewed`: a taken lock has an end, and its time only falls |
| `AllProcessed` | `NothingLost`: a message that was given out is pending until it has been worked on or is trimmed, and an unbounded channel trims none |

Only model-checked: the liveness properties (`HealthyNodesFinish`,
`Reconnects`, `StopsAfterClose`, `Reported`, `WaitersEnd`, `KeyArrives`,
`LockFreed`, `AllProcessed`), which are out of the prover's reach. `WaitersEnd`
has no safety part but its types: that a wait ends rests on the deadline. Every
invariant and every action property of the runs that pass is a theorem as well.

## Disagreements between the code and its documentation

Five, each shown by a violation run and quoted in `PROJECT.json` under
`findings`: repair is neither atomic nor exclusive (`migrator_repair_race`);
a resubscription from a stale snapshot undoes an `Unsubscribe`
(`pubsub_unsubscribe`); the write in `Close` without the mutex
(`pubsub_close_write`); the dial that survives `Close` (`pubsub_close_dial`); the
shell that cuts a trigger (`shell_trigger`).

Conditions under which the code does not keep a property, named in the sections
above and excluded by an assumption, a constant, a history variable or an alternative of
the property: two files
with one version (`DistinctVersions`), a `once` statement that has run without
its row (`Stuck`), a call that races with its channel's resubscription (`raced`),
a request without a bound that hangs (`hung`, `Bounded`), two callers of one channel
(`OwnChannels`), a lock released too late (`MinLeft`), a time to live below a
second (`Timely`), two processes that create the key at once or cannot read it
(`overlap`, `misread`), messages that are trimmed (`trimmed`), and overlapping
invocations of `migrate new`, an unreadable directory, or a file that comes after
the reading (`together`, `read`, `seen`).

## Not modelled

Left out of the modelled parts: the texts of SQL, names, payloads and logs; the
lengths of pauses, backoffs and timeouts except where a property compares them;
the server's side beyond what the client can see of it. A peer that never reads
blocks `send`, and with it every call, for as long as TCP allows: `PubSubWS`
assumes that a write ends. Of `pubsub_ws.go` also `On`, `emit` and the delivery
of messages to callbacks: which messages the server sends, and again after a
reconnection, is not in this repository. Of `driver.go` queries, which change
nothing, and the cache of shared clients. Of `cache.go` the methods that make
one request each, and `HashRef.Del`, which makes one per field.

Not modelled at all: the service registry, the cluster's force-active and the
RPC methods, which keep no state and whose rules are the server's; rendering and
locale, which are pure and reached by unit tests; the identity test signer; the
cryptography itself.

What could follow: the messages and cursors of `PubSubWS` with their
acknowledgements; queries of the SQL driver, which do not see the statements
buffered in their transaction; block comments and `CASE ... END` in the
splitter.
