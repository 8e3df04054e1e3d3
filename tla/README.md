# Aetronyx in TLA+

Aetronyx runs a coding agent over a *spec*: it plans with a language model, lets
the model edit the workspace through tools, runs the spec's test contracts, and
repeats until they pass or a limit is reached. What it does is recorded in a
SQLite database and in a signed, hash-linked audit log; a local HTTP server
streams it. This directory holds a TLA+ model of the parts that are hard to
test, the TLC configurations that check them, and TLAPS proofs of what matters
most. Every definition is written from the Go code; `PROJECT.json` maps each to
its lines.

## 1. The system

| Component (`src/`) | State | Operations | Talks to | Model |
|---|---|---|---|---|
| Run loop (`internal/agent/engine.go`, `loop.go`, `loop_iter.go`, `states.go`, `cmd/aetronyx/run.go`) | the position in the run, iteration number, deadline, cancelled context | create, blast radius, plan, iterate, dispatch tools, verify, terminate / fail / cancel / halt | store, audit engine, model, workspace, test commands | `AgentRun`, `RunLifecycle` |
| Audit chain (`internal/audit/engine.go`, `chain.go`, `replay.go`, `store/audit.go`) | `audit_events`, a mutex per run, the ULID generator | `Emit`, `VerifyRun` | store, wall clock | `AuditChain`, `AuditLog` |
| Event bus and SSE (`internal/server/events_bus.go`, `sse.go`) | subscriber lists, channel buffers | `Publish`, `Subscribe`, unsubscribe, `StreamRun` | publishers, HTTP clients | `EventBus` |
| HTTP server (`internal/server/http.go`, `middleware.go`, `ws.go`, `cmd/aetronyx/serve.go`) | listener, connections, the goroutines of each WebSocket | bind, accept, middleware, upgrade, graceful shutdown | the bus, clients, signals | `Serve` |
| LLM streaming (`internal/llm/*/stream.go`) | a goroutine, its channel, accumulated text | `StreamComplete`, `drainStream`, `send` | provider, caller | `LlmStream` |
| Context builder (`internal/agent/context.go`) | entries and their token estimate | `Add`, eviction, `Build` | run loop | `ContextBuilder` |
| Tools and test commands (`internal/agent/tools.go`, `loop_iter.go`) | files, `sh` processes and their pipes | write (temp file, rename), read, list, shell, test contracts | run loop, other runs, the operating system | `Workspace`, `Shell` |
| Store (`internal/store`) | tables `runs`, `iterations`, `file_changes`, ... | open and migrate, inserts, updates | SQLite, other processes | opening in `DataDir`, writes in `AgentRun` and `Workspace` |
| Keys and token (`internal/audit/keys.go`, `internal/server/auth.go`) | three files in the data directory | load or generate | file system, other processes | `DataDir` |
| Repository graph (`internal/repo`, `cmd/aetronyx/spec.go`) | a graph of files | validate patterns, build, resolve imports, compute the blast radius | file system | `BlastRadius` |
| Configuration (`internal/config`, `cmd/aetronyx/root.go`, `serve.go`) | one `Config`, its warnings | merge five sources, create the data directory, validate | files, environment, flags | `ConfigLoad` |
| Requests, errors, prices (`internal/llm`) | none | translate, classify, price | providers | no: stateless |
| Ollama model list (`internal/llm/ollama/client.go`) | a cache | `Models` | provider | no: one caller, a test |
| Plan text, other commands, telemetry, placeholders | - | - | - | no: text, I/O, or empty |

What is hard here: a signal, a deadline or a crash between any two writes of a
run; writes whose errors are dropped; goroutines that share a chain, a clock or
a channel; a list used after its lock was released; readers that are slower than
writers; eviction at a limit; two runs that share a temporary file; a command
that ends as its deadline passes; a shutdown while streams are open; a map that
is iterated in any order; a value that means something else at each step of a
merge. `PROJECT.json` lists each at its line, with the properties that would catch
it going wrong.

Every definition that models code is listed under `map` in `PROJECT.json` with
its file and lines. The map covers about two fifths of the Go code that is not
tests; section 14 says what is left out and why, and what comes next.

### How the parts interact

`aetronyx run` parses the spec file, opens the store, loads the signing key and
calls `Engine.Run`. From there one goroutine does everything: it writes rows
through the store, emits events through the audit engine, asks the model
through an adapter, applies the tool calls in the answer to the workspace, and
runs the test commands. The process is disturbed from outside by a signal (which
cancels one context that every later database write, model call and test command
takes), by the clock (a deadline looked at between iterations) and by its own
death. `aetronyx serve` reads the same database from another process and streams
what is published on its event bus to HTTP clients; no publisher is written yet.
The modules follow these seams: `AgentRun` has the loop and every write it makes, in the order it makes
them; `AuditChain` opens up the single step "emit an event" of `AgentRun` into
the statements of `Engine.Emit`; `ContextBuilder` opens up what the loop feeds to
the model; `LlmStream` and `EventBus` are the two places with goroutines and
channels, and `Serve` puts the bus into the process that owns it; `Workspace`
opens up the tool calls and the test commands of `AgentRun`, with several runs in
one workspace, and takes the commands themselves from `Shell`; `ConfigLoad` and
`DataDir` are what comes before all of them, the configuration and several
processes that open the same directory; `BlastRadius` is the first phase of a
run, and a command of its own.

### What makes each part correct

- **Run loop.** The row and the log of a run are true at every moment, whichever
  write failed and wherever the process stopped: *completed* only if the tests
  passed in the last iteration, *halted_max_iters* only if the budget was really
  used up, one terminal event and nothing after it, no row for a file that was
  not written. The run ends.
- **Audit chain.** The chain of an untouched run verifies at every moment, with
  any number of emitters; an edited row and a gap are reported where they are; a
  `nil` from `Emit` means the event is durable; the run's mutex is never left
  held.
- **Event bus.** A channel is listed exactly while it is open; nothing is
  reordered, repeated or sent to another run's client, and nobody is skipped; a
  payload is dropped only for a client that is a buffer behind; neither a slow
  client nor a busy publisher holds the other up.
- **HTTP server.** A shutdown ends the process; the goroutines of a connection end
  with their client.
- **Workspace.** A file is at every moment a whole version of what a successful
  write asked for; `file_changes` replays it; what is returned
  of a command, and logged, is what happened to it, and within its time. (The model
  hears less: see section 9.)
- **Repository graph.** The importers of the files a spec names are found,
  whatever an ambiguous import resolves to; the report has the files its patterns
  name, and no others. (A pattern of a directory is valid and names none.)
- **Configuration.** The highest source that has a value wins, and what a file says
  is used, overruled or warned of, in both cases with exceptions (section 11); what
  does not validate is served only from a flag of `serve`.
- **LLM stream.** No text is lost to a slow caller; the final response agrees
  with the deltas, and comes last if the provider said that the response was over;
  an error the reader is told of is passed on; the goroutine ends.
- **Context builder.** The context is within its limit after every `Add`; the
  spec and the plan survive, and of the rest the newest; nothing is evicted that
  fits.
- **Data directory.** Processes that do not generate at the same time hold the
  same key, and the same token unless one could not read it, whichever of them died
  or failed to write; a migration is
  committed once, with its record, in order; a directory left by processes that
  came one after the other can be opened.

## 2. The run loop: `AgentRun`, `RunLifecycle`

`pc` is the statement about to execute. A step of the model is one statement of
the code that reads or changes something outside the process; pure computation
between two of them belongs to the step before. `row`, `iters`, `changes` are the
rows of `runs`, `iterations` and `file_changes` that belong to the run, `log` its
audit events, `writes` what happened to the workspace, and `results` a history of
all test results.

| Actions | Code |
|---|---|
| `CreateRun`, `EmitCreated` | `Engine.createRun` and the event after it (`engine.go`) |
| `SkipBlastRadius` .. `EmitBlastRadius` | `phaseBlastRadius` (`loop.go`) |
| `EnterPlanning` .. `PlanIteration` | `phasePlanning` |
| `LoopEnds`, `LoopHaltsOnTime`, `LoopCancels`, `LoopIterates`, `NotPassed` | the loop of `phaseIterate` |
| `EnterIterating` .. `EmitCompleted` | `runOneIteration` (`loop_iter.go`) |
| `NextTool` .. `ToolDone` | `dispatchToolUse`, `recordFileWrite` |
| `EnterVerifying` .. `Passed` | `phaseVerify` |
| `CompleteRun`, `EmitTerminal`, `Fail`, `Cancel`, `HaltTime`, ... | `terminate`, `fail`, `cancel`, `haltTime` |
| `Signal`, `Deadline`, `Crash` | the environment, between any two steps |

Three shapes recur. `MustMove` is a status write whose error ends the run,
`TryMove` and `Report` are the writes whose errors the code drops. All of them
go through `Persists` and `Refused`: a write under a cancelled context is always
refused, one under a live context may be, at most `MaxFaults` times.

What is abstracted: a tool call is what it did to the workspace (wrote, read,
neither); a model response is the number of its tool calls; a test command
passes or fails, and fails when the context is cancelled. Files written for the
reader's convenience (`plan.md`, `blast-radius.json`) are left out.

`RunLifecycle` says the same run in seven actions over what a reader of the
database sees: status, iteration numbers, and whether the process is there.
`ImplementsLifecycle` is the refinement, with `status <- row.status`,
`begun <- DOMAIN iters`, `limit <- MaxIterations`, `over <- Over`.

## 3. The audit chain: `AuditChain`, `AuditLog`

Each emitter goes through the statements of `Emit`: `Lock`, `LoadPrev`, `Build`
(which also reads the clock), `Make` (the ULID, under the generator's own lock),
`Insert`, `Unlock`. The generator is process-wide: within a millisecond it counts
on, otherwise it starts from a random value, `Entropy`. `table` is a *set*: its
only order is that of the ids, exactly as `ORDER BY id` reads it back. Each step
that has an error path may take it; an insert may also be written and reported
as failed. `VerifyRun` is an operator on the table, the loop of `replay.go`: the
first event that does not link, hash or verify.

SHA-256 and Ed25519 are injective here. Canonical JSON is a payload that
serialises or one of `Unserialisable`.

`AuditLog` is the promise: one sequence per run, and a call that appends at most
once, at one moment between its start and its answer, which is `nil` only if it
did. `ImplementsAuditLog` maps
the table, read in id order, to that sequence; it fails as soon as an event can
sort anywhere but at the end.

## 4. The event bus: `EventBus`

`Copy` is the critical section of `Publish` that copies the subscriber list;
`Send`, one per channel, and `Finish` come after the lock is released. `Subscribe`
and `Unsubscribe` are the other two critical sections; each handler runs the
select loop of `StreamRun`: `Receive`, `Done`. `Panic` is a send on a channel
that was closed meanwhile. In Go a send on a closed channel panics even in a
select with a default, and on its caller's goroutine. Nothing in `src/` calls
`Publish` yet except tests, so publishers are modelled as goroutines of their
own, whose panic ends the process (`RecoveryMiddleware` catches only what an HTTP
handler raises). Heartbeats change nothing and are left
out.

`Overstay` is the other way for a stream to end: `New` sets a `ReadTimeout` of 30
seconds (`http.go:62`), and when it passes, `net/http` cancels the request's
context, on which `StreamRun` selects. So a stream ends with its client still
there, and the comment of `sse.go:12`, "until the client disconnects", holds only
of the handler mounted without that server. `Done` is enabled by either cause.

`owed` and `lost` are history variables: what `Publish` copied and has not tried
yet, and the streams that a full buffer has cost a payload.

## 5. The server: `Serve`

`Serve` extends `EventBus` by everything around it: each handler of the bus is
now a request, and `StreamRun(h)` is a step of the bus taken by a request that
was accepted.

| Actions | Code |
|---|---|
| `Bind`, `BindFails`, `Accept` | `Server.Start`, `http.Server` |
| `Killed`, `Notify`, `ServerError`, `BeginShutdown`, `Drained`, `DrainTimesOut` | `serveCmd` and `Server.Shutdown` (`serve.go`, `http.go`) |
| `StreamRun`, `RefuseHandler` | `StreamRun` (`sse.go`), the middleware |
| `Upgrade`, `ReadEnds`, `SocketReturns` | `WebSocket`, `wsReadLoop` (`ws.go`) |
| `Publish`, `Leave` | publishers, clients that go |

`process` says how the process ended. A signal before `signal.Notify` kills it;
later it waits in a channel until the select takes it. Shutdown may come while
the port is still being bound: then `ListenAndServe` returns at once. Shutdown
waits for streams, which their clients or `ReadTimeout` end, and not for
WebSockets, whose connections are hijacked. That it succeeded therefore does not
mean that every client got all it was waiting for.

`plain` is chosen at the start. `LoggingMiddleware` wraps the writer in a type
that is neither a `Flusher` nor a `Hijacker`; with it, as `New` builds the server,
`StreamRun` panics before it subscribes and is answered 500, and no upgrade
succeeds. The tests mount the handlers bare (`plain`), which is the case in which
anything happens.

## 6. The LLM stream: `LlmStream`

One model for the three providers, which differ in what ends a response:
`ReadStop` (Anthropic's `message_stop`, Ollama's `done`), `Exhausted` (the end of
the body, which finishes OpenAI's response and nobody else's), `ReadMalformed`
(Ollama). `Handle` names the events a chunk makes the reader send; `Send` is the
`send` helper, which waits for room or for a cancelled context. The caller may
receive slowly, stop, or cancel. A piece of text is its position in the response.

What the properties can say is limited by the code. `adapter.go:21` and
`anthropic/stream.go:14` promise a channel that is closed after an end event or an
error event; but when the body merely ends before the provider's last chunk, Anthropic and Ollama close the channel with
neither, and OpenAI sends its final response as if the text were whole.
`TextIsComplete` asks for the final response exactly where the provider (for
OpenAI, the end of the body) said that the response was over, and names the
silent ending; `FailureIsReported` is about errors the reader is told of, after
which OpenAI's channel may hold an end and then an error.

## 7. The context builder: `ContextBuilder`

`Add` appends, then `Evict` is one turn of `evictIfNeeded` and `Added` the end of
its loop. `AddSpec` .. `AddFeedback` call it in the order `phasePlanning`,
`runOneIteration` and `phaseVerify` do. Lengths are in bytes; `Tokens` is the
estimate of the code, four bytes to a token and one at least. Output that is
larger than the room beside the pinned entries is evicted by its own `Add`, so the
next iteration does not see it; `FeedbackSurvivesIfItFits` is what remains.

## 8. The data directory: `DataDir`

`Phases` is what each command opens, in its order: `run` loads the key, opens the
store and loads the key again; `serve` loads the key and the token before the
store; `audit` opens the store alone. A process goes through its phases statement
by statement:

| Actions | Code |
|---|---|
| `StatKey`, `LoadKey`, `Generate`, `WriteKey` | `LoadOrGenerate`, `loadPrivate`, `generate` (`audit/keys.go`) |
| `ReadToken`, `WriteToken` | `LoadOrGenerateToken` (`server/auth.go`) |
| `OpenStore`, `Check`, `Execute`, `Record`, `Commit` | `Open`, `runMigrations` (`store/db.go`) |
| `Start`, `Die` | a command begins; a process ends, by itself or not |

`os.WriteFile` is two steps, `Truncate` and `Fill`, so that a death or another
process may come in between; a fill may also fail, which fails the command, and
so may a read. What a failing read does differs: the key's fails the command, but
`LoadOrGenerateToken` takes any error of `os.ReadFile` for a missing file and
writes a new token over the one that is there (`auth.go:21`). A
secret is a number, new with each generation; a file holds one, nothing, or does
not exist. The check of a migration is outside of its transaction, as in the
code; the transaction takes SQLite's single write lock with its first write, and
the primary key of `schema_migrations` is what stops the second of two processes
that passed the check together.

History variables qualify the properties. `overlapped` has the secrets that
somebody looked for while somebody else was generating them: then the code does
not make processes agree, and `SecretsAgree` says nothing. `superseded` has the
servers whose token a later one could not read and replaced: their token, alone, is
then not the one on disk. `torn` is set when a death or a failed write left the
token's file truncated: only then does a process serve with an empty token, which
no later one repairs. `disturbed` is set when two processes were opening at once, a
read or a write failed, or a death left an empty private key file, which no later
process repairs; without it `OpensAgain` says that no command fails. A server with
an empty token has opened, although no `Authorization` header then matches its
token.

## 9. Tools and commands: `Workspace`, `Shell`

`Shell` is a command under its context: `sh -c`, the context's watcher, the
pipes.

| Actions | Code |
|---|---|
| `RunShell`, `RunTestCommand` | `runShell` with its timeout, `runTestCommand` without one |
| `Start`, `Kill`, `Reap`, `PipesClosed` | `exec.Cmd` (external): `Start`, the watcher, `Wait` |
| `Judge` | what the two callers make of the error |
| `Exit`, `Expire`, `Signal`, `BackgroundEnds` | the command, the clock, the user, processes left behind |

Cancelling kills `sh` alone, and `Wait` has no `WaitDelay`, so a process left in
the background that has the output keeps the call waiting (`held`). The result of a
tool whose command could not be started, because its context was already done or
there is no `sh`, has exit code 0; `ShellResultIsTrue` says so.

`result` is what `runShell` and `runTestCommand` return, and for a tool what its
`tool.result` event logs; `told` is what reaches the model, which is less.
`dispatchToolUse` (`loop_iter.go:96-101`) passes on the error or the standard
output: the exit code and the standard error of a command that failed before its
deadline are dropped, and the model sees its output as it would a successful one's.
`ShellResultIsTrue` requires of `told` only what the code gives it: a timeout, an
unknown tool, and a test that did not succeed.

`Workspace` has several runs on one directory. A name leads to an inode and an
inode to a content, because two runs that write one path share its fixed
`path.tmp`, and a reader may have a file open while it is replaced.

| Actions | Code |
|---|---|
| `WriteFile`, `RefuseWrite` | the checks of `writeFile`, `resolvePath` (`tools.go`) |
| `OpenTmp`, `Fill`, `Rename`, `RemoveTmp` | `os.WriteFile` to the temporary name, `os.Rename`, and the removal when that fails |
| `HashBefore`, `Insert` | `recordFileWrite` (`loop_iter.go`), which takes `before_hash` when the write is over |
| `ReadFile`, `ReadOpened` | `readFile` |
| `RunCommand`, `Drive`, `CommandDone`, `Outside` | a command of `Shell` and its environment |
| `Die` | the process ends |

`overlapped` has the paths that two calls wrote at once: there one run renames
what another has half written, and the properties say nothing. `lost` has the
paths whose last write has no row, because the insert failed or the process died
before it. Commands are taken to change none of the files that calls write:
`HistoryReplays` is about the history of `write_file`, and a file that `run_shell`
rewrites has no row.

## 10. The blast radius: `BlastRadius`

`Validate` is rule 9 of the spec validator, which `aetronyx spec blast-radius`
applies and a run does not; `Build` walks the workspace, `AddImportEdge` resolves
one import, `ComputeBlastRadius` makes the report. A path, an import as it is
written and a pattern are sequences of components; what the code does to the text
of a component (`Stem`, `EndsWith`, `Tests`) comes in as constants. `moduleName` is
what `go.mod` says, or nothing: `Candidates` takes it off an import before it looks
for a file or a directory, but compares names with the import as it stands.

Go iterates over a map in no particular order, so an import that several nodes
match is resolved to any of them: `AddImportEdge` chooses. This is what makes
`ImportersAreFound` more than its definition: it has an upper and a lower bound,
and where they meet the report is the same in every build. Between them lies what
the code leaves to chance, which the property allows and a user may not expect: a
package of several files stands for one of its files, a name of the standard
library matches a file of that name (`context` and `context.go`), a Go test of the
same package imports nothing and is not found.

The validator reads a pattern with `filepath.Join` and `Glob`, the report with
`filepath.Match` and the end of the text, and they differ where the documentation
does not expect it. `internal/auth/` (`docs/reference/spec-format.md:95`,
`examples/refactor-auth.spec.yaml:37`) is valid, because the directory is there,
and puts none of the files in it in the report; so do a directory without the
slash, and `./x`. `NamedFilesAreCovered` says both halves: a pattern that is
written as `filepath.Join` leaves it covers each file it names, and a file is in
the direct set only for a pattern whose last component is its name or a wildcard,
or that is an end of its name. Absolute patterns and `..` are left out of the model.

## 11. Configuration: `ConfigLoad`

One key is followed from the defaults to the server, for every key there is:
`ReadHome`, `ReadLocal`, `fillDefaults`, `mergeEnv`, `mergeFlags`,
`ensureDataDir`, `Validate` are `Load` in its order, `Override` is what `serve`
does with its own flags afterwards. Every source is chosen at the start, with the
values the code tells apart: absent, the zero of the type, the default, another
one, one that does not validate, a text that is no value at all.

`Absent` is a flag that is not on the command line; `FlagValue` is what the code
reads of it, which is then cobra's default. The code cannot tell the two apart, and
this is where it leaves both of its own descriptions: `discovery.go:14` gives the
order flags, environment, files, defaults, and `serve.go:32` says "Override config
with flags if provided"; but `port > 0` and `host != ""` are true of the defaults,
and `root.go` passes the defaults of its logging flags to `Load`. So a value of
`server.port`, `server.host`, `logging.level` or `logging.format` in a file or in
the environment is never used while its flag is not given, without a warning.
(`--port 0` is a way to get the configured port.) `LoadIsLayered` and
`WarnedOrUsed` name this case, `Preempted`, as an exception; no run refutes the
comments separately.

The second exception is a file that is there and cannot be read: any error of
`os.ReadFile` counts as a missing file (`discovery.go:24` and `34`), also without a
warning. `WarnedOrUsed` is about files only. In the environment a number that does
not parse is ignored without a warning, and any text that is not a known truth
value is false.

Also accounted for: `audit.enabled: false` in a file becomes `true`, and only the
environment can turn it off; a zero in the workspace's file resets a value of the
home file to the default; the flags of `serve` are not validated. `--config` is not
read by `Load` and has no place in the model.

## 12. What the runs check

| Run | Instance | Distinct states | Shows |
|---|---|---|---|
| `agent_run` | four spec files, one tool call per response, one failing write | 372,895 | the properties of the run loop, its refinement of `RunLifecycle`, and that it ends |
| `audit_chain` | two emitters, one run, two payloads and one that does not serialise, two milliseconds, three calls | 70,078 | chain soundness, location of corruption, durability, the refinement of `AuditLog`, no mutex left held |
| `serve` | two publishers, two requests, two runs, a buffer of one, two messages | 180,026 | consistency of the lists, order, nothing forgotten, loss only with a backlog, a shutdown that ends, nobody held up |
| `llm_stream` | three providers, a channel of one, four chunks | 56,936 | completeness of the text and of the ending, no leaked goroutine |
| `context_builder` | a limit of 6 tokens, entries of 1, 2 and 5, two iterations, two tool results each | 295,197 | what eviction keeps, and that it evicts no more and no less than needed |
| `data_dir` | two processes of any command, two migrations, three starts, one failing read or write | 934,193 | agreement on secrets, migrations once and in order, the directory opens again |
| `workspace` | two runs, one file, three calls, one command at a time, one failing call, one death, one signal | 329,817 | whole versions, the history replays, true results of commands and what the model hears of them, commands return |
| `blast_radius` | 392 workspaces of seven files, with `go.mod` and without, nine specs | 625,584 | importers found whatever ambiguity resolves to, the files a spec names covered and no others |
| `config` | all 39 keys, every combination of five sources | 682,294 | precedence and its exceptions, the two ways a text is lost in silence, what is served is valid |

Three more runs each refute one sentence that a comment or a test states and the
code does not keep:

| Run | Sentence | What the counterexample shows |
|---|---|---|
| `agent_cancel` | `loop.go:205`, "cancel transitions the run to StateCancelled" | `cancel` writes with the context whose cancellation brought it there; the row keeps its working status |
| `audit_two_runs` | `audit/engine.go:54`, "the chain remains serial even under concurrent callers" | `ulid.Make` reads the clock before it takes its lock; with an event of another run in between, an id sorts before its predecessor and an untouched chain fails to verify |
| `bus_panic` | `events_bus.go:27`, a full buffer drops and "never blocks"; `sse_test.go:152`, "without panicking" | a publisher sends on a channel that was closed after it copied the list |

Further facts that no run is spent on: the loop does not consult the adjacency map
of `states.go:24` and makes transitions that are not in it; the cost limit of a
spec (`budget.max_cost_usd`) is read by no statement of the loop, and
`WithinBudget` is what bounds the calls of the model; each `UpdateRunCost`
replaces the totals of the run by those of one response.

Every property of a passing run has a mutant in `PROJECT.json`: a plausible slip
in one definition (a dropped guard, a missing return, a wrong index) that makes
TLC find the property violated under the same configuration.

### Bounds

- `MaxBlocks`, tool calls in a response: the loop over them is the same for each,
  and the file written is told apart by its number. One makes the loop run zero
  or one times in each of two iterations.
- `MaxFaults`, writes that fail under a live context: one is enough to separate a
  row from its event and to end a run at any statement; a cancelled context
  gives unboundedly many more.
- Spec files: with and without dependencies, with no, one and two contracts, with
  one and two iterations, with a deadline, and with the negative budget that
  `aetronyx run` lets through.
- `MaxClock`, `Entropy`, `MaxCalls` of `AuditChain`: three events make a first, a
  middle and a last one; two milliseconds and two random values are what it takes
  for an id to fall before or after another in both ways. The clock does not step
  back.
- `subBufferSize` 1 with two messages: the second overflows. The invariants are
  proved for every buffer and every number of messages.
- `MaxChunks` 4 with a channel of one: text, text, tool call, stop, and the
  channel full on the way.
- `MaxStarts` 3 with two processes: two that overlap, and a third start that finds
  what they left. `Migrations` 2, one more than there is today, so that there is
  an order to keep.
- Token lengths 1, 2 and 5 against 6: one entry that leaves room for nothing
  much, and small ones that fit beside it; exact equality with the limit occurs.
- `Workspace` with two runs and one file: paths do not touch each other, so a
  second file only adds states. Three calls are a write that leaves a temporary
  file behind, a write that finds it, and a reader. `MaxCommands` 1: commands of
  two runs share nothing. Timeouts: missing, ordinary, above the maximum,
  negative.
- `MCBlastRadius`: a package of two files with a test, a directory below it, a
  name that two files share, `vendor`, a file that does not parse, a module name
  or none; each of four files imports one of several sets, with and without the
  module's name. The specs have a full path, a wildcard, a suffix, `./`, `.`,
  directories with a slash, and a pattern that finds nothing.

`CHECK_DEADLOCK FALSE` is in every configuration because every one of these
systems stops: the run is over, the calls or messages are used up, the stream is
closed, the process has ended, the report is made. That nobody waits for ever in
between is what the liveness properties say.

### Fairness

- `AgentRun`: weak fairness of the run's own steps together. The process is
  scheduled; a model call has an HTTP client behind it and answers or errs; test
  commands end, which the code does not enforce (`Workspace` looks at that). No
  fairness for signals, the deadline or crashes.
- `AuditChain`: weak fairness of each emitter. `Lock` is not always enabled, but
  Go's mutex does not starve a waiter, and with finitely many calls an emitter
  that waits is alone at last, so weak fairness gives the same.
- `Serve`: goroutines go on while they can (each publisher, each handler, each
  reader of a socket, `serveCmd`), and a port that is tried is bound or refused.
  Clients need do nothing, so `NobodyIsHeldUp` really is about slow clients. A
  handler whose client is gone keeps that select case ready; Go chooses at random
  among ready cases, so it is not passed over for ever. `DrainTimesOut` is part of
  `serveCmd`'s fairness: ten seconds pass.
- `LlmStream`: weak fairness of the goroutine's sends and of a caller that still
  reads. The provider need not answer, except that a cancelled context aborts a
  pending read.
- `Workspace`: a live process goes on, its context's watcher included, and the
  clock reaches every deadline. Commands need not end, signals need not come, and
  processes in the background may keep the pipes for ever: `CommandsReturn` is
  stated up to that.
- `ContextBuilder`, `DataDir`, `BlastRadius` and `ConfigLoad` have no liveness
  property and no fairness. In `DataDir` whoever waits for SQLite's lock gives up
  after five seconds.

## 13. What is proved

TLC checks the instances above; TLAPS proves, for every value of the constants,
every invariant that a passing run checks, and both refinements. What is assumed
are the named assumptions of the modules: constants are of the right shape, and
bounds are natural numbers. The bounds being arbitrary, the theorems hold of
unbounded runs. `OneRun`, below, is the only hypothesis beyond these.

**`AgentRunProofs`.** `TypeCorrect` is `TypeOK`. `Inductive` is

    IInv == TypeOK /\ ControlInv /\ LoopInv /\ ResultsInv /\ OutcomeInv /\ StatusInv /\ LogInv

and from it follow `CompletedVerified`, `HaltedExhausted` and `LogCloses`, the
properties `CompletedMeansVerified`, `HaltedMeansExhausted` and
`TerminalEventIsLast`. None of the three is inductive alone. That a completed row
stands for passed tests needs `OutcomeInv`, because the status was decided before
it was written; that needs `ResultsInv`, what the results collected so far say
while the contracts are still being run; and that needs `LoopInv`, which ties the
iteration number to the rows there are at each statement. `StatusInv` says where
the row may be terminal, so that no later write can contradict it. `LogInv` adds
to the log property that the run is over, which is what an `Append` contradicts.
The step proofs have one step per action; `Signal`, `Deadline` and `Crash` are
among them, so the theorems cover interruption at any point, and `Refused` covers
any number of failing writes.

On top of `IInv`, `RecordsInductive` proves

    RInv == SpentInv /\ RunningInv /\ FilesInv /\ StageInv /\ AgreeInv

and from it `Budgeted`, `FilesFaithful` and `RecordsTell` (the properties
`WithinBudget`, `FileHistoryIsFaithful` and `RecordsAgree`). `SpentInv` counts the
model calls against the iteration rows at each statement, `RunningInv` says which
rows may still be running, `FilesInv` where the one write without a row may be,
`StageInv` gives the status of the row at each statement, and `AgreeInv` says that
the row, the last event and the value returned tell the same story from the
statement on that decides it.
`LifecycleImplemented` is the refinement of `RunLifecycle`: the status of the row
moves only as the abstract run does. Its delicate part is `cancel`, which never
settles anything because a cancelled context refuses the write.

**`AuditChainProofs`.** `TypeCorrect` holds for any number of runs; it carries
along that ids are unique, without which "the last event" would not be one.
`ChainInductive`, `ChainSound` and `NilDurable` assume `OneRun`, that all callers
emit into the same run, as one `aetronyx run` does. The assumption is needed:
`audit_two_runs` is a counterexample without it. The invariant
says that the mutex excludes (`Mutex`), that an id about to be used follows
everything in the table and the clock reading follows the last id (`Monotonic`),
that the hash loaded is still the last one (`Linked`), that the chain verifies
(`Sound`), that a call which has not inserted has no `nil` to answer (`Pending`), and that an
answered event stays. `InsertSound` is the step that matters: adding the newest
event disturbs no older one.

`DamageIsLocated` (`CorruptionIsLocated`) is about tables, not steps: a table that
verifies and whose ids are unique is a chain, so an edited payload breaks the
row's own hash and no other, and a missing row breaks the link of the next.
That the loop of `VerifyRun` stops at a first event needs that a finite set of
ids has a least one. `AuditLogImplemented` is the refinement of `AuditLog`, also
for one run. The sequence it promises is the table by rank, the number of earlier
events; `Monotonic` gives the new event the highest rank, so an insert is an append,
and unlocking is the answer.

**`DataDirProofs`.** `TypeCorrect`; `MigrationsOnce`, the property
`MigratedOnce`, for any number of processes, starts, deaths and migrations. Each
process carries the knowledge that all migrations before its own are recorded
(`Placed`), which gives the order; a process in a transaction holds the write lock
alone, and past its INSERT its version is not recorded yet (`Serial`), which gives
the once. The step proofs go through one lemma, `Elsewhere`: a step that moves one
process outside of a transaction disturbs nobody, whatever it does to files.

`SecretsAlwaysAgree` needs `KeyInv` and `TokenInv`: while nobody overlaps, at most
one process is between its look and its last write, it knows what it finds on
disk at each statement in between, and the draft of whoever is past the private
key's `Fill` is the private key. A serve that could not read the token puts every
holder in `superseded` at that step, before it writes anything, so that nothing is
claimed of them while the file changes; an empty file that nobody is about to fill
means `torn`. `AlwaysOpensAgain` needs `OpenInv`: while nothing
disturbs, at most one process is opening, an empty private key file has a process
that is about to fill it, and what it looks for is there when it comes to read it.

**`ServeProofs`.** `ServeInductive` is

    Inv == ServeTypeOK /\ ListInv /\ CopyInv /\ OrderInv /\ OwedInv /\ LossNeedsBacklog

for any number of publishers, requests and runs, any buffer size and any number of
messages, from `EventBusAssumption`; `ServeTypes`, `ListsAreOpen`, `Ordered`,
`NobodyPassedOver` and `OnlyTheSlowLose` follow. A publisher works on a copy of the
list that is stale as soon as it is made, so the order of what a client gets needs
`CopyInv`, that a copy has each channel once and only channels that subscribed to
its run, and the rest of `OrderInv`, that whoever is still to get a message has
none of its publisher as new as that one. `OwedInv` needs that a channel is never
opened again. `LossNeedsBacklog` is inductive beside the others: a channel that was
full has its payloads in the buffer or with the client, and neither forgets. The
steps of the server that leave the bus alone are dealt with once
(`Steps`), and those of the bus that deliver nothing once (`NothingNew`).

**`WorkspaceProofs`.** `ResultsAreTrue` (`ShellResultIsTrue`) follows from `Sound`,
what the error of `Wait` says of the child and the context between `Reap` and
`Judge`, while the context may still expire. `AlwaysWholeVersions` and
`HistoryAlwaysReplays` are about names, inodes and contents. `InodesInv` says that
two paths never share an inode, whatever was opened before a rename: so writers of
other paths do no harm. `Tidy` says of a path that one call at a time writes that
the writer has the temporary inode to itself until its rename, and that readers
have others. `Settled` is what makes the set of failed writes, which still grows,
harmless: a version that can be seen belongs to a call that can no longer fail.
`HistoryInv` is the property with the one exception it needs, a call between its
rename and its row.

The same module has the other part that works on a workspace's files.
`ImportersAlwaysFound` and `NamedFilesAlwaysCovered` are about `BlastRadius`, for
any workspaces, specs, module names and text of paths; `BlastAssumption` only says
that paths and patterns have a component (a pattern of none has no last one). `GraphInv` says that each
import is still to be resolved, or has an edge to one of its candidates, or needs
none, and that no edge has another reason.

**`LlmStreamProofs`.** `NoTextIsLost` and `FailuresAreReported`, for every response
and every channel size. The invariants speak of `Pending`, what is in the channel
followed by what the goroutine has in hand, because the property alone says
nothing of a chunk that was read and is not sent yet: `TextInv` says that `Pending`
is in order and complete as long as nobody cancels, and that no text follows an
end event; `EndInv` says which position of the goroutine goes with which ending;
`ErrorInv` that an error event goes with a failure or a cancellation.

**`ConfigLoadProofs`.** `SourcesAreLayered`, `FilesAreHeeded` and
`OnlyFlagsEvadeValidate`, for any set of keys and with the exceptions their
properties name: `LoadInv` gives the value at each
step of `Load` as a function of the sources alone (`AfterHome` .. `AfterServe`), and
the properties are then about these functions.

**`ContextBuilderProofs`.** `PinnedAndNewestStay`, `EvictionIsExact` and
`FeedbackReachesTheModel`, for any limit and lengths. `EntriesInv` is the cut: what
is left of all that was added is the pinned entries and those behind a position,
which an eviction moves to the entry it takes. From it follows that the newest
evicted entry is the last that was evicted (`NoMoreInv`), and that the entry added
last is evicted only when no other unpinned one is left, which is why feedback
survives whenever it fits. `TotalInv` needs that the sum over a sequence changes
by one element when that element is appended or removed.

Sums over sequences, ranks in a table and first rows would be proved by induction;
the library's induction theorems cannot be used here, because they take an
operator as a parameter. `LeastNatural` takes their place: a set of natural
numbers that is not empty has a least element, so a statement that fails fails for
a least number, which the step then contradicts.

The proofs changed the models in places. `KeysAssumption` had to say that the two
special texts of `ConfigLoad` are none of its values, and that they differ. A few
properties say the same as before in a form that can be reasoned about, by
positions instead of filtered sequences (`TextIsComplete`, `HistoryReplays`,
`KeepsPinnedAndNewest`, `EvictsExactly`, `FeedbackSurvivesIfItFits`).

Only model-checked are the liveness properties (`Returns`, `EmitReturns`,
`ShutdownEnds`, `NobodyIsHeldUp`, `GoroutineEnds`, `CommandsReturn`): liveness under
fairness and `ENABLED` are beyond this prover.

## 14. What is not modelled, and the plan

Not modelled:

- translation of requests and responses, classification of errors, prices
  (`internal/llm`): stateless, without interleaving;
- the cache of the Ollama model list: filled outside its lock, but only a test
  calls `Models`, so there is no second caller;
- prompts, the parser of plans, Markdown of audit exports: text to text;
- the extraction of imports and symbols by tree-sitter queries: `BlastRadius`
  starts from the imports of a file;
- `apply.go` (`WriteFile`, `ValidatePath`) and `InsertToolCall`: nothing but tests
  calls them;
- the other rules of the spec validator: each looks at one field and at no state;
- output of commands, telemetry (an external library), placeholder packages
  (empty).

What is left to do:

1. Abstract specifications of more components, with their refinement: the
   workspace as a store of whole versions, the data directory as one pair of
   secrets and a sequence of migrations, the stream as text that ends once.
2. The chain of several runs, under what keeps it sound: that no clock reading is
   overtaken between `ulid.Make`'s two steps.
3. Type correctness of `ContextBuilder`, `ConfigLoad` and `BlastRadius` as
   theorems; the proofs have what they need of it as lemmas.
