# dap-cli-go: TLA+ models, checks and proofs

`dap` is a command-line debugger client for debugpy. A command (`dap attach`,
`dap pause`, ...) finds the daemon of its project or starts one, sends it one
request over TCP, and waits for a session snapshot that shows the effect. The
daemon keeps one debug session: it speaks DAP with an adapter, which it reaches
over a connection (*connect* mode) or runs as a child process (*listen* mode),
and broadcasts snapshots of the session to all CLIs.

The models follow the source at the lines that `PROJECT.json` gives under
`map`. Paths below are relative to the repository.

## 1. Inventory

### Daemon: debug session -- `internal/daemon/app.go`

State: `App.dap`, `adapterConn`, `adapterCmd`, `adapterWaitDone`,
`pendingAttach`, `startupPhase`, `pauseAfterThreads`, guarded in principle by
`dapMu`. Operations: `StartAttach`, `StopSession`, `Shutdown`, the `debug.*` and
`breakpoint.*` requests; `dapReader` (one goroutine per session), the goroutine
around `cmd.Wait` (listen mode), `stderrReader`.

Hard: four accesses go around `dapMu` -- `ensureActiveAdapter` and the send that
follows it, `a.dap.Read()` in the reader's loop, `close(a.adapterWaitDone)` in the
waiter, and `pauseAfterThreads` in `debug.pause`. Readers and waiters of old
sessions live on while the next session runs, held off only by a comparison of
SessionIDs. The handshake with the adapter (initialize, attach,
configurationDone) is spread over three messages and two flags.

Correct when: a message, an end of stream or a reaped process affects only the
session it belongs to; each adapter gets its handshake in order, and gets all of
it; no program is paused unless somebody asked for a pause in its session, once for each time; no adapter is left connected
or running unowned; an App without adapter says so; `dapMu` is always released;
nothing a session does ends the daemon.

### Daemon: session store -- `internal/daemon/session.go`, `internal/model/model.go`

State: one `SessionSnapshot` under its own mutex, and the map of clients.
Operations: `Update`, `Reset`, `AttachClient`, `DetachClient`, `Record*`.

Hard: `Snapshot().Extra` is the session's own map, to which handlers and the
reader write without the mutex; snapshots on their way to a CLI share the maps
inside it. Lists are read, changed and written back in two calls. `Update` merges
keys, so that a handler that began before a `Reset` brings old ones along.
Responses are matched by command name.

Correct when: what is shown belongs to this session and to the request it is
shown for; histories keep the newest items in order; breakpoints shown as verified are
set in the adapter, and those it set are listed; a chunk of output is filed under the session that printed it.

### Daemon: IPC server and clients -- `app.go` (`Serve`, `Handle`, `Broadcast`), `handler.go`

State: the set of handlers under `App.mu`, a `sendMu` per handler. Operations:
accept, hello, request, broadcast, unregister. Hard: `Broadcast` takes the
snapshot first and sends it later, from several goroutines, some holding
`dapMu`; a failing send unregisters, which broadcasts again from inside the first
broadcast; the CLI's own handler unregisters it at the same time. Correct when:
each request gets one response; the recursion ends; a client that went away is
forgotten in both places that know it; `dapMu` comes back.

### DAP client -- `internal/dapclient/client.go`

A framed reader without lock, a writer with one. Correct when two goroutines
never read one stream at once.

### Endpoint discovery -- `internal/endpoint`, `EnsureDaemon` in `internal/cli/client.go`

State: a file per project (host, port, token, PID), written by `Serve` after
`net.Listen` and removed by its deferred function; processes. Operations:
`Read`, `verifyEndpoint`, spawn, poll for 8 s, `Write` (truncate, then write),
`Remove`. Hard: several CLIs and daemons with nothing but a file between them;
crashes leave the file; ports are reused. Correct when: a project has one
daemon, and the file leads to it.

### Project root -- `FindProjectRoot`, `EndpointPath`, `ProjectKey`; `connectApp`, `daemonCommand`

No state but the file system: a root is found from `--root` or the working
directory and resolved again by whoever it is handed to -- twice in the CLI, once
in the daemon, which works in another directory, and once more when the daemon
removes its file. Hard: relative roots, symbolic links, markers that appear while
a daemon runs, keys that drop the separators. Correct when all of them mean the
same project, and the same file.

### CLI: waiting and printing -- `internal/cli/client.go`, `root.go`

State: the latest snapshot, the last 500 messages, a condition variable.
Operations: `readerLoop`, `requestWait`, `waitForSnapshot`, `RunCommand`,
`Latest*`. Hard: a command ends on a snapshot that "changed" and satisfies a
predicate, not on its response; many goroutines of the daemon produce snapshots;
a snapshot does not say whose question it answers. Correct when: a command fails
only for its own refusal, reports a state newer than the one it began with, always
returns, and prints the answer to what it asked.

### Not modelled

- IPC envelope and codec (one struct in msgpack; that it encodes shared maps late
  is in `SessionData` and `Inspection`), value conversions, logging, `main`:
  sequential, without state the other parts depend on.
- Flag parsing, the shell's line parser and rendering: text layout.
- The values of threads, frames, scopes and variables, thread events, `process`
  events: stored as they come; `Inspection` keeps whose answer they are.
- The options of an attach (`parseAttach`, `connectOrListen`, `attachArguments`):
  data handed through.
- `RecordEvent`, which is `RecordOutput` for a list that only the reader writes;
  `RecordProtocol`, `NewInfo` and `Reachable`, which nothing calls.

## 2. Modules

| module | models | its properties are checked in |
| --- | --- | --- |
| `SessionEpochs` | what the daemon promises about sessions (abstract) | as `FollowsEpochs` |
| `DebugSession` | the debug session and all its goroutines | `MCDebugSession_*.cfg` |
| `SessionData` | what a session knows, and who overwrites it | `MCSessionData_*.cfg` |
| `ClientRegistry` | the CLIs a daemon knows, and nested broadcasts | `MCClientRegistry_registry.cfg` |
| `EndpointDiscovery` | CLIs, daemons and the endpoint file | `MCEndpointDiscovery_*.cfg` |
| `ProjectRoot` | which project and which file a command means | `MCProjectRoot_root.cfg` |
| `CommandWait` | one CLI connection, from request to return | `MCCommandWait_command.cfg` |
| `Inspection` | what the commands that look at the program print | `MCInspection_*.cfg` |
| `DebugSessionProofs`, `DebugSessionCommands` | theorems about `DebugSession`: sessions and adapters; what adapters are asked | TLAPS |
| `SessionDataProofs`, `ClientRegistryProofs`, `EndpointDiscoveryProofs`, `CommandWaitProofs`, `InspectionProofs`, `ProjectRootProofs` | theorems about these six | TLAPS |

The `MC*` modules add symmetry sets and the small file tree of `ProjectRoot`.
Definitions whose comment begins with *Mutant* are the code with a plausible bug
put in; each property is known to fail when one of them replaces its original.
The modules overlap at the seams only: `DebugSession` has the locks and the
adapter but no data, `SessionData` the data with an attach as one step,
`ClientRegistry` the connections with no data, `CommandWait` one connection with
versions and lifecycles, `Inspection` the data a CLI waits for with no wire.

### DebugSession

Sessions are numbered in the order of `session.Reset`; the client, connection,
process and channel that belong to session *g* are all denoted by *g*, nil by 0.

| variable | code |
| --- | --- |
| `app`, `dapMu` | the fields of `App` and their mutex |
| `session` | SessionID, Lifecycle, and whether `knownThreadID` finds a thread |
| `pc`, `call` | where each handler goroutine and the accept loop stand |
| `reader`, `waiter` | the goroutines of each session, with the client a reader loaded |
| `closed` | `adapterWaitDone` channels already closed |
| `link`, `inbox`, `adapter` | the stream to each adapter, and what the adapter was asked |
| `listening`, `daemon` | the listener; the process, or the panic that ended it |
| `pauses` | history: pauses asked for and written, by session |

An action is the code between two points where another goroutine can tell the
difference. Requests that send one command take three steps, none in `dapMu`:
`EnsureActiveAdapter`, `SelectThread`, `SendCommand`. `StartAttach` holds `dapMu` over
`AttachResets` (connection closed, process killed), `AttachBegins` (after the wait of
at most 5 s: a.dap is nil, new SessionID) and `AttachFails` or `AttachSucceeds`.
`StopSession` is `StopRequested`, `StopSevers`, `StopFinishes`; `Shutdown` adds
`CloseServer`, after which `Serve` runs `StopSession` once more. The reader loads `a.dap`
(`ReaderLoads`, `ReaderFindsNil`), reads (`ReaderReceives`, `ReaderTears`, `ReaderEnds`)
and handles under `dapMu` (`ReaderApplies`, `ReaderStale`, `ReaderFinalizes`).

Two undefined behaviours are choices: two readers inside one `bufio.Reader` may
tear a frame (`ReaderTears`), and unlocked reads see the current value.
Left out: the data (`SessionData`, `Inspection`) and the broadcasts
(`ClientRegistry`, `CommandWait`).

A pause is asked for when `debug.pause` passes `ensureActiveAdapter`, and of the session
that is then current or about to begin: the command goes to whatever `a.dap` holds later. What
is still on its way when a session begins is therefore moved to that session
(`PausesMove`); a flag that `resetForNewSession` clears is not.

### SessionData

Go maps are objects: `extra[g]` is the `Extra` made for session *g*, `evals[r]` the map
that evaluate request *r* put under `last_evaluate`. A handler's query is
`Begins` (the session looked at), `Writes` (the note in the shared map), `Updates` and
`Sends`; breakpoint requests send first and store later (`StoresBreakpoints`). The reader
takes an answer and what it will write back (`EvaluationArrives`, `EmptyArrives`), and
stores it (`StoresEvaluation`, `StoresClearing`); it holds `dapMu`, so that an attach, one step
here, does not come between. The adapter may carry out a breakpoint request, answer a set with
a breakpoint that is not verified (`BreakpointsArrive`), or fail, which lists nothing and is
treated as an answer to a clear (`EmptyArrives`); `armed` is what it has. Each session
has a `stderrReader` that reads, compares the SessionID (`StderrReads`) and records
(`StderrRecords`). `past` is history: which
kinds of request overlapped, which updates were lost, what was printed, and whether the last
breakpoint request was refused. A step that
lets two goroutines use one map, one of them writing, may end in a `MapFault`.

### ClientRegistry

`registered` is `App.clients`, `listed` the clients of the Session, `named` whose handler
has its `clientID`. `frames[g]` is the stack of broadcasts goroutine *g* is in: each frame
has the handlers still to be sent to, and a send to a CLI that is gone pushes a frame.
`unread` counts the envelopes in a connection, at most `Buffer`; `Send` waits for room.
`sendMu` is not modelled: who waits for it waits for the same room.

### EndpointDiscovery

A daemon and the endpoint it publishes are one number; `port` is its port, which a later
daemon may get again, of this project or of another (`Strangers`). Whoever accepts the
connection answers only if the token is its own (`Answers`); but a connection is registered
before its token is looked at, and `NewClientApp` takes any snapshot for the answer, so that
a broadcast of a daemon that has seen CLIs (`visited`) verifies the endpoint of another, or
of none of this project (`Overheard`). The file has an inode, so that a daemon whose file was removed
between open and write writes into nothing, and two daemons may garble one text.
Timeouts that strike although the attempt would succeed are counted
(`MaxTimeouts`), and so are crashes. A CLI gives up for free only when no daemon
is starting and the file leads to none.

### ProjectRoot

A path is a sequence of names, and a name a sequence of words, since `ProjectKey` turns
separators into underscores: `/a/b` and `/a_b` have the same words. `Abs` works on text as
`filepath.Abs` does (`Clean`), `Real` follows links (`Walk`), `FindProjectRoot` does either as the
code does: a path that does not exist still leads to a marker above its text, and only without
one does `EvalSymlinks` fail, and the command with it. Each goes along a path by a recursive function of the index. A command `Resolves` its
root, `Connects` or `Spawns` a daemon with `--root` and `--endpoint`; the daemon resolves again
when it starts and when it stops; a marker may appear in between (`Marks`). Commands run
one after the other; their races are those of `EndpointDiscovery`.

### CommandWait

A snapshot is its number of changes and its lifecycle. Broadcasters come in two
kinds, those that hold `dapMu` from the change to the last send (`Lockers`) and those
that do not (`Touchers`, and the handler's own answers). The loop of `requestWait`
is `Looks`: own error, predicate, deadline, sleep, in this order. The hello of
`NewClientApp` is command 0. Predicates over other
data than the lifecycle are those of `Inspection`.

### Inspection

Each CLI runs one command, and data are modelled by whose answer they are:
`session.data[k]` says which CLIs' answers of kind *k* the session holds. Handlers note
(`HandlesNoted`), update, send, and answer; the reader records (`Records`), fills the shared
maps (`Fills`), updates and broadcasts (`Stores`), and broadcasts once more (`TellsAgain`).
`Encoded` is where sharing shows: whether `last_evaluate` is complete, and which variables
there are, is read when the envelope leaves. `Satisfied` has the predicates of `RunCommand`,
`Prints` the second look of `LatestScopes`, `LatestVariables` and `LatestEvalResult`.
Envelopes arrive as they are sent: what a CLI does before it reads one is as if
done before it was sent, so nothing is lost by having no wire.
`disturbed`, `answered` and `ended` are history, forgotten when the command ends.

## 3. Runs

| run | bounds | shows |
| --- | --- | --- |
| `reattach` | 2 handlers, 3 sessions, 3 requests, 1 event | handshake in order, no more pauses of a session than were asked for in it, messages stay in their session, a detached App says so, refinement of `SessionEpochs` |
| `modes` | 2 sessions, both modes, shutdown, continue | no abandoned adapter; "exited" only when the own adapter is gone |
| `liveness` | 2 sessions, 2 requests, no events | `dapMu` is released, the handshake completes, the end is noticed |
| `survive` | 1 session, 3 requests | **violated**: an attach and a stop, with or without a debug command, may panic the daemon |
| `data` | 2 handlers, 2 sessions, 2 requests, 2 chunks of output, 1 event or refusal, histories of 2 | answers, launch data, output and breakpoints are those of the session and the request |
| `registry` | 2 CLIs, 1 request, 1 event, connections of 1 | recursion bounded, CLIs forgotten, `dapMu` returned, requests served |
| `races` | 2 CLIs, 3 daemons, 3 commands, 1 crash, 1 timeout | only another daemon cuts a daemon off; only a crash leaves a stale file |
| `sequential` | 1 CLI, 4 commands, 2 crashes | one daemon; commands get connected |
| `undiscoverable` | 2 CLIs, 2 daemons, 2 commands, no crash | **violated**: a daemon that serves and is not found |
| `root` | 2 commands, 5 directories, a file and a link; 1 marker and 1 later | one project, one daemon, one file; failures have a reason |
| `command` | 2 commands, 2 other broadcasters, 2 messages kept | own refusals only, newer snapshots, every command returns |
| `inspect` | 1 CLI, each kind of command, 1 event | a command prints its answer, and does not miss it |

Why the bounds are enough: what goes wrong between sessions needs an old one and
a new one, so two sessions, and one request more than attach requests to stop in
between; `reattach` has a third, since a handshake out of order takes the readers of
two older sessions, one for each message they must not see; two handlers, because `dapMu` admits one at a time and the other plays
everybody else. One event and an inbox of one or two suffice to have a message
in flight at each step of an attach or stop; the adapter's answers and its end
are not counted. The liveness run has two sessions, so that a reader of the first
can get at the client of the second, and two requests: one ends the other's.
Three daemons are a stale one, its successor and a rival. Two commands are needed
for a message of the first to reach the second. In `data` a lost update needs a
reader and one other writer, a mixed-up answer two requests of a kind, and a
dropped item a history one shorter than what is recorded. In `registry` a buffer of
one is the smallest that can be full, and two CLIs let each be gone while the other
is told; the theorems have every number. The tree of `root` has paths through a
link, a file behind it as `--root`, paths that do not exist, absolute and
relative, a `..` whose text leads elsewhere than the directories do, a relative path that means
something else one directory further down, and two directories with one key. In `inspect` the reader,
with its own requests after a stop, is the second actor. Two CLIs take too many
states for all kinds of command; how their queries overlap in the session is in `data`,
and `PrintsItsAnswer` claims nothing once others have changed the session.

`CHECK_DEADLOCK FALSE` everywhere: the runs end when the budgets are used up, the
daemon exited, or died.

### Fairness

`DebugSession!FairSpec`: goroutines run and mutexes are handed on, so the steps of
handlers in progress, readers, waiters and `Serve` are weakly fair; an adapter that
is alive answers what it was asked and announces itself. Nobody has to issue a
request, to emit an event or to end. A goroutine that waits for `dapMu` needs no
more than weak fairness for the properties checked: requests are finite, so that
the mutex is not taken for ever by others.
Two things are assumed that the code does not enforce: a broadcast made under `dapMu`
returns, and so does a command written to the adapter under it. Neither has a deadline, so
a CLI or an adapter that stays connected and never reads can
hold `dapMu` for ever; `LockReleased` is about the paths of the
code itself. The waits it has a deadline for, the dial and the 5 seconds `StartAttach` and
`StopSession` give the process while its waiter may want `dapMu` itself, are steps that end
whatever the others do.
`ClientRegistry!FairSpec` makes that assumption where it belongs: goroutines run, and a
CLI that is there reads (`readerLoop` does nothing else). Nobody has to connect, to ask or
to leave.
`EndpointDiscovery!FairSpec`: processes run. `CommandWait!FairSpec`: the waiting
command runs when woken, and its timer expires; nothing is assumed of the daemon
or of the network.

## 4. What the checks found

Two runs show behaviours that contradict what the repository's README says of the
program; `PROJECT.json` has the lines.

- `survive`: `dapReader` uses `a.dap` (app.go:464), the waiter closes
  `a.adapterWaitDone` (app.go:452) and a debug command takes `a.dap` after
  `ensureActiveAdapter` looked at it (app.go:702), all without `dapMu`; a stop sets both to
  nil. The run has all three, and TLC stops at the shortest.
- `undiscoverable`: two commands may each start a daemon (client.go:101), and a daemon on
  its way out removes its successor's file (app.go:86).

Three more follow from the models without a run of their own. Maps inside a snapshot
are filled in (app.go:634, 280, 327) while others encode or copy them, for which the Go
runtime may end the daemon: `MapFault` in `SessionData`, which a single evaluation reaches.
The same sharing without a fault makes the response to `debug.evaluate` show the evaluation
complete before its result is stored, so that `dap eval` may print nothing or an older
result: `Informed` in `Inspection` keeps it out of `PrintsItsAnswer`. And `dap vars` may print
the variables of another reference, as any change ends its wait and any answer the
session has is printed (client.go:213, 393); `PrintsItsAnswer` says no more of it than that.

The passing properties name their exceptions, which are behaviours of the code as
well. After a malformed frame `finalizeAdapterExit` neither closes the connection nor kills
the process (`NoAbandonedAdapter`). A failed attach leaves "initializing", and a message
applied after a stop revives the lifecycle (`DetachedIsOver`). If the reader of an older
session takes the response to initialize, configurationDone may go out without attach
(`HandshakeInOrder`), and the second attach may never get past initialize
(`HandshakeCompletes`). Answers and broadcasts outside `dapMu` may overtake newer ones
(`NewerThanBaseline`). Overlapping queries of a kind show each other's answers, a query
that spans an attach brings the old session's keys along, and what `stderrReader` records
while the reader rewrites `recent_output` is lost (`AnswersItsRequest`, `ExtraIsOwn`,
`OutputKept`); so are breakpoints stored in that way, and what a refused
`breakpoint.set` asked for stays in the list, unverified (`BreakpointsAgree`). Links, relative
roots, markers that appear late and underscores lead to another project's endpoint, or to
none (the four properties of `ProjectRoot`). A change by others before the own answer ends
a command with older data (`PrintsItsAnswer`), and a failed `threads` or `scopes` is reported as a
timeout (`TimesOutUnanswered`).

## 5. Proofs

Every safety invariant and action property of the passing runs is a theorem for every value
of the constants; only liveness is left to TLC. Assumptions are those named
in the component's module. Each proof has one lemma per action or group of actions for
each part of the inductive invariant, and combines them.

### DebugSession

`DebugSessionProofs` proves, for every set of handlers and every value of the bounds:

- `TypeCorrect`: `Spec => []TypeOK`;
- `OwnMessages`: `Spec => OwnMessagesOnly`;
- `Refinement`: `Spec => FollowsEpochs`, the refinement of `SessionEpochs`;
- `Invariance`: the inductive invariant they rest on.

None of these is inductive alone. That a message is applied only to its own
session needs that a reader's client is never older than the reader's session
and never newer than the current one (`ReaderInv`); then the SessionID check
leaves only equality. That in turn needs `a.dap` to be nil or of the current
session (`ClientInv`), although `StartAttach` changes the SessionID and `a.dap` in
different steps: between them only the holder of `dapMu` acts (`LockInv`), and the
session being opened has no reader and no link yet (`FutureInv`).
`IInv` is the conjunction of these with `TypeOK`. `Refinement` adds that
`Phase` moves only from fresh to attached to over within a session.

The second half proves `NothingAbandoned` (`NoAbandonedAdapter`), `DetachedOver`
(`DetachedIsOver`) and `OnlyWhenGone` (`ExitedOnlyWhenGone`). They are about moments when
`dapMu` is free, and so not inductive: the invariants say what holds while a handler is in
the middle. `HeldInv` follows every open link: it is in a field of App, and the fields are
nil once what they held is closed, or it was dropped after a malformed message. `GoneInv`
says what a reader that gave up, or a waiter past `cmd.Wait`, proves about the adapter;
`OverInv` is `DetachedIsOver` without the lock.

`DebugSessionCommands` proves `OnlyAskedPauses` (`PausesAreAsked`) and `HandshakeOrder`
(`HandshakeInOrder`). The first counts, session by session: the pauses sent and, in the
session that is current or about to begin, the pause that `pauseAfterThreads`
stands for and the handlers on their way to ask for one are together no more than the pauses
asked for in it (`PauseInv`). Handlers are counted, so that their set is assumed finite
(`HandlersAssumption`). The second follows the handshake: the two flags, what is in the
inbox and in the hand of a reader determine how much the adapter was asked (`Stage`, `Said`),
or the reader of an older session holds the message that is missing.

### SessionData

`SessionDataProofs` proves `ShowsItsAnswer` (`AnswersItsRequest`), `OwnExtra` (`ExtraIsOwn`) and
`ListsWhatIsSet` (`BreakpointsAgree`). A response does not say which request it answers, so
that the invariant follows the requests: they have numbers of their own (`IdsInv`); as long
as none overlapped, one request of a kind is with its handler or with the adapter (`Lone`),
and is the one the session noted (`Followed`). `KeysInv` says what each map holds, `FreshInv` that
nobody fills in the record of a request before it is made, and `ListedInv` relates
the list of breakpoints to what the adapter has, to the request it has still to answer, or, for a
clear that was answered before it was stored, to what is about to be listed (`ClearedEarly`).

`KeepsOutput` (`OutputKept`) and `OneChunkAstray` (`OneStrayChunk`) rest on a second invariant,
`HistoryInv`. An evaluation is filtered out of what the reader had read, which is not
`RecentOutput` any more if a stderrReader came between: without the chunks of stderrReaders
the two still are suffixes of one history (`KeptInv`). This needs that filters commute
(`WithoutCommutes`) and keep suffixes (`WithoutOfSuffix`), for lists of any length. `Without`
is therefore stated by the ranks of the items that stay and not with `SelectSeq`, of
which the prover knows nothing; `WithoutAppend` shows that it is the loop of the code. The
induction is done with the least list for which a statement fails (`Least`). `StrayInv` says of
each other session that at most one chunk of it is filed, and none while its stderrReader holds one.

### Inspection

`InspectionProofs` proves, with any number of CLIs running commands of any kind at once,
`OwnAnswer` (`PrintsItsAnswer`) and `NoNeedlessTimeout` (`TimesOutUnanswered`). A command decides by
the version of a snapshot and its data, so that the invariant says of every snapshot what it
shows of a request that nobody disturbed: of the session (`SessionInv`), of those on their
way (`CarryingInv`) and of the one the CLI holds (`ViewInv`). Those that are as new as the answer
show it (`Holds`); those that are newer than the baseline and older than the answer were
sent by the reader only after a change by the handler, and then do not satisfy the command's
predicate (`Early`). `RequestInv` and `RecordInv` say that a request is asked, answered and
recorded once, `VersionsInv` that no snapshot is newer than the session, and `EndedInv` that the second
look comes no earlier than the first. `Traced` is the core of the argument: each step
either belongs to the request of *c*, or leaves its part of the session alone, or counts as a disturbance.

### ProjectRoot

`ProjectRootProofs` proves, for every tree that satisfies `TreeAssumption`, every place and
every `--root`, `CommandFindsItsProject` (`FindsItsProject`), `ProjectHasOneDaemon`
(`OneDaemonPerProject`), `EndpointIsThere` (`EndpointWhileServing`) and `FailureHasReason`
(`FailsWithReason`), in three layers.

What the functions compute on a path of any length comes first. The prover has no induction
theorem it could instantiate, so `Induct` states induction over `0..n` for a set instead of a
predicate, from the well-foundedness of `<`; `WalkAppend`, `CleanAppend` and the rest follow
from it. The lemmas that matter: the text of a path says where it leads if no link is met
on the way (`TextWalk`); what `EvalSymlinks` leaves of a relative path has the same text and
leads to the same place (`CleanClean`, `WalkClean`); a real path followed by the rest of the text
goes through the directories the text names, up to its end (`Climb`); paths without
underscores have different keys (`WordsInjective`).

Then what a root is. The root of a command is resolved once more by the CLI, for the name of
the file, and by the daemon where the daemon runs; this may lead on to another directory (a
marker above the target of a link), but both arrive at the same one, and a further resolution
changes nothing (`Settled`, `Served`), nor does a marker that does not overtake the command (`Stable`).
What does not exist of a path has no markers, so that the search is that of the part which does
(`Existing`, `PathMarks`). If the text of the path goes by directories, the last marker that
the search meets is the nearest above the subject (`NearestMark`), and the key is that of the project
(`KeyOfProject`).

Last, the invariant. The properties compare a command with the daemon it reached, which may
be another command's, through nothing but a file name. `CommandInv` keeps the root of a command
equal to what `FindProjectRoot` would say now, `DaemonInv` the daemon's root and file equal to what its
command would ask for, `EndpointInv` that a file names the daemon which wrote it, `ConnectedInv`
that the daemon reached has the key of the command. `ServingInv` says that a file is there exactly
while its daemon serves, which needs that nobody who starts a daemon finds one of that key, and
holds only while all roots mean the same to everybody; `PollInv` and `FailInv` say what a command
that waits, or gave up, may count on. All but the types, which are infinite sets, were checked by
TLC on the instance of `root` as well.

### The other components

`EndpointDiscoveryProofs` proves, for any number of CLIs, daemons, crashes and timeouts:

- `TypeCorrect`, `CutOff` (`CutOffOnlyByAnother`) and `Stale` (`StaleOnlyByCrash`);
- `SequentialCommands`: `Spec => []OneDaemon` if one terminal runs its commands one after the
  other, with no shutdown, no start that times out, and no daemon of another project at a
  port used again.

That a daemon which serves is named by the file needs what holds while it writes: it
opened the file (`OpenedInv`), and the file is the one it opened and empty, unless
another daemon opened it too (`WritingInv`); whom the file names has not withdrawn it
(`NamedInv`). `OneDaemon` alone is not inductive, as a command decides to spawn some steps
before the daemon is there: `AloneInv` says that at most one daemon is alive and where the
file stands meanwhile, `KnowsInv` that a command which is about to spawn, or found no
daemon, is right.

`CommandWaitProofs` proves, for any number of goroutines, commands and kept messages,
`TypeCorrect`, `Refusals` (`RefusedForItsOwn`) and `Newer` (`NewerThanBaseline`). Refusals rest on
`RefusalInv`: an error, wherever it is on its way, is the refusal of its request. `Newer`
rests on `OrderInv`: envelopes sent in `dapMu` are on the wire, and in the hand of the one who
holds it, in the order of their versions, none newer than the session, and all of them
ahead of what the CLI has seen (`Ahead`).

`ClientRegistryProofs` proves, for any finite set of CLIs and any buffer, `TypeCorrect`,
`Nesting` (`RecursionBounded`) and `Listed` (`ListedHasHandler`). A stack of broadcasts is no
deeper than there are CLIs because each frame but the innermost waits at a CLI of its
own that is already out of `App.clients` (`StacksOK`): the frames map one-to-one into the
set of CLIs. That no CLI stays listed needs that a listed one is named, or about to be
(`NamedInv`), since only a named handler detaches it.

### Only model-checked

The liveness properties (`LockReleased`, `HandshakeCompletes`, `EndIsNoticed`, `Connects`, `LockReturns`,
  `Departed`, `RequestsServed`, `CommandReturns`): liveness and ENABLED are out of the prover's reach. The two
runs that expect a violation have no theorem: what they check is false.

## 6. Plan

Done, in this order: `DebugSession` with `SessionEpochs` and theorems; `EndpointDiscovery`,
`CommandWait` and their theorems; `SessionData`; `ClientRegistry` and its theorems;
`ProjectRoot`; `Inspection`.

Then the proofs: the rest of `DebugSession`, `SessionData`, `Inspection`, `ProjectRoot`.

Left: `Inspection` with two CLIs for every kind of command in one run. The theorems about it
have any number of CLIs; the run has one.
