# axterm in TLA+

axterm is a desktop terminal. Its *runtime* (`packages/runtime`) is a Node.js
process that owns SSH connections, terminals, tunnels and file transfers and
serves them over HTTP and WebSockets to a renderer; an Electron main process
(`apps/desktop/src/main`) supervises it and gives it host capabilities. This
directory specifies the runtime's core services, checks the specifications with
TLC and proves theorems about them with TLAPS.

All code of the runtime runs on one thread. What makes it hard is `await`: between
two awaits a handler runs alone, and at each of them every other handler, timer
and callback may run. So in every module *an action is what one handler does from
one await to the next*, with all the calls it makes in between.

## 1. Inventory

`PROJECT.json` lists every part with its sources and whether it is modelled. The
parts that carry logic of their own:

| Part | State | Operations | Talks to | Hard because |
|---|---|---|---|---|
| SSH connections (`connection-service.ts`, `ssh2-transport.ts`, `proxy-service.ts`) | `ManagedConnection`: metadata, handles per hop, abort controller, reconnect timer and counter | create, connect, onClose, recover, cancelReconnect, close, retry, closeAll | interactions, host grants, settings, tunnels and transfers through `onClose` | close and recover overtake each other at every await; late handles; timers |
| SSH tunnels (`tunnel-service.ts`) | `ManagedTunnel`: server or remote forwarding, sockets, listener on the connection; receipts | start, close, failForConnectionClose, traffic | connections | resources appear after their owner has gone |
| File transfers (`transfer-service.ts`) | `active`, `requests`, `running`; rows; receipts | create, retry, cancel, pause, resume, decideConflict, clearCompleted, closeAll | connections, host grants, repository | a pool of workers on shared channels; user calls between any two chunks; restarts |
| Terminal sessions (`terminal-service.ts`, `terminal-output-flow.ts`, `terminal-recording.ts`) | channel, sockets with output windows, replay ring, cursors, recording, startup sequence | create, attach, input, acknowledge, recording, close | connections, shells, terminal transfers, triggers | three owners of one pause; replay against live output |
| Terminal file transfers (`terminal-transfer-service.ts`, xmodem, zmodem, trzsz) | state and selection timer per terminal | perform, receive, onEvent, closed | terminals, stage journal | check, await, act; a timer against an answer |
| Stage journal (`owned-stage-journal.ts`) | owned stages, on disk | prepare, seal, clear, review, remove | file system | a crash between any two steps |
| Interactions (`interaction-service.ts`) | pending questions with timers | request, respond, cancel, close | connections | an answer against a timeout and a closed connection |
| AI runs (`ai-service.ts`, `ai-tool-service.ts`) | runs, tool calls, approvals, waiters | start, decideApproval, cancel, close | terminals, SFTP, model providers | approval against expiry, cancel and restart |
| Remote desktops (`vnc-`, `rdp-`, `spice-session-service.ts`) | sessions, claim of credentials, relay | create, claim, attach, close | connections, proxies | limit and claim across awaits |
| Batch operations (`batch-operation-service.ts`) | `active`, `running`; a row per operation with its targets and steps; receipts | create, cancel, clearCompleted, closeAll | connections, bookmarks | workers with failures, aborts and a connection each; restarts |
| Data synchronisation (`data-sync-service.ts`) | running operation and run state per profile, pending preview | upload, preview, commit, cancel, tick | sync providers | commit and cancel beside a running operation |
| Runtime supervisor (`runtime-supervisor.ts`) | child, generation, restart timer | start, message, exit, stop | child process | events of an old child |

The rest (records in SQLite, parsers, adapters of one socket, the renderer,
generated code) is listed in `PROJECT.json` with the reason why it is not
modelled. What makes the main parts correct:

- *connections*: one `connect()` at a time; ready means usable; closed stays
  closed; no grant, timer or SSH client outlives its connection; hops close from
  the target back; a reconnect is always decided.
- *tunnels*: a listener and a channel have an owner; a released tunnel holds
  nothing; one key, one tunnel; `close()` is final and completes.
- *transfers*: handles outlive the streams on them; a success is complete; the
  first cause decides the outcome; pausing and conflicts agree with the gate that
  holds the chunks; rows and running transfers agree across crashes; a failed row
  is retried once.
- *terminals*: viewers see one log in order, and chunks pass a viewer silently only
  while its socket is slow; a cursor covers only what was consumed; the channel is
  paused while an owner wants it and resumed afterwards.
- *AI runs*: a command runs at most once and only with its consent; what is over is
  not taken back; the rows of a run agree; a terminal is always given back.
- *stages*: what the runtime leaves on a user's disk has a row, and only that is
  ever removed.
- *batch operations*: steps run in order, connections are closed, rows tell what
  happened, a cancel ends the operation.

## 2. Modules

| Module | Models | State |
|---|---|---|
| `SshConnection` | the life of connections with jump hosts | `state`, `transports`, `flows` (calls of connect), `jobs` (recover, close, retry), `timer`, ... |
| `Tunnel` | tunnels of one connection and their peers | `state`, `live`, `server`, `bound`, `sockets`, `releases`, `receipts`, ... |
| `Transfer` | transfers, their workers and restarts | `state`, `run`, `work`, `active`, `requests`, `parts`, ... |
| `TerminalOutput` | output of one terminal, its viewers and its recordings | `recent`, `sockets`, `cursor`, `source`, `writer`, ... |
| `TerminalView` | what viewers are promised (abstract) | `length`, `pos`, `mark`, `held`, `missing` |
| `AiRun` | AI runs with their tool calls and approvals | `db` (rows), `mem` (tasks), `target`, `life` |
| `StageJournal` | received files, their stages and the journal | `disk`, `row`, `recv`, ... |
| `BatchOperation` | batch operations, their targets and workers | `state`, `target`, `step`, `work`, `conn`, `active`, ... |
| `MC...` | one per module: the constants of the runs | - |
| `SshConnectionProofs`, `TunnelProofs`, `TransferProofs`, `AiRunProofs`, `StageJournalProofs`, `BatchOperationProofs` | theorems about the module of that name | - |
| `TerminalPauseProofs`, `TerminalOutputProofs` | theorems about `TerminalOutput`: its pause; its viewers and `TerminalView` | - |

The modules use one another only through a small interface: what `Tunnel` and
`Transfer` know of a connection is whether `handle()` answers and that `onClose`
listeners run when it ends (`conn`). In `SshConnection` these are the states
`ready` and the notice of the target's client.

### SshConnection

`connect()` is a *flow* with a stage per await: `grant` (read the private key),
`revoke`/`revokeFailed` (give it back), `route` (a proxied host), `secrets` (the
other credentials), `handshake` (`transport.connect`), `forward` (the channel to
the next hop) and `discard` (closing a handle that arrived after `close()`).
`recover()`, `close()` and `retry()` are *jobs*; a job waits for the handles it took,
one after the other. `FlowXxx` actions move a flow, `JobXxx`, `RecoverDone`,
`CloseDone` and `RetryDone` a job, `TransportClosed` is an SSH client whose
`close` event runs the listeners (`Notices`), `TimerFires` the reconnect timer.
`Create`, `Close`, `CancelReconnect` and `UpdateSettings` are the user's calls.
`countdown` is the `nextReconnectAt` of the managed record, `announced` that of the
metadata it last published: `transition()` copies the one into the other.

Choices: what a dialog, a host key or a server answers is nondeterministic, a flow
may fail at each await. The branch that discards a late *successful* handle exists
because the port `SshTransport` allows it. `RecoverDone`, `CloseDone` and
`RetryDone` are steps of their own after the last handle, which allows more
interleavings than the microtask queue does. `TransportClosed` is also the answer of
the timer of `handle.close()`, which destroys the client after a second and does not
wait for its `close` event (`ssh2-transport.ts:431`). Left out: the contents of
credentials, histories, wording, `exec()`, `openTerminal()`, a `create()` inside
`retry()` that fails.

### Tunnel

`Start` runs `start()` to its first await, `ListenSucceeds`, `ForwardSucceeds` and
`StartRejected` continue it. `Close` and `ConnectionLost` begin a release,
`ReleaseServer`, `ReleaseRemote` and `Released` continue it; `releases` holds the
suspended ones. `Accept`, `Arrive`, `ChannelOpened`, `OpenRejected`,
`ChannelCloses` and `PeerCloses` are the traffic. `overtaken` is a history
variable: tunnels that were released while `start()` still awaited. Left out:
SOCKS5 parsing, the retention limit of receipts, sockets already closed that stay
in a set, errors of sockets nobody listens to.

### Transfer

A transfer is known by its place in creation order, which is also the order of the
`requests` map. `run[t].at` says where `run()` awaits, `work[t][w]` where worker `w`
does; worker 0 is the walk over the directory tree that comes before the pool.
`Settle` is the end of `run()` with its `finally` block, `Abort` what `cancel()`, a
lost connection and `closeAll()` do. A remote copy is a request with two ends and no
grant; an FTP transfer has no listener on its connection. `RestartInCreate` is a crash
between the row of a transfer and its idempotency record. `cause`, `killed` and
`refused` are history variables: what aborted a transfer first, which transfers were
active when the process died, and which `.part` files had their `unlink()` rejected.
The code swallows that error whatever it is (`transfer-service.ts:626`, `725`, `744`),
and so may any `unlink()` of the model be refused; `MaxRefusals` bounds how often. The
state `queued` is overwritten in the same step and does not occur. A `create()`
repeated with a recorded key is answered from the record, which holds the snapshot
taken at creation, and changes nothing, so it is no step. The runtime's shutdown
counts as a cancel of the user, as in the code. Left out: archive transfers (`tar`),
byte counts and speed, pruning of old idempotency records, destination paths (a file
that appears between the look at the destination and the rename is overwritten), a
database write that throws in `create()`.

### TerminalOutput and TerminalView

`Broadcast` is a chunk of the channel with everything `broadcast()` does: it is
recorded (`RecordOutput`), remembered in the ring, sent to each socket that is not
slow, and the slow ones are watched by the timer (`TimerEnds`). `Attach`,
`Acknowledge`, `Misacknowledge`, `Drain` and `Detach` are a viewer and its network,
`StartRecording`, `Opened`, `Parse`, `Stopped` and `WriterFails` the life of a
recording, `Exit`, `Close` and `Finish` the end of the terminal. A chunk is a number
and a size in frames; what the operating system does with a socket's buffer and a
file with a write is a choice. `source` holds the channel's pause and the three
owners of it, which `Refreshed` (`refreshOutputFlow`) reconciles.

`TerminalView` is the promise: one growing log; a socket is sent it in order, never
twice; a client that comes back starts after its mark, never past what it was sent; a
chunk passes a viewer silently only if the viewer's socket was slow when it came.
`ViewSpec` (`View == INSTANCE TerminalView WITH ...`) says that `TerminalOutput`
implements it, a step for a step or a stutter. The stronger promise of
`MASTER_SPEC.md:1682`, that what a replay cannot cover is always reported, is
`NoSilentLoss`; it is stated and does not hold (see *Findings*). `skipped`, `told`,
`lost` and `displaced` are history variables; `displaced` is set when a recording
takes the place of a slow one and reset when the channel is resumed. Left out:
`create()` with its startup sequence, input, resize, shell integration, cursors beyond
64 clients, the recording's metadata.

### AiRun

`db` is the rows of a run, its last tool call and that call's approval, which survive
a restart; `mem` is the task: what it awaits (the model's stream, the checks before a
command, the review, the user, the command, the end of the stream after an error),
its abort reason and its budget. `Propose`, `Checked`, `Reviewed`, `Executed` and
`StreamEnds` continue a task, `Approve`, `Reject`, `Cancel`, `DecideLate` and
`ListApprovals` are calls of the user, `Clock` lets an approval expire, and
`ApprovalTimer`, `BudgetTimer` and `TargetLost` are the three timers of a work run.
`ran` counts executions (history). Assumed of external code: an engine ends its stream
when a command it asked for has failed, and asks for one command at a time. Left out:
idempotency, contexts, conversations, secrets and redaction, hashes, the policy
generation.

### StageJournal

Each receive has a file at its stage's path (`disk`), a row and a writer with its
clean-up (`recv`). A call to the file system lands in one action (`OpenLands`,
`WriteLands`, `PublishLands`, `RemoveLands`, `CreateLands`) and its continuation runs
in another, so that `Cleanup` and `Crash` may come between. `Meddle` and `NameTaken`
are other programs, `Forget` and `Expire` what the user's review may find.
`removeVerified()` is synchronous, but it looks at the file system several times, and
between two looks other programs act and calls in flight land: `RemoveStarts` (the
metadata of the path), `RemoveOpens` (the opened file), `RemoveChecks` (the path
again), `RemoveUnlinks` and `RemoveEnds` (`clearIfAbsent()` and the commit) are steps
of their own, `removing` says how far it is, and the other continuations of the
Runtime wait (`Free`). `RemoveThrows` is a check that fails or a call that is
rejected: the row stays. Between the last look and `unlinkSync(path)` nothing protects
the path. A path that is changed just then is `raced`, and what is there goes;
`RemovesOwn` speaks of all other removals and does not claim more (see *Findings*). A
file is its identity: created, renumbered by a FAT volume, foreign. Assumed: the file
system does not give a foreign file the identity of a removed stage. Not modelled:
`xmodem` (its receive writes synchronously), ZMODEM's second attempt at a clean-up
that failed (`zmodem.ts:313`), the key of directory ids, the limit in bytes.

### BatchOperation

`work[o][w]` says where worker `w` awaits: the connection, the opening of a channel,
the command (heard by the abort or not), a delay, the closing of the connection.
`NextStep`, `StepEnds` and `Throws` are the parts of `runTarget()` that follow an
await. `Finish` is the `finally` of `run()`, `Recovered` the constructor of the
repository. The connection is a choice: it becomes ready, fails, or ends. A
`connections.close()` that rejects, which the code swallows, is not modelled. A repeated
`create()` is answered from its receipt and changes nothing.

## 3. Runs

| Run | Bounds | Distinct states | Shows |
|---|---|---|---|
| `connections` | one connection through one jump host and the one a retry creates; 2 reconnects allowed, drops of the network as long as they fit in 4 runs of `connect()`, 1 call of `close()` or `retry()` for each connection | 160 000 | `SingleFlow`, `ShownHonest`, `ClosedStaysDown`, `GrantNotLeaked`, `ChildrenFirst`, `CloseReleases`, `ReconnectDecided` |
| `tunnel_safety` | a local and a remote tunnel on one key, one peer, 1 lost connection, 2 closes | 828 000 | `Owned`, `ReceiptHonest`, `ActiveWatched`, `StopIsFinal` |
| `tunnel_stop` | a local and a dynamic tunnel with traffic | 36 000 | `StopCompletes` |
| `tunnel_listener_leak` | one local tunnel | violated | a listener nobody can close |
| `transfer_files` | one transfer of up to 3 files by up to 3 workers: an upload that asks, a remote copy or an FTP upload; 1 lost connection, 3 refused removals, 1 restart | 124 000 | `ResourcesOwned`, `SucceededComplete`, `FirstCauseWins`, `StateHonest`, `PartsCleaned`, `Terminates` |
| `transfer_queue` | 3 transfers of 2 requests, 2 active, 1 retained; 1 restart | 1 300 000 | `NoOrphans`, `RetryHonest`, `KeyRunsOnce` |
| `terminal_output` | a negotiated and a plain viewer, 3 chunks of which one may exceed ring and window, 1 recording | 58 000 | `Consistent`, `PauseOwned`, `CursorConsumed`, `ViewSpec`, `PauseEnds` |
| `terminal_pause_left` | a negotiated viewer, 3 chunks, 2 recordings | violated | a pause that nobody ends |
| `ai_runs` | 2 runs of any kind, one terminal, 2 commands each, 1 restart | 131 000 | `RowsAgree`, `ConsentedOnce`, `OverIsOver`, `ReservationEnds` |
| `stage_journal` | 2 receives of 2 writes, room for 1 row, 1 kill | 2 364 000 | `Journaled`, `EndsClean`, `RemovesOwn` |
| `batch_operations` | 1 operation of 3 targets and 3 steps (the first may fail and has a delay), 2 workers, 1 deleted bookmark, 1 restart | 507 000 | `StepsInOrder`, `ConnectionsOwned`, `OutcomeHonest`, `CancelEnds` |
| `batch_cancel` | the same | violated | a cancel that a command does not hear |

*Why the bounds are enough.* Connections interact only through `retry()`, so two ids
show every interaction; one jump host has all the roles of a longer chain (first hop,
target, a client on top of another); two reconnects let one follow another and are
enough to reach, count and exhaust the policy. Two calls of `close()` or `retry()`
that overlap on one connection are beyond the run (the graph of the liveness check
grows too large); a call overlaps `connect()`, `recover()`, the timer and their
handles, and the safety theorems hold for any number of calls. `MaxGen` bounds only
when the network may drop a ready connection, so that it never keeps a timer from
firing. Two tunnels can race on a key and on nothing else. Three workers and three
files let one worker fail, one stream and one still find a file to take. Three
transfers let a retry, an eviction and an active transfer coexist. Three chunks fill a
window of two frames and a ring of one and leave one to arrive afterwards; two viewers
are one of each kind; the theorems hold for any number of recordings, the liveness
property is checked with one. Two AI runs can want one terminal, and share nothing
else; two commands let the first be over while the second is asked about, and the
third is refused by the step limit. Two receives share only the journal's room. Three
targets leave one queued while two run, and three steps one to skip after a failure.
Batch operations share only the limit of active ones and the connections of each are
its own. Every bound is a `CONSTANT` named `Max...`, and the code's own limits
(`PoolSize`, `MaxActive`, `MaxRetained`, `MaxAttempts`) are small values of its
parameters. All runs set `CHECK_DEADLOCK FALSE`: once the bounded calls are spent and
everything has ended, the system stops.

*Fairness.* Every promise the code awaits settles: handshakes have timeouts,
`handle.close()` a timer of one second, file operations end. So each continuation
is weakly fair; calls of the user, lost networks and new traffic are not. Timers
fire. In `Transfer` a stream needs no error to happen: only one that the abort
signal tears down must fail, and one held at the gate of a paused transfer may stay
there. In `Tunnel`, `PeersLeave` assumes of other programs that a peer of a *local*
tunnel closes its side once the tunnel has ended its own. The code relies on it for
local tunnels (without it `StopNeedsNoPeer` fails), and `tunnel_stop` shows that
dynamic tunnels do not.

In `TerminalOutput` timers, the recording's parser and closed writers go on by
themselves and viewers parse what they were sent; `PauseEnds` does not ask it of
viewers that attach again and again, and promises nothing of the pause that a slow
recording leaves when another displaces it (`PauseReleased`). In `AiRun` time passes,
timers fire, and a request whose signal is aborted answers; nothing says that a model,
a review, a command or a user ever does. In `BatchOperation` every wait has a deadline
and a server answers a request for a channel or the connection ends; a command need
not end.

*Findings.* The three violated runs are disagreements between the code and its
documents, quoted in `PROJECT.json`: a listener that no call can close; a cancel that
a command does not hear; and a pause that nobody ends. For the last, two
`startRecording()` calls both pass the check of line 441 before the first file is
open, so the terminal has two open writers. When the first of them was slow, it
drains, `releaseRecordingBackpressure()` looks at the second recording, which holds
nothing, and returns: the channel stays paused until something else resumes it. Four
more properties are stated in their modules, marked there as what does not hold; set
as an `INVARIANT` or `PROPERTY` of the module's configuration they show the run:

- `SshConnection!ClosedHandlesReleased`: a `close()` that overtakes `recover()` reports
  closed, and leaves the registry, while SSH clients are still open.
- `Tunnel!ChannelHasOwner`: a `forwardOut()` that resolves after `close()` leaves an
  open channel in the socket set of a tunnel that is gone.
- `Tunnel!StopNeedsNoPeer`: `close()` of a local tunnel waits for a peer whose channel
  has closed and who keeps its side open, because the channel's clean-up forgets a
  socket that is only half closed.
- `TerminalOutput!NoSilentLoss`: a chunk that a slow socket skipped is overtaken by one
  that arrives between the two water marks, or its replay is cancelled because the
  recording is slow at that moment; no notice says that it is missing.

Seen while modelling, without a property of their own:

- a `connect()` that `close()` overtook before the handshake publishes `connecting` or
  `authenticating` after `closed` (`connection-service.ts:186`);
- a connection closed while it waits to reconnect is published as `closing` with
  `nextReconnectAt` still set (`connection-service.ts:574` comes before `577`); the
  renderer looks at the state first and shows no countdown;
- a `startRecording()` that a `close()` or another one overtakes leaves a writer open, and
  callbacks of a displaced writer act on the new recording (`terminal-service.ts:453`);
- `removeVerified()` unlinks by path after its last look at it: what another program puts
  there between the two calls is removed (`owned-stage-journal.ts:259`);
- an `unlink()` of a `.part` file that is rejected leaves the file and says nothing
  (`transfer-service.ts:744`);
- an AI run aborted by its target, its budget or the shutdown while it waits keeps its
  approval `pending` until it expires, and one direct tool call has no expiry timer: it
  waits until somebody lists the approvals (`ai-service.ts:993`);
- a direct tool aborted by `close()` leaves its rows `running` until the next start;
- `removeVerified()` does not spare the stage of a receive that is still going on;
- a clean-up that comes while `open()` is in flight is refused by the unique stage name
  and reports an error; the stage stays, with its row;
- the steps of a batch target whose bookmark was deleted stay `queued` for ever
  (`batch-operation-service.ts:181`), and `create()` repeated after `clearCompleted()`
  answers 404 although its key is recorded.

## 4. Theorems

Every invariant and every action property of the passing runs is a theorem, and so is
the refinement of `TerminalView`: TLC shows them for the small constants of a run,
TLAPS for all values. The only assumptions are the `ASSUME` of each module
(`ConnectionAssumption`, `TunnelAssumption`, ...): bounds are naturals, a chain has a
hop, a pool a worker, a request one remote end or two, the low water mark is below the
high one, markers such as `NoRequest` are no members of the set they mark the absence
of. The finished files of `StageJournal` have at least one block, as in the run: a
receive of an empty file is not covered.

Each component has a module of proofs beside it, which begins with the inductive
invariant and what its parts mean. TLC has checked each inductive invariant on the
component's run before it was proved. A property of a state follows from it; most of
the work is a lemma for each operation, in terms of what the operation does to one
transfer, tunnel, worker or viewer and of the others, which it leaves alone.

| Module | Theorem | Property | Inductive invariant |
|---|---|---|---|
| `SshConnectionProofs` | `TypeCorrect` | `TypeOK`, which also bounds the counted attempts and lets only open transports be closed | itself |
| | `OneConnectAtATime` | `SingleFlow` | `TakesTurns`, with `TypeOK` |
| | `ClosedConnectionsStayDown` | `ClosedStaysDown` | itself, with `TypeOK` |
| | `GrantsAreRevoked` | `GrantNotLeaked` | itself, with `TypeOK` |
| | `ShowsWhatIs`, `HopsCloseInOrder` | `ShownHonest`, `ChildrenFirst` | `Turns /\ Fits` |
| `TunnelProofs` | `TypeCorrect`, `ResourcesReleased`, `OneTunnelPerKey`, `LossIsHeard`, `StoppedForGood` | `TypeOK`, `Owned`, `ReceiptHonest`, `ActiveWatched`, `StopIsFinal` | `IInv`: `Fits(t)` for every tunnel not `overtaken` |
| `TransferProofs` | `TypeCorrect`, `EverythingReleased`, `SuccessIsComplete`, `FirstCauseNamed`, `ShownIsDone`, `NoPartLeft`, `RowsFollowRuns`, `RetriesBounded`, `OneRunPerKey` | `TypeOK`, `ResourcesOwned`, `SucceededComplete`, `FirstCauseWins`, `StateHonest`, `PartsCleaned`, `NoOrphans`, `RetryHonest`, `KeyRunsOnce` | `IInv`: `ControlFits`, `ShownFits`, `CountFits`, `CauseFits`, `BirthFits` of every transfer, `PartFits` of every part, `Listed` |
| `TerminalPauseProofs` | `PausesHaveOwners` | `PauseOwned` | `Governed` |
| `TerminalOutputProofs` | `StaysConsistent`, `CursorCoversConsumed` | `Consistent`, `CursorConsumed` | `Delivered` (and `Governed`) |
| | `ImplementsView` | `ViewSpec` | `Delivered`, with `Follows` for the steps |
| `AiRunProofs` | `TypeCorrect`, `ConsentHonoured`, `NothingTakenBack`, `RowsCorrect` | `TypeOK` (part of `RowsAgree`), `ConsentedOnce`, `OverIsOver`, `RowsAgree` | `AllAgree`, and `Held` for the terminals |
| `StageJournalProofs` | `TypeCorrect`, `EveryStageJournaled`, `EndsLeaveNothing`, `OnlyOwnRemoved` | `TypeOK`, `Journaled`, `EndsClean`, `RemovesOwn` | `IInv`: `WriterFits`, `RowFits`, `EndFits`, `RemovalFits`, the limit of the journal |
| `BatchOperationProofs` | `StepsKeepOrder`, `NoConnectionLost`, `OutcomeTold` | `StepsInOrder`, `ConnectionsOwned`, `OutcomeHonest` | `IInv`: `WorkerFits`, `TargetFits`, `StateFits` |

Why the properties need more than themselves:

*SshConnection.* `SingleFlow` (at most one `connect()`, and none while a timer is armed
or a `recover()` runs) is not inductive: what starts a `connect()` is a timer, what arms
the timer a `recover()`, and what calls `recover()` a failed `connect()` or the end of
an SSH client of a ready connection. `TakesTurns` passes the turn around: a connection
has a `connect()` under way, or an armed timer, or one `recover()`, and never two of
them, and none while it is `ready`. What is shown (`ShownHonest`) and the order in which
hops close (`ChildrenFirst`) both hang on who has which transports: `Handled` says that
a connection's handles are of its present run (`HandlesFit`), that a `connect()` is the
first to obtain its next hop (`FlowsFit`) and that a chain belongs, as a whole, to the
connection or to one job (`ChainsFit`).

*Tunnel.* A tunnel that was released while `start()` awaited (`overtaken`) is where the
code loses a listener (see *Findings*); for all others `Fits` says what each call holds
at its await. `LossIsHeard` needs that a tunnel is watched from its start to its end.

*Transfer.* `ControlFits` ties what a transfer holds to the await of `run()`,
`ShownFits` the shown state to what is asked and paused, `CountFits` the files taken
to the workers, `CauseFits` the first cause to the state it ends in (a transfer that
the user aborted is failed only if the process died first), `PartFits` a `.part` file
to the worker that will remove it, to a removal that was refused or to a crash,
`BirthFits` a transfer to its idempotency record. `Listed` is the retention: what a
retry refers to is not evicted.

*TerminalOutput.* `Governed` says that the source's pause has an owner and that no
owner is without the pause, although a writer that closes, or that another recording
displaced, may still count as slow. The pause that a displaced slow recording leaves
is the one exception, in the theorem as in the property. `Delivered` says for each
viewer that what it was not sent of the log it was told to miss or was held back from
(`NoGap`), that its window holds the checkpoints of what it has not consumed, and that
the ring holds the end of the log. The replay (`replayToSocket`, here `Noticed` and
`Resent`) passes through the ring chunk by chunk; it is followed by induction over the
chunks passed, taken as the least counterexample of a set of naturals (`NatSets`),
since an induction theorem over an operator is out of the provers' reach. Under the
refinement every step is, for each client, a step of its socket in `TerminalView` or
none (`Follows`).

*AiRun.* `Agrees` says, for each await of a task, what the rows of its run, its call
and its approval can be; consent is honoured because a command was executed at most
once and only by a task whose approval was taken. `Held` adds that a terminal is
reserved by the run that works on it.

*StageJournal.* `WriterFits` and `RowFits` say which file, link and row there are at
each await of the writer and of the clean-up, `EndFits` what is left at the end unless
a crash or the user came between. `RemovalFits` says what a removal knows after each of
its looks: after the last one that the path holds a stage of the Runtime without another
name, for a row never names another file and whoever changes the path later leaves the
removal `raced`.

*BatchOperation.* Each busy worker has a target of its own, which says where the worker
is (`WorkerFits`); a target nobody has taken waits, one that was given back is over
(`TargetFits`). From it follow the order of the steps, that a connection has a worker
that will close it, and what a finished operation tells.

Only model-checked:

- the liveness properties `CloseReleases`, `ReconnectDecided`, `StopCompletes`,
  `Terminates`, `PauseEnds`, `ReservationEnds` and `CancelEnds`: TLAPS supports neither
  liveness under fairness nor `ENABLED`;
- the three runs that find a violation, and the four properties under *Findings* that do
  not hold.

## 5. Plan

1. Proofs beyond the properties of the runs: that a viewer whose socket never fell
   behind misses nothing it was not told of (from `Delivered`), and the composition of
   item 4.
2. `DataSync`: run states, previews and commits beside a running operation.
3. `Interactions` with host keys, `RemoteSession`, `TerminalTransfer`, `Supervisor`.
4. Composition: the connection that `Tunnel`, `Transfer` and `BatchOperation` assume, as
   an abstract specification implemented by `SshConnection`.

### Not modelled

- *Data synchronisation, interactions, remote desktops, the selection of terminal
  transfers, the supervisor*: planned above. They have state of their own, and what
  was seen in them is in the hazard list.
- *Records* (bookmarks, profiles, themes, histories, quick commands): one synchronous
  transaction each; nothing can come between.
- *Adapters* (shells, telnet, serial, FTP, proxies, relays, providers): one process or
  socket each. The services are modelled against their ports.
- *Parsers and conversions* (import and export, terminal information, recording text,
  block protocols): data without control worth a state machine.
- *Renderer, HTTP routing, generated client, contracts, build and tests*: the user
  interface shows what the runtime publishes, a route is one call of a service. These
  are most of the repository's lines.

## 6. Running

    tlc -config MCTransfer.cfg MCTransfer
    for m in *Proofs.tla; do tlapm $m; done

A run's module and configuration are in `PROJECT.json`, as are the mutants: for each
property a plausible bug in a definition that the property must notice (the operator
before the definition, such as `LeavesOpen` before `Leaves`).
