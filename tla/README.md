# The Bridge of codemcp-remote: specification and proofs

`codemcp-remote` lets a remote MCP client read, edit, commit, run registered commands in and
roll back local Git repositories. Its core is the *Bridge*, one Python process
(`src/bridge/src/codemcp_bridge/`) that serves MCP requests on an asyncio event loop, keeps
every operation, approval, session and checkpoint in SQLite, and calls Git and registered
commands as subprocesses. This directory holds TLA+ models of it, TLC configurations that
check them on small instances, and theorems that TLAPS proves for all instances.

## The system

| Component | Source | State it keeps | Operations | Talks to |
|---|---|---|---|---|
| Request handlers | `mcp_server.py` | per-project mutation locks; the requests in flight | the tools through `_execute`; `approval_confirm`, `operation_cancel`, `operation_reconcile`; start and close | everything below |
| Store | `db/store.py`, `db/schema.py`, `operation_service.py`, `approval_service.py`, `session_service.py` | rows of operations, approvals, sessions, checkpoints, audit events | create, transition, consume, cancel, block, recover; one SQLite transaction each | SQLite |
| Checkpoints | `checkpoint_service.py` | refs under `refs/codemcp-remote/checkpoints/`, checkpoint rows | create, finalize, verify, choose commit or amend | store, Git guard |
| Git guard | `git_guard.py` | none (the repository is the state) | status, commit one path, move, delete, reset, footers, refs | `git` subprocesses |
| Command runner | `command_runner.py` | none | run a registered argv with a timeout | subprocesses |
| Project registry | `project_registry.py`, `settings.py` | running snapshot, fingerprints of the running and of the last unusable file | `get`, `refresh_if_changed` | projects config file |
| Worker manager | `worker_manager.py` | the workers of the pool; each has an owner task, a child and a call lock | call, discard, close | `codemcp` child processes |
| Lifecycle | `lifecycle.py` | the state file with PIDs and start markers; the projects file | start, status, stop, add and remove projects | OS processes, endpoints, projects config file |
| Transport | `mcp_transport.py`, `main.py` | for each response, whether its responder has started and finished | accept, cancel on shutdown, wait | uvicorn, FastMCP |
| Authentication | `resource_auth.py` | none: nothing is kept between requests | verify a request's token online, with a short timeout | introspection endpoint |
| Pure decisions | `network_trust.py`, `policy_engine.py`, `settings.py` | none | trust a peer, allow a path, validate settings | |
| I/O and diagnostics | `transports/`, `doctor.py`, `secret_store.py`, `logging_utils.py`, ... | none | probes, reports | |

Interactions. A tool call becomes an operation row, keyed by (project, session,
client_request_id); `_execute` moves the row through `received`, `validated`, perhaps
`awaiting_approval`, `dispatched`, `running` and a final state. The body takes the project's
`asyncio.Lock`, creates a checkpoint, works on the repository, finalizes the checkpoint and
reports. `approval_confirm` is a second request that runs the body of the first one's
operation. `operation_reconcile` resolves operations that are `unknown`. Every handler that
names a session first refreshes the registry, which blocks sessions of removed projects. A
restart classifies what it finds in the database. Beside the requests, operator commands rewrite the
projects file, and `start` and `stop` run the Bridge and its tunnel as background processes that only the state
file connects with the next command.

What is hard about it: handlers interleave at every await of Git, of a command or of the lock;
requests are cancelled at such awaits, when the transport terminates its server after an error or at shutdown (a
client that merely goes away cancels nothing: `mcp_transport.py` shields the handler); the process dies
between two transactions; projects are removed while their requests are under way; the subprocess of a
cancelled request lives on; a client retries what was already done; a file changes while it is looked at twice;
a worker is discarded by one request while another uses it; a process dies, and its id and port are given to another program.
`PROJECT.json` lists each hazard at its line.

What makes each component correct:

* handlers and store: at most one open mutation for each project; a body runs at most once for a
  replay identity, and only with its approval, its session and its project; nothing that may have
  had an effect is reported as failed or done without evidence; nothing stays open unless a document says who resolves it;
* checkpoints and Git guard: a recorded checkpoint has its ref; a commit contains the requested
  path alone and sits on the checked HEAD; only an unshared commit of the session is amended;
* registry: a removal is seen by the next request and revokes; a broken file keeps the last good one; no change is overlooked,
  and what is served is always one whole configuration that the file has held;
* worker manager: a child is lost only where the code leaves it to nobody, no call goes on after its answer, every call and the closing end;
* lifecycle: start never runs two of a service and reports only what serves, stop leaves nothing of ours and never signals a process that is not ours;
* transport: shutdown cancels every request and waits for all of them before the store closes;
* authentication: no request is served on a token that its issuer does not confirm.

## The modules

| Module | What it is |
|---|---|
| `BridgeService` | the handlers over the rows of the store; all components above as far as the handlers see them |
| `MutationPromise` | the abstract specification: what the Bridge promises about mutations, without rows, handlers, locks or sessions |
| `MCBridgeService` | instances and symmetry for TLC |
| `BridgeServiceProofs` | theorems about `BridgeService`, proved by TLAPS |
| `GitMutation` | the bodies of file mutations, rollbacks and reconciliations over a Git repository that other Git processes use too |
| `MCGitMutation` | instances for TLC: where in a body other processes may act |
| `GitMutationProofs` | theorems about the checkpoints and the failures of `GitMutation` |
| `GitTypeProofs` | its type invariant: what is named is there |
| `GitWindowProofs` | what it promises to others who stay out of its windows, and what a commit reaches |
| `GitOutcomeProofs` | what a success is worth |
| `ProjectRegistry` | projects.toml, the commands and editors that write it, and the registry that reloads it |
| `SnapshotPromise` | the abstract specification of the registry: one whole configuration at a time, without fingerprints |
| `ProjectRegistryProofs` | theorems about `ProjectRegistry`, with its refinement of `SnapshotPromise` |
| `WorkerPool` | the workers, their owner tasks and children, and the requests and the shutdown that use and close them |
| `WorkerPoolProofs` | theorems about `WorkerPool`: its type invariant and its safety properties |
| `ServiceLifecycle` | `start` and `stop` over processes, process ids, endpoints and the state file |
| `MCServices` | symmetry of `ServiceLifecycle` for TLC |
| `ServiceLifecycleProofs` | theorems about `ServiceLifecycle`: its type invariant and its safety properties |

How the machines meet. `BridgeService` takes from `ProjectRegistry` that the running configuration changes only as a whole and between
two steps of a handler (`KeepsSnapshotPromise`; `Refresh` is such a change), and from `ServiceLifecycle` that one Bridge runs at a time (`AtMostOneOfEach`). Its
body of a `read` is one call of `WorkerPool`.

`BridgeService` and `GitMutation` look at the same code at two grains. `BridgeService` interleaves handlers and abstracts a body's work
on the repository to one flag; `GitMutation` takes from it that one body at a time holds the lock (`LockExclusion`,
`OneActiveMutation`) and opens that body up, call by call.

### BridgeService and the code

*Event loop.* Between two real suspension points nothing else runs in the Bridge. The variable
`loop` names the request that is between suspension points; every step of another handler waits
until it is `None` (`Idle`). Within such a stretch there is still one action for each committed
transaction, because `Crash` does not wait for `loop`: this is how a crash between
`create_approval` and `transition_operation`, or between the two transactions of
`OperationService.dispatch`, is a behaviour of the model. Points of a handler at which it is
suspended are the set `Suspended`, those between two commits the set `Holding`.

*Rows.* `state`, `kind`, `project`, `session` are the columns of an operation (an element of `Op` is a
replay identity, so it has at most one row); `approval` and `checkpoint` are the operation's rows in
those tables; `status` and `home` are a session's. `OperationTransitions` is the code's transition table and
`Transition` is `transition_operation`.

*Kinds.* Every body is one of five shapes. `read`: no lock, no checkpoint. `write`:
`file_edit`, `file_create`, `file_write`, `file_move`, `file_delete`, `directory_create`. `command`: a
registered command, `format_run` or `test_run`; its configuration decides whether it needs approval.
`checkpoint`: `checkpoint_create`, which always needs approval, whose row is its effect. `restore`:
`checkpoint_restore`, which always needs approval and re-checks its session in the body.

*Handlers.*

| Code | Actions |
|---|---|
| `project_open` | `ProjectOpen`, `SessionCreated`, `OpenFails` |
| `_execute` up to the body | `Start`, `Validate`, `Authorize`, `AuthorizeFails`, `CheckPasses`, `CheckFails`, `IssueApproval`, `AwaitApproval`, `Dispatch`, `Run` |
| the body | `EnterBody`, `BodyRefused`, `AcquireLock`, `ReadReturns`, `PrecheckFails`, `TakeCheckpoint`, `ActionRefused`, `MoveTimesOut`, `Act` |
| how it ends | `OutcomeUncertain`, `CommandFails`, `StoreFails`, `Finalize`, `Finish`, `Cancel`, `StrayEnds` |
| `approval_confirm`, `operation_cancel` | `Confirm`, `CancelApproval`, `CancelOperation` |
| `operation_reconcile` | `ReconcileFailed`, `ReconcileSucceeded`, `RecAcquire`, `RecVerifyFails`, `RecRecord`, `RecFinish`, `RecCancel` |
| `_refresh_project_registry`, CLI | `RefreshRegistry`, `Configure`; `Refresh` is a part of every handler step that calls it |
| `main.run`, `close`, `start` | `BeginShutdown`, `CloseSession`, `FinishShutdown`, `BridgeStart` |
| the operating system | `Crash` |

*Abstractions.* What a mutation did to the repository is one flag, `effect`. The rows of the small
operations that the control tools themselves create (`approval_confirm` has an operation of its own,
for instance) carry no state that others read and are left out. Tokens are right or wrong: a wrong or
expired one changes nothing in the code (the `expired` update is rolled back), so it is
`RefreshRegistry`. A session is `removed`, `restarted` or `closed` where the code has a pair of status and
reason. The audit log and the payload columns are written in the same transactions and read by
nobody in the model.

*Undetermined outcomes.* How a Git call, a command or a verification ends is a free choice between the
outcomes for which the code has a branch. A subprocess whose request is cancelled may live on (`stray`), and
may or may not do its work afterwards.

### ProjectRegistry and the code

| Code | Actions |
|---|---|
| `add_project`, `remove_project` | `AddReads`, `RemoveReads`, `OpensTemporary`, `WritesTemporary`, `Validates`, `Replaces`; `Killed` between any two |
| an editor, `rm` (external) | `EditsByHand`, `DeletesByHand` |
| `main`, `ProjectRegistry.__init__`, the end of the process | `Loads`, `TakesFingerprint`, `Stops` |
| `refresh_if_changed` | `Observes`, `LoadsCandidate`, `Verifies` |

One action is one access to the file system, so other processes act between the two fingerprints of a reload and between reading and
replacing the file in a command. `write_text` is two accesses: opening empties the temporary file, writing fills it. All commands use the same
temporary file name, and so does the model: a command whose open temporary file another one installs goes on to write the installed file
(`editor[e].at = "installed"`), or, if a third one has replaced that, a file that no name leads to any more (`"lost"`). An empty file is a valid
configuration without projects, as it is for the loader. A configuration is the root of each
project, if it has one; every file that does not load is `Broken`. The fingerprint is time and size, the size being the number of entries. The file
system's clock is taken to be finer than two writes; what the code could not tell apart otherwise is no behaviour here.
`offered` is a history: the valid contents the file has had since this Bridge read it.

One window is closed by a constant: between `load_settings` in `main` and the first fingerprint nobody writes the file, unless
`"startup"` is in `Windows`.

### WorkerPool and the code

| Code | Actions |
|---|---|
| `WorkerManager._get_worker` | `GetsWorker`, `NewsWorker` |
| `_CodemcpWorker.call`, `start` | `TakesLock`, `StartupAnswers`, `CallReturns` |
| a call that fails, times out or is cancelled; `_discard` | `StartupFailed`, `CallFails`, `Cancelled`, all through `Discard` |
| `_CodemcpWorker.close` | `BeginsClosing`, `Closes`, `CancelClose` |
| `WorkerManager.close` | `ManagerCloses` |
| `_run_owner` | `OwnerReady`, `StartupFails`, `ShutsDown`, `Breaks` |

An action is what a task does between two awaits that may suspend it. The call lock is its queue, whose head holds it. A worker object is a
slot of `Worker` that is used again once nothing refers to it. A child lives as long as its owner task is inside `stdio_client`; a child
that has died makes calls fail, which they may do at any time.

Calls fail and are cancelled wherever they wait, with no exception. `CancelClose` is the cancellation of a request that queues to close a worker: the
one ordinary cancellation of a request in `await stale_worker.close()`, which is outside the `try` of `WorkerManager.call`, or one that is delivered again while
`_discard` awaits. Two variables are histories. `unfinished`: the callers that gave up while the child worked and await its end. `deserted`: the workers that were left to nobody, either
because the last request that would close them was cancelled so, or because `_discard` took them from the pool while the request that
registered them was still closing the stale predecessor, after which it starts them again out of the pool (`ComesLate`).

### ServiceLifecycle and the code

| Code | Actions |
|---|---|
| `start_services`: the state file, `status_services` | `StartBegins`, `Look`, `Probe`, `Occupied` |
| spawn, `_wait_endpoint`, the state file | `Spawn`, `Healthy`, `StartFails`, `WriteState` |
| `stop_services` | `StopBegins` |
| `_terminate_state_process` for start, stop and a failed start; `_terminate_tree` | `Terminate`, `VictimIsGone`, `Kill`, `GivesUp`, `Terminated` |
| Ctrl-C | `Interrupt` |
| the services themselves, the tunnel's supervisor | `Listen`, `Exit`, `SupervisorDies` |
| other programs (external) | `ForeignBorn`, `ForeignListens` |

A process is its kind and its number in the order of births, which stands for the start marker; process ids are given out again. `Kill` sends
SIGKILL and waits for nothing, as the code: the process is `"killed"`, does no more work, and keeps its id until it is gone (`Exit`). A failed start terminates what it has spawned,
unless it cannot capture a child's identity, in which case `_terminate_tree` returns without a signal (`GivesUp`). The
tunnel is a group of two, the supervisor and the provider's client that holds the port. POSIX only: the Windows branch with `taskkill` differs in its calls.
Processes are *strays* where the code gives up on them: the children of an interrupted start, those of `GivesUp`, a client that outlives its supervisor, and foreign programs that take an
endpoint; the properties say so.

### GitMutation and the code

*Repository.* `log` holds the commits that were ever made, each with its parent, its tree and the session of its
footer; `tip` the branches, `branch` what HEAD names, `published` what tags and remote-tracking refs name, `work` the work
tree, `refs` the Bridge's checkpoint refs. A tree maps a path to a content or `Absent`. The index is not
told apart from the work tree: every mutation insists on a clean status first and commits `--only` its path.

*Body.* `job` is the body inside the mutation lock: the Git call it awaits next, what its last `GitGuard.status` said about
branch and HEAD (`seen`), the baseline of its checkpoint (`base`), whether it will amend, and the HEAD it will report. Each
action is one Git call together with the code up to the next. `GitGuard.status` is two actions, `Inspect` for
its `rev-parse` calls and the action of the point for its list of changed files, so that HEAD and
the list can belong to different moments, as they can in the code.

| Code | Actions |
|---|---|
| `_begin_mutation`, `CheckpointService.create` | `Mutate`, `Policy`, `Snapshot`, `CreateRef`, `InsertRow`, `InsertFails` |
| `determine_commit_mode` | `Mode`, `Footer`, `SharedRefs`, `EvidenceFails` |
| `commit_file_bytes` | `Rewrite`, `WriteFails`, `NoChange`, `Written`, `Verify`, `VerifyShared`, `Commit`, `Final` |
| `delete_tracked_file` | `Delete`, `Remove`, then as above |
| `_finish_mutation`, `CheckpointService.finalize` | `After`, `Finalize`, `Finish` |
| `checkpoint_restore` | `Restore`, `CheckRef`, `CompareAndSwap`, then `Snapshot` to `InsertRow`, `Reset`, `Restored`, `After`, `Finalize`, `MarkRestored`, `Finish` |
| `operation_reconcile` | `ReconcileFailed`, `ReconcileSucceeded`, `VerifyRef`, `Evidence`, `Resolve` |
| errors, cancellation, restart | `Refused`, `Uncertain`, `Cancel`, `ReconcileEnds`, `Restart` |
| other Git processes (external) | `Edit`, `CommitAll`, `Publish`, `Switch` |

*Abstractions.* Every branch is an allowed one, and every file a regular one: a refusal is `Refused`, at any point
before the first change. `file_edit`, `file_create`, `file_write` differ in what they refuse, not in
what they do to the repository. A move is `git mv` where a delete is `git rm`, and neither times
out; the store does not fail. Directories and commands are not in this model. Other processes do not touch the Bridge's own refs, do not detach HEAD and do not reset.

## What is checked

| Run | Instance | Properties |
|---|---|---|
| `kinds` | 1 project, 2 operations, 2 sessions of different identities, 1 reconciler; kinds read, write, checkpoint, restore | the type invariant, `OneActiveMutation`, `AtMostOnce`, `ApprovedBeforeRun`, `ApprovalMatchesState`, `SucceededIsEvidenced`, `NeverOrphaned`, `LockExclusion`, `NoGuessedFailure`, `KeepsPromise` |
| `projects` | 2 projects, 2 commands, 2 sessions of one identity | `EndedSessionsStayEnded`, `BodiesBeginAlive`, `OnlyOwnersReconcile` |
| `liveness` | 1 project, 2 writes, 2 reconcilers, 1 session, both faults | `EveryRequestAnswered`, `EveryReconcilerAnswered`, `ShutdownCompletes` |
| `git_others` | 2 operations, 2 files, 2 branches, 4 commits, 2 steps of other processes at any point outside the windows | the type invariant, `CheckpointHasRef`, `NothingLost`, `FailedUntouched`, `AmendsOnlyOwnWip` |
| `git_alone` | 3 operations, 1 file with 2 contents, 2 sessions, no other processes | `SucceededMeansDone` |
| `services` | 1 command at a time, 3 process ids, 4 births | the type invariant, `NoForeignSignal`, `NothingUntracked`, `AtMostOneOfEach`, `StopLeavesNothing`, `StartedMeansServing` |
| `registry` | 1 project, 2 roots, 2 commands, 5 times: a file and 4 writes | the type invariant, `NothingOverlooked`, `KeepsSnapshotPromise`, `EventuallyServed` |
| `workers` | 1 project with 2 versions, 3 callers, 2 workers | the type invariant (with the call lock), `OnlyDesertedAreForgotten`, `AnsweredMeansOver`, `EveryCallEnds` |
| `abandoned_running`, `revoked_session`, `stray_subprocess` | 1 project, 2 operations, 2 sessions of one identity | one each, which TLC finds violated |
| `calls_overlap` | 1 project, 3 callers, 3 workers | `CallsSerialized`, which TLC finds violated |

*`kinds`* shows that over every interleaving of two operations of different kinds, with cancellations at every
suspension point, a crash between any two transactions, graceful shutdown, restarts, removal of the project and
reconciliations from sessions of either identity, a project has one open mutation, each body starts once, approvals
agree with the states they open, only evidence makes a mutation succeed, and every behaviour is one of `MutationPromise`. Both `Faults` are switched off there: with one of them
`NoGuessedFailure` is violated (see the known divergences).

*`projects`* adds what one project and two strangers cannot show: a session or an approval of one project under the removal of
another, the re-check of project and session in the bodies of approved commands, and which of two sessions of one identity may give up an unknown
operation: the successor of one that a restart or a shutdown ended, and never that of a revoked one. A body that has begun may still wait for the lock; what happens to its
session then is among the known divergences.

*`liveness`* shows that no request starves in the queue of the lock and that shutdown ends.

*`git_others`* shows what the checks inside a body achieve while a user edits, commits, amends, pushes, tags and switches branches:
every recorded checkpoint has its ref; no amend, reset or failure makes a commit unreachable; an amend
replaces only an unshared WIP commit of the session, where it was left; an operation that a body declares failed has changed nothing. Two windows are excluded (`AmendWindow`, `ResetWindow` in `MCGitMutation`), because no
check in the code closes them: from the `rev-parse` of the last check to the `git commit` or the `git reset` that relies on it. The amend window
is one Git command long for branch and HEAD and another for shared refs. The reset window contains a whole checkpoint.
There is one session, so that nothing restarts in this run; `Cancel` at the same points leaves the same states, and the theorem `CheckpointsKept` has restarts.

*`git_alone`* shows that sequences of changes, no-ops, amends, deletes, rollbacks, failures, cancellations, reconciliations and
restarts leave the repository as each success says: exactly the requested change on the checkpoint's tree, or
the checkpoint itself.

*`services`* shows, for one command at a time, that however services die, hang or lose their supervisor, whoever gets their process ids and ports, and wherever a
start is interrupted, commands signal only what they or an earlier command started, lose no service other than strays, never run two of
one, and that a stop leaves none behind. `StartedMeansServing` holds where no stray holds an endpoint: `_wait_endpoint` cannot tell whose answer it got.

*`registry`* shows that two commands and an editor that overlap with a reload in any way cannot make it overlook a change or serve anything but one
valid configuration that the file has held, and that a usable file that stays is served in the end. An empty file is valid too: what `ConsumesWholeFiles` asks beyond that
is among the known divergences.

*`workers`* shows which orders of failing, cancelled and successful calls, restarts of children, changes of configuration and the closing of the manager
lose a child, the two of `deserted` and no other; that none leaves a child at work on an answered call; and that every call, close and shutdown ends.

*The four violations* (`abandoned_running`, `revoked_session`, `stray_subprocess`, `calls_overlap`) are statements of the repository's documents that the code does not keep. Each is a
finding in `PROJECT.json` with its quotation; in short: a cancelled `approval_confirm` abandons the running command; a
project removed during `project_open` leaves an active session; the Git subprocess of a cancelled mutation
works beside the next mutation; and a request that is cancelled in the queue of a worker discards it under the request that uses it, so that the next
call of the project runs beside that one.

*Known divergences that no run keeps.* Each can be seen by adding the property to an instance.

* `NoTurnForTheRevoked`, in the instance of `liveness`: a body asks for project and session when it begins, then queues for the lock, and asks nothing when it gets it. A
  write whose project is removed in the meantime still takes its checkpoint and commits, although hot-reload-plan.md:594 says "An existing B session cannot read/write after removal."
* `RollbackRespectsOthers`, in `git_others` with `Outside <- MCOutsideOfReset`: after its compare-and-swap check a rollback takes a safety checkpoint and resets without another
  look, so that a commit made in between is taken from the branch, where README.md:294 "refuses to overwrite externally changed Git state".
* `RecordsOwnCommit`, in `git_others` with `Outside <- MCOutsideOfFinal`: a commit of another process right after the Bridge's own is taken for the result, where README.md:280
  "records an unknown result if finalization observes a different HEAD."
* `ConsumesWholeFiles`, in `registry`: a command installs the temporary file that another has emptied and not yet written, and a running Bridge loads a configuration without projects
  and revokes their sessions, where hot-reload-plan.md:156 "must never expose or consume a half-written configuration".
* `NoChildForgotten`, in `workers`: a request cancelled once while it waits to close the stale worker that it took from the pool leaves the child to nobody. `WorkerManager.close` does not see it either.
* `NoGuessedFailure` with `Faults = {"timeout"}` or `{"store"}`: a `git mv` or `git rm` that is killed by its timeout, or a store that fails, after the effect, is recorded as `failed`.
* `NothingOverlooked` with `Windows = {"startup"}`: a change between the Bridge's first reading and its first fingerprint is not seen until the next.
* `AtMostOneOfEach` with two elements in `Launcher`: two commands at the same time can run a service twice.

Some states have no way out that the documents would promise, so there is no property about them: an operation whose session was revoked with its project can be neither
confirmed nor cancelled while it awaits approval, and blocks its project, registered again, until a restart; if it is `unknown` no session may
reconcile it, and it blocks the project for good. An operation whose request is cancelled during its approval check stays `validated`, which `operation_cancel` refuses, until a
restart. An interrupted `start`, or a failed one that cannot capture its children, leaves services that no state file names (the strays).

### Bounds

In `BridgeService` nothing is cut off: there is no state constraint, and each instance is finite because a replay identity gets one row and a session id is
handed out once. Crashes, restarts, shutdowns and changes of the configuration are unbounded in number. Two
operations are enough for every property that relates operations, since each of them is about a pair; two sessions give a
predecessor and a successor, or an owner and a stranger; two reconcilers and two bodies make a queue with several waiters. The
theorems below have no bounds at all. Operations and projects are symmetric, sessions are not (they have identities); symmetry is
used in safety runs only.

`GitMutation` is bounded by `MaxCommit`, `MaxSession` and `MaxOutside`. Two steps of other processes are an edit and its commit, or a switch
and a push; with four commits a session can make its WIP commit, a user can put a commit on top of or beside it, and an amend can still follow. A
third operation in `git_alone` lets a rollback follow an amend. Two files tell an isolated commit from one that takes other changes along;
two contents tell an existing file from a written one. With its bounds used up the model stops, so deadlock is not checked there.

`ServiceLifecycle` is bounded by `MaxBirth` and by `Pid`: three ids and four births let a Bridge and a tunnel run, one of them die, its id be
given to another program, and a replacement be started (4.0 million states). One command runs at a time; the code has no lock against a second one.
`ProjectRegistry` is bounded by `MaxTime`: one file at the start and four writes allow a command to empty and write its file beside another, and a reload to meet two changes between its looks. One
project tells present, absent and moved roots apart. The theorems hold for any number. `WorkerPool` has no bound on time; two workers are the current one and a
stale one, used again in turn, three callers a holder, a waiter and one that discards; its safety theorems hold for any number of each. The bounded models stop, and the pool stops once its manager is closed: deadlock is not checked in these.

### Fairness

`FairSpec` assumes strong fairness for the steps of a request that is under way, because the
steps are enabled only while the event loop is free and the lock is free: asyncio's ready queue and the waiters
of an `asyncio.Lock` are FIFO, so a request that can proceed again and again does, and every Git call and command has a timeout, so a
suspended call returns. Fairness of `project_open`'s await is the same. Shutdown: the transport cancels
every task once it closes (`mcp_transport.py`), so cancelling is weakly fair while `bridge = "closing"`, and
so is closing the sessions. Nothing is assumed of clients, of the operator, of crashes, of restarts or of cancellations
while the Bridge serves.

`FairRegistry` assumes that requests keep coming, each of which refreshes the registry: weak fairness of `Refresh`. A refresh awaits nothing, so once begun
it ends. `FairPool` assumes weak fairness for each task and each owner: the event loop runs what can run, an awaited lock is FIFO, a call and a
startup have a timeout, `stdio_client` terminates its child. Nothing is assumed of cancellations, failures, commands and editors. `ServiceLifecycle` and `GitMutation` have no
liveness properties and no fairness.

Deadlock is checked in every run of `BridgeService`.

## What is proved

`BridgeServiceProofs`, for every set of projects, sessions, operations and reconcilers, every assignment of identities,
any kinds and any faults, from the named assumptions of `BridgeService` (requests, projects and sessions differ from `None`, operations from
reconcilers; kinds and faults are known ones):

* `TypeCorrect`: `Spec => []TypeOK`;
* `OneActive`: `Spec => []OneActiveMutation`;
* `RunAtMostOnce`: `Spec => []AtMostOnce`;
* `ApprovalGates`: `Spec => []ApprovedBeforeRun`;
* `LockExcludes`: `Spec => []LockExclusion`;
* `ApprovalsMatch`: `Spec => []ApprovalMatchesState`, and `NothingOrphaned`: `Spec => []NeverOrphaned`;
* `SuccessHasEvidence`: `Spec => []SucceededIsEvidenced`;
* `EndedForGood`, `OwnersReconcile`, `BodiesAreCheckedFirst`: the action properties `EndedSessionsStayEnded`, `OnlyOwnersReconcile`, `BodiesBeginAlive`;
* `FailureIsNoGuess`: `Faults = {}` implies `Spec => NoGuessedFailure`;
* `KeepsThePromise`: `Spec => KeepsPromise`, the refinement of `MutationPromise`.

The argument. `OneActiveMutation` is inductive beside the type invariant: only `Start` makes a row active that was not, it
does so with `Blocked` false, and lemma `TransitionsTyped` says that the table has no way from a final state back to an active one; recovery moves
rows out of active states or to `unknown`. `AtMostOnce` is not inductive: a second `Run` must be excluded by the
row's state. The strengthening `RunsOnce` adds that a body whose row is still in `BeforeRun` (up to `dispatched`) has not been
started; `Run` leaves that set and nothing leads back into it. For `ApprovedBeforeRun` the strengthening `Gate` follows the
handler: a guarded operation at the point before dispatch, or with a started body, has its approval consumed, so the body is
reached only over `Confirm`; a request that still checks whether approval is needed has a `validated` operation, so that issuing an
approval never overwrites a consumed one; and no request survives its process. `FrameStep` says once and for all that no step
other than `Start` and `Run` writes the kind, project or session of a row, counts a run, makes a settled operation active again, or
takes one back to a state before its body, so that the proofs name only the actions that matter to them.

*The lock.* `Apart` is `LockExclusion` pair by pair. Only `EnterBody`, `AcquireLock` and `RecAcquire` enter the lock (`LockFrameStep`), each after looking
whether anybody is in it; what remains is that nobody inside changes project. A request writes its row's project only before it is in, and a reconciliation
works on an operation that has been started (`ReconcilesStarted`), whose project no new request writes.

*Approvals.* `Tokens` ties an approval to a row at every point of a request, the ones between two transactions included, and says who may leave an
operation under way; `ApprovalMatchesState` and `NeverOrphaned` are what it says of an operation nobody works on.

*Evidence.* `Works` says what a body and a reconciliation have at hand at each point: a body that reports has its evidence recorded, a reconciliation in
the lock has checked that the operation has a mutation checkpoint.

*The refinement.* `Shape` is what the mapping needs of rows that are not there yet. `Permitted` lists the phases that `MutationPromise` lets an operation go
to from the one it is in; `TransitionKept` shows once that such a change of one operation is one of the promise's steps. `HandlersKeep`, `StartKeeps`,
`ApprovalsKeep` and `LifeKeeps` go through the actions, most of which change one row or nothing the promise sees.

*Sessions.* `EndedStep` goes through the writers of a session's status. `GivenUpByWord` shows that of all actions that write `failed` only `ReconcileFailed` starts from
`unknown`, and `MayReconcile` says who may take it. `BodiesBeginAlive` rests on `Turns`: who is between two commits has the event loop, so that nothing happens between `Confirm`, which looks
at the session of a confirmed command, and `EnterBody`, which does not look again; every other body looks itself. It says nothing of a body that begins and then waits for the lock. `NoGuessedFailure` rests on `Untouched`: a body at a point before it acts
has no effect and no stray subprocess, and without faults it declares failure only there.

`GitMutationProofs`, for every set of operations, paths, contents and branches, every bound and every choice of `Outside` (`Absent` is no content, `None` no task):

* `CheckpointsKept`: `Spec => []CheckpointHasRef`;
* `FailuresAreClean`: `Spec => FailedUntouched`, an action property.

The argument: `CheckpointHasRef` is not inductive, since nothing in it stops a step from writing a ref of a checkpoint already recorded. The
invariant `IInv` adds that a body has no row up to `InsertRow` (`RowsAreFresh`, which rests on a row being made only by an operation that
was begun), and that between `update-ref` and the transaction the ref is that of the snapshot (`RefIsTaken`). The other
steps fall into four lemmas: they go on with the body, end it, write fields of a row that say nothing of the checkpoint, or are none of the Bridge's.
`FailedUntouched` needs `UntouchedSoFar` beside it: an operation that has not begun, or whose body is at one of the `Early` points, has changed
nothing. The steps that change something (`Rewrite`, `Remove`, `Commit`, `Reset`) leave those points, no step leads back to them, and every step that
writes `failed` starts at one.

`GitTypeProofs`, under the same conditions: `GitTypeCorrect`: `Spec => []TypeOK`. `Typed` says what kinds of values the variables hold, `Known` that the commits
they name are there, `Roles` that a body is at a point of its task. The three follow one another: a reset goes to the ref of a recorded
checkpoint, which `CheckpointsKept` says is the commit of its row, which is there.

`GitWindowProofs`, with others anywhere but in the window that a theorem names:

* `AmendsAreOwn`: `AmendsOnlyOwnWip`, if nobody acts in the `AmendWindow` of a change (before its `Verify` others may). `AmendIsEvidenced` says which evidence a body has at which point.
  The row that proves the WIP commit and its footer cannot change once they were read, since rows are written by bodies, and a commit stays as it is; HEAD
  and the other refs can, and the two checks at the entrance of the window look at them again.

* `CommitsAreKept`: `NothingLost`, if nobody acts in the `AmendWindow` of a change or in the `CoverWindow` of a rollback: from the look that its safety
  checkpoint takes to the reset. A commit made right after the compare-and-swap check is
  reset against the client's word, but is not lost. `Covered` says that the checkpoint a body relies on is recorded, and that of a rollback covers HEAD.

These conditions are the exact form of what the code asks of its users: the instance `MCOutside` satisfies all of them.

`NothingLost` speaks of `Reach`, a recursive function over the commits. That what a commit reaches is what its parent reaches and itself (`ReachedStep`), and
does not change when commits are added (`ReachedLasts`), is proved by an induction in first-order terms: were there commits for which the function did not
exist, or two of them differed, there would be a least one (`LeastNumber`, from `WFMin`), and its parent, which is smaller, would say otherwise.

`GitOutcomeProofs`:

* `DoneIsDone`: `SucceededMeansDone`, whose condition is `Outside = {}`. `AsAsked` says at each point of a body where HEAD is and what the work tree holds: the
  checkpoint's tree before the body writes, `Wanted` (that tree with the one change) after, the rolled-back one after a reset.

`ServiceLifecycleProofs`, for every set of process ids and of concurrent commands and every number of births:

* `ServiceTypeCorrect`: `ServiceSpec => []ServiceTypeOK`;
* `OnlyServicesSignalled`: `ServiceSpec => []NoForeignSignal`;

and with one command at a time, `Launcher = {only}`:

* `NothingLeftUntracked`: `ServiceSpec => []NothingUntracked`, and `NeverTwo`: `ServiceSpec => []AtMostOneOfEach`;
* `StopIsComplete`: `ServiceSpec => StopLeavesNothing`, and `StartedIsServing`: `ServiceSpec => StartedMeansServing`, action properties.

The argument for the first two: `NoForeignSignal` looks back at signals, so the invariant is about marks. Every mark that the state file or a command holds was taken from a
service at its birth; births are never used twice; so a process that has the birth of a mark is that service, whoever has its id by now. `Owned`
compares exactly this before every signal.

The others rest on what the command's record says of the processes. A process *runs* for a mark (`Runs`) if it is the marked one, was not killed and is no stray; what does not run never does again, for no birth comes back (`StaysRunning`), and what may still run is
among those it has yet to terminate (`Knows`); the service it spawned last is the one whose endpoint it awaits, and the one before
has served (`Awaits`); every service at work is the file's or the command's child (`Tracks`). With the same about the file (`FileInv`)
and the endpoints (`Ports`), so that an answer at an endpoint is the service's own while there are no strays, this is inductive; the four properties read off
it. The condition is needed: nothing in the code keeps two commands apart, and with two `AtMostOneOfEach` fails.

`ProjectRegistryProofs`, for every finite set of projects, any roots, commands and number of writes:

* `RegistryTypeCorrect`: `RegistrySpec => []RegistryTypeOK`;
* `NoChangeOverlooked`: `"startup" \notin Windows` implies `RegistrySpec => []NothingOverlooked`;
* `RegistryKeepsPromise`: `RegistrySpec => KeepsSnapshotPromise`, a refinement.

The argument for the second: the file and the temporary file never have one time between them, and no time comes back, so that a fingerprint stands for one
content (`Knows`). `LookInv` says this of the running fingerprint and projects, and of the observed fingerprint and the candidate; all steps of other
processes are cases of `FileStep`, one lemma. For the refinement `OfferInv` says that the history holds the file's content
while a Bridge runs and the candidate while one is considered; then each step is one of `SnapshotPromise` or changes nothing it sees.

`WorkerPoolProofs`, for every set of projects, versions, callers and workers:

* `PoolTypeCorrect`: `PoolSpec => []PoolTypeOK`;
* `NoAnswerBeforeTheEnd`: `PoolSpec => []AnsweredMeansOver`;
* `NoOtherWorkerForgotten`: `PoolSpec => []OnlyDesertedAreForgotten`.

The argument for the second: `AbandonInv` says that a caller which gave up on a call of a living child is closing that child, and a child that has ended works on nothing. Only `Discard` abandons a
call, and it makes the caller close; only `Closes` ends that, once the child is gone, or `CancelClose`, after which the caller has no answer. The third rests on the order of the queue of a worker's call lock (`PoolInv`): a caller stands in it
once, where its record says (`Queues`), and those who close a worker stand behind all who still call it and may start its child again (`Remembered`), so that
a child that the manager no longer names has somebody who will close it, or is deserted. Taking a caller out of the middle of the queue, as a cancellation does, keeps this order (the lemmas about `RemoveFirst`).
Both orders of events in `deserted` are needed: each makes a child that nobody remembers.

Only model-checked, since liveness under fairness is out of the prover's reach: `EveryRequestAnswered`, `EveryReconcilerAnswered`, `ShutdownCompletes`,
`EventuallyServed`, `EveryCallEnds`. Every invariant and every action property that a passing run checks is a theorem, under the conditions named above.

## What is not modelled

* Directories, commands, manual checkpoints and the commit of several paths at the grain of Git calls.
* The events by which `mcp_transport.py` follows each response; their effect on handlers, cancellation and the order of shutdown, is in `BridgeService`.
* Authentication: every request is verified online and nothing is kept, so there is no state to model; the models use only that a session belongs to its identity.
* The Windows branch of the lifecycle, `init`, `configure`, secrets and the migration of old homes.
* The child's own program, and `materialize_generated_codemcp_config`, which nothing in the source calls.
* Parsing and validation of settings, path policy, network trust and other pure functions on
  strings; the tunnel transports' parameters and probes, diagnostics, logging and scripts, which are input and output around the same calls.

`PROJECT.json` gives the reason for each.

## Plan

Done: the handlers with their promise, the repository under a body, the registry with its promise, the worker pool and the service lifecycle, with the theorems above. What is left, most important first:

1. moves with their two paths, and timeouts of `git mv` and `git rm`, in `GitMutation`;
2. two commands at a time in `ServiceLifecycle`: what each of them can still rely on;
3. `StatelessTransport`: the events of a response, cancellation on shutdown, order of close, refining the shutdown steps of
   `BridgeService`.
