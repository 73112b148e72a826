--------------------------- MODULE BridgeService ---------------------------
(***************************************************************************)
(* The request handlers of codemcp-remote's Bridge (mcp_server.py) over    *)
(* the operations, approvals, sessions and checkpoints it keeps in SQLite  *)
(* (db/store.py, operation_service.py, approval_service.py,                *)
(* session_service.py, checkpoint_service.py).                             *)
(*                                                                         *)
(* GRAIN.  Handlers are asyncio coroutines on one event loop: between two  *)
(* real suspension points nothing else in the Bridge runs.  `loop` names   *)
(* the request that runs between suspension points; every other handler    *)
(* step waits until it is None.  A step commits at most one transaction on *)
(* an operation (after the registry refresh that precedes it), because the *)
(* process may die between two commits: Crash does not wait for `loop`.    *)
(*                                                                         *)
(* DATA.  An Op is one replay identity (project, session,                  *)
(* client_request_id).  What a mutation does to the repository is the flag *)
(* effect[o]; Git itself is the subject of another module.  A request that *)
(* is refused or replayed changes nothing but the registry (Refresh).      *)
(***************************************************************************)
EXTENDS Naturals

CONSTANTS
  Project,      \* project ids an operator may register
  Session,      \* session ids project_open may hand out
  Op,           \* replay identities clients use
  Reconciler,   \* operation_reconcile requests that may be in flight at once
  IdentityOf,   \* session |-> the authenticated identity that opened it
  Kinds,        \* the operation kinds clients ask for in this instance
  Faults,       \* rare failures that may happen: "store", a SQLite write raises
                \* while a body finishes; "timeout", `git mv` or `git rm` hangs
  None          \* no request, no project, no session

ASSUME RequestsAssumption ==
  /\ Op \cap Reconciler = {}
  /\ None \notin Op \cup Reconciler \cup Project \cup Session

AllKinds == {"read", "write", "command", "checkpoint", "restore"}
ASSUME KindsAssumption == Kinds \subseteq AllKinds
ASSUME FaultsAssumption == Faults \subseteq {"store", "timeout"}

VARIABLES
  bridge,      \* the process: "down", "up", or "closing" (graceful shutdown)
  loop,        \* the request that holds the event loop
  configured,  \* the projects named in the projects config file
  registered,  \* ProjectRegistry._projects, the running snapshot of it
  status,      \* sessions.status together with sessions.reason
  home,        \* sessions.project_id
  state,       \* operations.state; "free" when there is no row
  kind,        \* operations.kind
  project,     \* operations.project_id
  session,     \* operations.session_id
  approval,    \* approvals.status; "none" when there is no row
  checkpoint,  \* the operation's checkpoint row: "none", "created" or
               \* "finalized" (after_json set)
  runs,        \* how often the operation's body was started
  effect,      \* did the operation change the repository?
  stray,       \* is a subprocess of the operation alive that nobody awaits?
  pc,          \* where the request that works on the operation is
  recAt,       \* where an operation_reconcile(succeeded) request is
  recOp        \* and the operation it is about

registryVars == <<configured, registered>>
sessionVars  == <<status, home>>
rowVars      == <<kind, project, session>>
effectVars   == <<runs, effect, stray>>
recVars      == <<recAt, recOp>>
vars == <<bridge, loop, registryVars, sessionVars, state, rowVars, approval,
          checkpoint, effectVars, pc, recVars>>

(***************************************************************************)
(* Values.  "removed", "restarted" and "closed" are the pairs              *)
(* (blocked, project_removed), (blocked, bridge_restart) and               *)
(* (closed, bridge_shutdown) of (sessions.status, sessions.reason);        *)
(* "opening" is a project_open request whose session has no row yet.       *)
(***************************************************************************)
SessionStatus == {"unborn", "opening", "active", "closing", "closed",
                  "removed", "restarted"}
OperationState == {"free", "received", "validated", "awaiting_approval",
                   "dispatched", "running", "succeeded", "failed",
                   "cancelled", "unknown"}
ActiveMutationStates == {"received", "validated", "awaiting_approval",
                         "dispatched", "running", "unknown"}

\* OPERATION_TRANSITIONS; a row is born in state "received".
OperationTransitions(from) ==
  CASE from = "free"              -> {"received"}
    [] from = "received"          -> {"validated", "failed", "cancelled"}
    [] from = "validated"         -> {"awaiting_approval", "dispatched",
                                      "failed", "cancelled"}
    [] from = "awaiting_approval" -> {"dispatched", "cancelled", "failed"}
    [] from = "dispatched"        -> {"running", "failed", "unknown"}
    [] from = "running"           -> {"succeeded", "failed", "unknown",
                                      "cancelled"}
    [] from = "unknown"           -> {"failed", "succeeded"}
    [] OTHER                      -> {}

\* Suspension points of a handler: the coroutine awaits Git, a command, a
\* worker or the project's mutation lock, and the loop may run others.
Suspended == {"checking", "waiting", "precheck", "acting", "applied", "reading"}
\* Points between two commits, at which the handler keeps the event loop.
Holding == {"created", "authorize", "issue", "issued", "ready", "dispatched",
            "body", "recorded", "cancelling"}
\* Inside `async with self._mutation_lock(project)`.
Locked == {"precheck", "acting", "applied", "recorded"}

Mutation(k) == k # "read"
\* Bodies whose checkpoint row has kind "mutation", the evidence that
\* operation_reconcile(succeeded) asks for.
MutationCheckpoint(k) == k \in {"write", "command"}
Confirmed(o) == approval[o] = "consumed"

\* The project's asyncio.Lock, and whether anyone queues for it: who asks for a
\* lock that is free and has no queue takes it without suspending.
LockFreeOfBodies(p) == \* a mutant: operation_reconcile takes no lock
  \A o \in Op : project[o] = p => pc[o] \notin Locked
LockFree(p) ==
  /\ \A o \in Op : project[o] = p => pc[o] \notin Locked
  /\ \A r \in Reconciler :
       recAt[r] \in {"verifying", "recorded"} => project[recOp[r]] # p
Uncontended(p) ==
  /\ LockFree(p)
  /\ \A o \in Op : project[o] = p => pc[o] # "waiting"
  /\ \A r \in Reconciler : recAt[r] = "waiting" => project[recOp[r]] # p

Init ==
  /\ bridge = "up" /\ loop = None
  /\ configured = Project /\ registered = Project
  /\ status = [s \in Session |-> "unborn"]
  /\ home = [s \in Session |-> None]
  /\ state = [o \in Op |-> "free"]
  /\ kind = [o \in Op |-> "read"]
  /\ project = [o \in Op |-> None]
  /\ session = [o \in Op |-> None]
  /\ approval = [o \in Op |-> "none"]
  /\ checkpoint = [o \in Op |-> "none"]
  /\ runs = [o \in Op |-> 0]
  /\ effect = [o \in Op |-> FALSE]
  /\ stray = [o \in Op |-> FALSE]
  /\ pc = [o \in Op |-> "idle"]
  /\ recAt = [r \in Reconciler |-> "idle"]
  /\ recOp = [r \in Reconciler |-> None]

-----------------------------------------------------------------------------
(* Building blocks of the handlers. *)

\* The event loop is free to run a handler that is ready to proceed.
Idle == bridge = "up" /\ loop = None

\* transition_operation: one committed transaction, refused outside the table;
\* some callers also name the state they expect.
Transition(o, to) ==
  /\ to \in OperationTransitions(state[o]) \cup {state[o]}
  /\ state' = [state EXCEPT ![o] = to]
TransitionFrom(o, expected, to) == state[o] = expected /\ Transition(o, to)

\* The request moves to a point before its next suspension, or to its next
\* suspension, or has been answered.
Continue(o, point) == pc' = [pc EXCEPT ![o] = point] /\ loop' = o
Suspend(o, point)  == pc' = [pc EXCEPT ![o] = point] /\ loop' = None
Answer(o)          == pc' = [pc EXCEPT ![o] = "idle"] /\ loop' = None

\* _refresh_project_registry: install the configuration file's projects and
\* revoke the sessions of those that disappeared; an unreadable, invalid or
\* changing file leaves the last known good snapshot.
Revoked(snapshot) ==
  [s \in Session |->
     IF status[s] \in {"active", "closing"} /\ home[s] \in registered \ snapshot
     THEN "removed" ELSE status[s]]

Refresh ==
  \E snapshot \in {configured, registered} :
    registered' = snapshot /\ status' = Revoked(snapshot)

\* require_active and _require_session, after the refresh of the same step.
RequireActive(p, s)  == s # None /\ status'[s] = "active" /\ home[s] = p
RequireSession(p, s) == p \in registered' /\ RequireActive(p, s)

-----------------------------------------------------------------------------
(* Sessions and the registry. *)

\* The operator's CLI adds or removes a project in the configuration file.
Configure(p) ==
  /\ configured' = IF p \in configured THEN configured \ {p} ELSE configured \cup {p}
  /\ UNCHANGED <<bridge, loop, registered, sessionVars, state, rowVars, approval,
                 checkpoint, effectVars, pc, recVars>>

\* Any handler that only refreshes: health, operation_status, a refusal, the
\* replay of a persisted result, a confirmation with a wrong or expired token.
RefreshRegistry ==
  /\ Idle
  /\ Refresh
  /\ UNCHANGED <<bridge, loop, configured, home, state, rowVars, approval,
                 checkpoint, effectVars, pc, recVars>>

\* project_open up to its await: the project is looked up once, here.
ProjectOpen(s, p) ==
  /\ Idle
  /\ status[s] = "unborn"
  /\ \E snapshot \in {configured, registered} :
       /\ p \in snapshot
       /\ registered' = snapshot
       /\ status' = [Revoked(snapshot) EXCEPT ![s] = "opening"]
  /\ home' = [home EXCEPT ![s] = p]
  /\ UNCHANGED <<bridge, loop, configured, state, rowVars, approval, checkpoint,
                 effectVars, pc, recVars>>

\* ... and after it: the session is created for the project looked up before.
SessionCreated(s) ==
  /\ Idle
  /\ status[s] = "opening"
  /\ status' = [status EXCEPT ![s] = "active"]
  /\ UNCHANGED <<bridge, loop, registryVars, home, state, rowVars, approval,
                 checkpoint, effectVars, pc, recVars>>

\* The inspection failed or the request was cancelled: no session.
OpenFails(s) ==
  /\ bridge # "down" /\ loop = None
  /\ status[s] = "opening"
  /\ status' = [status EXCEPT ![s] = "unborn"]
  /\ home' = [home EXCEPT ![s] = None]
  /\ UNCHANGED <<bridge, loop, registryVars, state, rowVars, approval,
                 checkpoint, effectVars, pc, recVars>>

-----------------------------------------------------------------------------
(* _execute up to the body. *)

\* ActiveOperationConflict: a mutation of the project is in an active state.
BlockedUnlessUnknown(p) == \* a mutant: an unknown outcome does not block
  \E o \in Op : /\ project[o] = p
                /\ Mutation(kind[o])
                /\ state[o] \in ActiveMutationStates \ {"unknown"}
Blocked(p) ==
  \E o \in Op : /\ project[o] = p
                /\ Mutation(kind[o])
                /\ state[o] \in ActiveMutationStates

\* No row has this replay identity: otherwise the row is replayed.
UnseenOrFailed(o) == state[o] \in {"free", "failed"} \* a mutant: failures are retried
Unseen(o) == state[o] = "free"

\* create_operation.  The project and the session are what the caller sent:
\* they are only looked at later (an id that was never handed out fares like
\* that of a closed session).
Start(o, p, s, k) ==
  /\ Idle /\ pc[o] = "idle"
  /\ Unseen(o)
  /\ status[s] \notin {"unborn", "opening"}
  /\ Mutation(k) => ~Blocked(p)
  /\ Refresh
  /\ state' = [state EXCEPT ![o] = "received"]
  /\ kind' = [kind EXCEPT ![o] = k]
  /\ project' = [project EXCEPT ![o] = p]
  /\ session' = [session EXCEPT ![o] = s]
  /\ Continue(o, "created")
  /\ UNCHANGED <<bridge, configured, home, approval, checkpoint, effectVars, recVars>>

\* The rest of OperationService.start; kinds with an approval_check run it next.
Validate(o) ==
  /\ pc[o] = "created"
  /\ TransitionFrom(o, "received", "validated")
  /\ Continue(o, IF kind[o] \in {"read", "write"} THEN "ready" ELSE "authorize")
  /\ UNCHANGED <<bridge, registryVars, sessionVars, rowVars, approval, checkpoint,
                 effectVars, recVars>>

\* approval_check up to its first suspension.  A command is looked up and its
\* configuration says whether it needs approval; the others inspect Git first.
Authorize(o) ==
  /\ pc[o] = "authorize"
  /\ Refresh
  /\ RequireSession(project[o], session[o])
  /\ \/ kind[o] = "command" /\ \E point \in {"issue", "ready"} : Continue(o, point)
     \/ kind[o] # "command" /\ Suspend(o, "checking")
  /\ UNCHANGED <<bridge, configured, home, state, rowVars, approval, checkpoint,
                 effectVars, recVars>>

AuthorizeFails(o) ==
  /\ pc[o] = "authorize"
  /\ Refresh
  /\ Transition(o, "failed")
  /\ Answer(o)
  /\ UNCHANGED <<bridge, configured, home, rowVars, approval, checkpoint,
                 effectVars, recVars>>

CheckIgnored(o) == \* a mutant: the verdict of approval_check is dropped
  /\ Idle /\ pc[o] = "checking"
  /\ Continue(o, "ready")
  /\ UNCHANGED <<bridge, registryVars, sessionVars, state, rowVars, approval,
                 checkpoint, effectVars, recVars>>
CheckPasses(o) ==
  /\ Idle /\ pc[o] = "checking"
  /\ Continue(o, "issue")
  /\ UNCHANGED <<bridge, registryVars, sessionVars, state, rowVars, approval,
                 checkpoint, effectVars, recVars>>

CheckFails(o) ==
  /\ Idle /\ pc[o] = "checking"
  /\ Transition(o, "failed")
  /\ Answer(o)
  /\ UNCHANGED <<bridge, registryVars, sessionVars, rowVars, approval,
                 checkpoint, effectVars, recVars>>

\* create_approval, then the transition to awaiting_approval.
IssueApproval(o) ==
  /\ pc[o] = "issue"
  /\ approval' = [approval EXCEPT ![o] = "pending"]
  /\ Continue(o, "issued")
  /\ UNCHANGED <<bridge, registryVars, sessionVars, state, rowVars, checkpoint,
                 effectVars, recVars>>

AwaitApproval(o) ==
  /\ pc[o] = "issued"
  /\ TransitionFrom(o, "validated", "awaiting_approval")
  /\ Answer(o)
  /\ UNCHANGED <<bridge, registryVars, sessionVars, rowVars, approval,
                 checkpoint, effectVars, recVars>>

-----------------------------------------------------------------------------
(* approval_confirm and operation_cancel. *)

\* require_operation_for_session on an operation that awaits approval.
OwnedAwaiting(o) ==
  /\ Idle /\ pc[o] = "idle"
  /\ state[o] = "awaiting_approval"
  /\ Refresh
  /\ RequireActive(project[o], session[o])

\* consume_approval with the right token before it expires.  (With an expired
\* one the transaction is rolled back: nothing changes.)
Confirm(o) ==
  /\ OwnedAwaiting(o)
  /\ approval[o] = "pending"
  /\ approval' = [approval EXCEPT ![o] = "consumed"]
  /\ Continue(o, "ready")
  /\ UNCHANGED <<bridge, configured, home, state, rowVars, checkpoint, effectVars, recVars>>

CancelApproval(o) ==
  /\ OwnedAwaiting(o)
  /\ approval[o] = "pending"
  /\ approval' = [approval EXCEPT ![o] = "cancelled"]
  /\ Continue(o, "cancelling")
  /\ UNCHANGED <<bridge, configured, home, state, rowVars, checkpoint, effectVars, recVars>>

CancelOperation(o) ==
  /\ pc[o] = "cancelling"
  /\ Transition(o, "cancelled")
  /\ Answer(o)
  /\ UNCHANGED <<bridge, registryVars, sessionVars, rowVars, approval,
                 checkpoint, effectVars, recVars>>

-----------------------------------------------------------------------------
(* Dispatch and the body of an operation. *)

\* OperationService.dispatch is two transactions.
Dispatch(o) ==
  /\ pc[o] = "ready"
  /\ TransitionFrom(o, IF Confirmed(o) THEN "awaiting_approval" ELSE "validated",
                    "dispatched")
  /\ Continue(o, "dispatched")
  /\ UNCHANGED <<bridge, registryVars, sessionVars, rowVars, approval,
                 checkpoint, effectVars, recVars>>

RunSuspends(o) == \* a mutant: an await before the body
  /\ pc[o] = "dispatched"
  /\ TransitionFrom(o, "dispatched", "running")
  /\ runs' = [runs EXCEPT ![o] = @ + 1]
  /\ Suspend(o, "body")
  /\ UNCHANGED <<bridge, registryVars, sessionVars, rowVars, approval,
                 checkpoint, effect, stray, recVars>>
Run(o) ==
  /\ pc[o] = "dispatched"
  /\ TransitionFrom(o, "dispatched", "running")
  /\ runs' = [runs EXCEPT ![o] = @ + 1]
  /\ Continue(o, "body")
  /\ UNCHANGED <<bridge, registryVars, sessionVars, rowVars, approval,
                 checkpoint, effect, stray, recVars>>

\* The body up to its first suspension.  A confirmed checkpoint or command
\* only looks its project up again; everything else re-checks its session.
\* An uncontended asyncio.Lock is taken without suspending.
Rechecks(o) == ~Confirmed(o) \/ kind[o] = "restore"

EnterBody(o) ==
  /\ pc[o] = "body"
  /\ \/ Rechecks(o) /\ Refresh /\ RequireSession(project[o], session[o])
     \/ ~Rechecks(o) /\ project[o] \in registered /\ UNCHANGED <<registered, status>>
  /\ Suspend(o, IF ~Mutation(kind[o]) THEN "reading"
                ELSE IF Uncontended(project[o]) THEN "precheck" ELSE "waiting")
  /\ UNCHANGED <<bridge, configured, home, state, rowVars, approval, checkpoint,
                 effectVars, recVars>>

BodyRefused(o) ==
  /\ pc[o] = "body"
  /\ IF Rechecks(o) THEN Refresh ELSE UNCHANGED <<registered, status>>
  /\ Transition(o, "failed")
  /\ Answer(o)
  /\ UNCHANGED <<bridge, configured, home, rowVars, approval, checkpoint,
                 effectVars, recVars>>

AcquireUncontended(o) == \* a mutant: a waiter waits for the queue it is in
  /\ Idle /\ pc[o] = "waiting"
  /\ Uncontended(project[o])
  /\ Suspend(o, "precheck")
  /\ UNCHANGED <<bridge, registryVars, sessionVars, state, rowVars, approval,
                 checkpoint, effectVars, recVars>>
AcquireLock(o) ==
  /\ Idle /\ pc[o] = "waiting"
  /\ LockFree(project[o])
  /\ Suspend(o, "precheck")
  /\ UNCHANGED <<bridge, registryVars, sessionVars, state, rowVars, approval,
                 checkpoint, effectVars, recVars>>

\* A suspended body ends with a BridgeError: nothing was changed ("failed") or
\* the outcome cannot be established ("unknown").
BodyEnds(o, point, to) ==
  /\ Idle /\ pc[o] = point
  /\ Transition(o, to)
  /\ Answer(o)
  /\ UNCHANGED <<bridge, registryVars, sessionVars, rowVars, approval,
                 checkpoint, effectVars, recVars>>

ReadReturns(o) == \E to \in {"succeeded", "failed"} : BodyEnds(o, "reading", to)

\* Preconditions, CheckpointService.create up to its Git ref.
PrecheckFails(o) == BodyEnds(o, "precheck", "failed")

\* The checkpoint row is inserted; a manual checkpoint is then complete.
TakeCheckpoint(o) ==
  /\ Idle /\ pc[o] = "precheck"
  /\ checkpoint' = [checkpoint EXCEPT ![o] = "created"]
  /\ IF kind[o] = "checkpoint"
     THEN effect' = [effect EXCEPT ![o] = TRUE] /\ Continue(o, "recorded")
     ELSE UNCHANGED effect /\ Suspend(o, "acting")
  /\ UNCHANGED <<bridge, registryVars, sessionVars, state, rowVars, approval,
                 runs, stray, recVars>>

\* A file changed under the caller, a tool missing: refused before any write.
ActionRefused(o) == kind[o] # "restore" /\ BodyEnds(o, "acting", "failed")

\* move_tracked_file, delete_tracked_file: `git mv` or `git rm` is killed after
\* its timeout, and the handler reports that it could not do it.
MoveTimesOut(o) ==
  /\ "timeout" \in Faults
  /\ Idle /\ pc[o] = "acting" /\ kind[o] = "write"
  /\ \E changes \in BOOLEAN : effect' = [effect EXCEPT ![o] = changes]
  /\ Transition(o, "failed")
  /\ Answer(o)
  /\ UNCHANGED <<bridge, registryVars, sessionVars, rowVars, approval,
                 checkpoint, runs, stray, recVars>>

\* The write and commit, the command, or the reset has run; a rewrite with the
\* same content or an idle command has no effect.
Act(o) ==
  /\ Idle /\ pc[o] = "acting"
  /\ \E changes \in BOOLEAN : effect' = [effect EXCEPT ![o] = changes]
  /\ Suspend(o, "applied")
  /\ UNCHANGED <<bridge, registryVars, sessionVars, state, rowVars, approval,
                 checkpoint, runs, stray, recVars>>

\* Git's answer is missing or not the expected one: UNKNOWN_SIDE_EFFECT.
OutcomeIgnored(o) == BodyEnds(o, "applied", "succeeded") \* a mutant
OutcomeGuessed(o) == BodyEnds(o, "applied", "failed")    \* a mutant
OutcomeUncertain(o) == BodyEnds(o, "applied", "unknown")

\* A command that reports an error, or whose Git state cannot be read.
CommandFails(o) == kind[o] = "command" /\ BodyEnds(o, "applied", "failed")

\* `except Exception`: finalize_checkpoint raises something else.
StoreFails(o) ==
  "store" \in Faults /\ BodyEnds(o, "applied", IF Confirmed(o) THEN "unknown" ELSE "failed")

\* finalize_checkpoint; the handler does not suspend before it finishes.
Finalize(o) ==
  /\ Idle /\ pc[o] = "applied"
  /\ checkpoint' = [checkpoint EXCEPT ![o] = "finalized"]
  /\ Continue(o, "recorded")
  /\ UNCHANGED <<bridge, registryVars, sessionVars, state, rowVars, approval,
                 effectVars, recVars>>

Finish(o) ==
  /\ pc[o] = "recorded"
  /\ Transition(o, "succeeded")
  /\ Answer(o)
  /\ UNCHANGED <<bridge, registryVars, sessionVars, rowVars, approval,
                 checkpoint, effectVars, recVars>>

-----------------------------------------------------------------------------
(* A request is cancelled at its suspension point: the transport terminates *)
(* its server after an error, or is shutting down.  (A client that only     *)
(* goes away is shielded from, _handle_stateless_request.)                  *)

\* Only _execute's second `try` catches CancelledError, and it finishes the
\* operation of its own request: a cancelled approval_check leaves the
\* operation "validated", a cancelled approval_confirm leaves the approved one
\* "running".  A subprocess that was awaited is not terminated.
CancelUncaught(o) == TRUE \* a mutant: no handler for CancelledError
CancelLeavesState(o) == pc[o] = "checking" \/ Confirmed(o)

\* Requests are cancelled while the Bridge serves and when it closes.
CancellableWhileUp == bridge = "up" \* a mutant: shutdown cancels nothing
Cancellable == bridge # "down"

Cancel(o) ==
  /\ Cancellable /\ loop = None
  /\ pc[o] \in Suspended
  /\ IF CancelLeavesState(o) THEN UNCHANGED state
     ELSE Transition(o, IF Mutation(kind[o]) THEN "unknown" ELSE "failed")
  /\ \E alive \in BOOLEAN :
       /\ alive => pc[o] = "acting"
       /\ stray' = [stray EXCEPT ![o] = alive]
  /\ Answer(o)
  /\ UNCHANGED <<bridge, registryVars, sessionVars, rowVars, approval, checkpoint,
                 runs, effect, recVars>>

\* The abandoned subprocess does its work after all, or dies without it.
StrayEnds(o) ==
  /\ stray[o]
  /\ stray' = [stray EXCEPT ![o] = FALSE]
  /\ \E lands \in BOOLEAN : effect' = [effect EXCEPT ![o] = @ \/ lands]
  /\ UNCHANGED <<bridge, loop, registryVars, sessionVars, state, rowVars, approval,
                 checkpoint, runs, pc, recVars>>

-----------------------------------------------------------------------------
(* operation_reconcile. *)

\* require_operation_for_reconcile: the operation's own session, or a session
\* of the same identity that succeeds one of the project which a restart or a shutdown ended.
AnyPredecessor(o, s) == \* a mutant: whatever ended the session of the operation
  /\ RequireActive(project[o], s)
  /\ \/ session[o] = s
     \/ /\ status'[session[o]] # "active"
        /\ home[session[o]] = project[o]
        /\ IdentityOf[session[o]] = IdentityOf[s]
MayReconcile(o, s) ==
  /\ RequireActive(project[o], s)
  /\ \/ session[o] = s
     \/ /\ status'[session[o]] \in {"restarted", "closed"}
        /\ home[session[o]] = project[o]
        /\ IdentityOf[session[o]] = IdentityOf[s]

ReconcileFailed(o, s) ==
  /\ Idle
  /\ state[o] = "unknown"
  /\ Refresh
  /\ MayReconcile(o, s)
  /\ Transition(o, "failed")
  /\ UNCHANGED <<bridge, loop, configured, home, rowVars, approval, checkpoint,
                 effectVars, pc, recVars>>

\* The evidence is looked up inside the lock: one mutation checkpoint, not
\* finalized.  Without it the request is refused.
Evidence(o) == MutationCheckpoint(kind[o]) /\ checkpoint[o] = "created"

RecSuspend(r, o, point) ==
  /\ recAt' = [recAt EXCEPT ![r] = point]
  /\ recOp' = [recOp EXCEPT ![r] = o]
  /\ loop' = None
RecAnswer(r) == RecSuspend(r, None, "idle")

ReconcileSucceeded(r, o, s) ==
  /\ Idle
  /\ recAt[r] = "idle"
  /\ state[o] = "unknown"
  /\ Refresh
  /\ MayReconcile(o, s)
  /\ project[o] \in registered'
  /\ \/ Uncontended(project[o]) /\ Evidence(o) /\ RecSuspend(r, o, "verifying")
     \/ ~Uncontended(project[o]) /\ RecSuspend(r, o, "waiting")
  /\ UNCHANGED <<bridge, configured, home, state, rowVars, approval, checkpoint,
                 effectVars, pc>>

RecAcquireUncontended(r) == \* a mutant: a waiter waits for the queue it is in
  /\ Idle /\ recAt[r] = "waiting"
  /\ Uncontended(project[recOp[r]])
  /\ RecSuspend(r, recOp[r], "verifying")
  /\ UNCHANGED <<bridge, registryVars, sessionVars, state, rowVars, approval,
                 checkpoint, effectVars, pc>>
RecAcquire(r) ==
  /\ Idle /\ recAt[r] = "waiting"
  /\ LockFree(project[recOp[r]])
  /\ IF Evidence(recOp[r]) THEN RecSuspend(r, recOp[r], "verifying") ELSE RecAnswer(r)
  /\ UNCHANGED <<bridge, registryVars, sessionVars, state, rowVars, approval,
                 checkpoint, effectVars, pc>>

\* verify_ref or the inspection of the repository fails.
RecVerifyFails(r) ==
  /\ Idle /\ recAt[r] = "verifying"
  /\ RecAnswer(r)
  /\ UNCHANGED <<bridge, registryVars, sessionVars, state, rowVars, approval,
                 checkpoint, effectVars, pc>>

RecCancel(r) ==
  /\ Cancellable /\ loop = None
  /\ recAt[r] \in {"waiting", "verifying"}
  /\ RecAnswer(r)
  /\ UNCHANGED <<bridge, registryVars, sessionVars, state, rowVars, approval,
                 checkpoint, effectVars, pc>>

\* CheckpointService.finalize, then the transition of the operation: if another
\* reconciliation has resolved it meanwhile, that transition is refused.
RecRecord(r) ==
  /\ Idle /\ recAt[r] = "verifying"
  /\ checkpoint' = [checkpoint EXCEPT ![recOp[r]] = "finalized"]
  /\ recAt' = [recAt EXCEPT ![r] = "recorded"]
  /\ loop' = r
  /\ UNCHANGED <<bridge, registryVars, sessionVars, state, rowVars, approval,
                 effectVars, pc, recOp>>

RecFinish(r) ==
  /\ recAt[r] = "recorded"
  /\ \/ Transition(recOp[r], "succeeded")
     \/ state[recOp[r]] # "unknown" /\ UNCHANGED state
  /\ RecAnswer(r)
  /\ UNCHANGED <<bridge, registryVars, sessionVars, rowVars, approval, checkpoint,
                 effectVars, pc>>

-----------------------------------------------------------------------------
(* Shutdown, crash and restart. *)

\* The transport stops: from now on suspended requests are only cancelled.
BeginShutdown ==
  /\ Idle
  /\ bridge' = "closing"
  /\ UNCHANGED <<loop, registryVars, sessionVars, state, rowVars, approval,
                 checkpoint, effectVars, pc, recVars>>

Quiet ==
  /\ \A o \in Op : pc[o] = "idle"
  /\ \A r \in Reconciler : recAt[r] = "idle"
  /\ \A s \in Session : status[s] # "opening"

\* close_active_sessions: two transactions for each session in turn.
CloseSession(s) ==
  /\ bridge = "closing" /\ Quiet
  /\ \/ /\ status[s] = "active"
        /\ \A t \in Session : status[t] # "closing"
        /\ status' = [status EXCEPT ![s] = "closing"]
     \/ /\ status[s] = "closing"
        /\ status' = [status EXCEPT ![s] = "closed"]
  /\ UNCHANGED <<bridge, loop, registryVars, home, state, rowVars, approval,
                 checkpoint, effectVars, pc, recVars>>

FinishShutdown ==
  /\ bridge = "closing" /\ Quiet
  /\ \A s \in Session : status[s] \notin {"active", "closing"}
  /\ bridge' = "down"
  /\ UNCHANGED <<loop, registryVars, sessionVars, state, rowVars, approval,
                 checkpoint, effectVars, pc, recVars>>

\* The process dies anywhere; its subprocesses may live on.
Crash ==
  /\ bridge # "down"
  /\ bridge' = "down"
  /\ loop' = None
  /\ status' = [s \in Session |-> IF status[s] = "opening" THEN "unborn" ELSE status[s]]
  /\ pc' = [o \in Op |-> "idle"]
  /\ recAt' = [r \in Reconciler |-> "idle"]
  /\ recOp' = [r \in Reconciler |-> None]
  /\ \E alive \in SUBSET {o \in Op : pc[o] = "acting"} :
       stray' = [o \in Op |-> stray[o] \/ o \in alive]
  /\ UNCHANGED <<registryVars, home, state, rowVars, approval, checkpoint,
                 runs, effect>>

\* recover_after_restart, one transaction.
RecoverAll(s) == \* a mutant: the WHERE clause is missing
  IF status[s] # "unborn" THEN "restarted" ELSE status[s]
RecoveredSession(s) ==
  IF status[s] \in {"active", "closing"} THEN "restarted" ELSE status[s]

RecoverAsFailed(o) == \* a mutant: whatever was running is taken to have failed
  IF state[o] = "awaiting_approval" THEN "cancelled"
  ELSE IF state[o] \in {"received", "validated", "dispatched", "running"} THEN "failed"
  ELSE state[o]
RecoverRaw(o) == \* a mutant: a state that is not in OPERATION_STATES
  IF state[o] \in {"dispatched", "running"} THEN "interrupted" ELSE state[o]
RecoveredState(o) ==
  IF state[o] = "awaiting_approval" THEN "cancelled"
  ELSE IF state[o] \in {"dispatched", "running"} /\ Mutation(kind[o]) THEN "unknown"
  ELSE IF state[o] \in {"received", "validated", "dispatched", "running"} THEN "failed"
  ELSE state[o]

\* Those of operations that awaited approval, and orphaned ones.
RecoverAwaited(o) == \* a mutant: orphaned approvals stay pending
  IF approval[o] = "pending" /\ state[o] = "awaiting_approval" THEN "cancelled"
  ELSE approval[o]
RecoveredApproval(o) == IF approval[o] = "pending" THEN "cancelled" ELSE approval[o]

BridgeStart ==
  /\ bridge = "down"
  /\ bridge' = "up"
  /\ registered' = configured
  /\ status' = [s \in Session |-> RecoveredSession(s)]
  /\ state' = [o \in Op |-> RecoveredState(o)]
  /\ approval' = [o \in Op |-> RecoveredApproval(o)]
  /\ UNCHANGED <<loop, configured, home, rowVars, checkpoint, effectVars, pc, recVars>>

-----------------------------------------------------------------------------
(* The next-state relation, and the fairness of the event loop. *)

\* A request that is being worked on takes a step of its own.
HandlerStep(o) ==
  \/ Validate(o) \/ Authorize(o) \/ AuthorizeFails(o)
  \/ CheckPasses(o) \/ CheckFails(o) \/ IssueApproval(o) \/ AwaitApproval(o)
  \/ CancelOperation(o)
  \/ Dispatch(o) \/ Run(o) \/ EnterBody(o) \/ BodyRefused(o) \/ AcquireLock(o)
  \/ ReadReturns(o) \/ PrecheckFails(o) \/ TakeCheckpoint(o)
  \/ ActionRefused(o) \/ MoveTimesOut(o) \/ Act(o)
  \/ OutcomeUncertain(o) \/ CommandFails(o) \/ StoreFails(o)
  \/ Finalize(o) \/ Finish(o)

ReconcilerStep(r) == RecAcquire(r) \/ RecVerifyFails(r) \/ RecRecord(r) \/ RecFinish(r)

OpenStep(s) == SessionCreated(s) \/ OpenFails(s)

\* What clients ask for.
Request ==
  \/ RefreshRegistry
  \/ \E s \in Session, p \in Project : ProjectOpen(s, p)
  \/ \E o \in Op, p \in Project, s \in Session, k \in Kinds : Start(o, p, s, k)
  \/ \E o \in Op : Confirm(o) \/ CancelApproval(o)
  \/ \E o \in Op, s \in Session : ReconcileFailed(o, s)
  \/ \E r \in Reconciler, o \in Op, s \in Session : ReconcileSucceeded(r, o, s)

Environment ==
  \/ \E p \in Project : Configure(p)
  \/ \E o \in Op : Cancel(o) \/ StrayEnds(o)
  \/ \E r \in Reconciler : RecCancel(r)
  \/ BeginShutdown \/ Crash \/ BridgeStart

ShutdownStep == (\E s \in Session : CloseSession(s)) \/ FinishShutdown

Next ==
  \/ Request
  \/ \E o \in Op : HandlerStep(o)
  \/ \E r \in Reconciler : ReconcilerStep(r)
  \/ \E s \in Session : OpenStep(s)
  \/ ShutdownStep
  \/ Environment

Spec == Init /\ [][Next]_vars

\* The ready queue of the loop and the waiters of an asyncio.Lock are FIFO, and
\* every Git call and command ends by its timeout: a request that can proceed
\* again and again does.  A transport that shuts down cancels every task.
Fairness ==
  /\ \A o \in Op : SF_vars(HandlerStep(o))
  /\ \A r \in Reconciler : SF_vars(ReconcilerStep(r))
  /\ \A s \in Session : SF_vars(OpenStep(s))
  /\ \A o \in Op : WF_vars(bridge = "closing" /\ Cancel(o))
  /\ \A r \in Reconciler : WF_vars(bridge = "closing" /\ RecCancel(r))
  /\ WF_vars(ShutdownStep)

FairSpec == Spec /\ Fairness

-----------------------------------------------------------------------------
(* Properties. *)

Terminal == {"succeeded", "failed", "cancelled"}
Points == {"idle"} \cup Suspended \cup Holding

\* Every variable holds a value of its kind.
TypeOK ==
  /\ bridge \in {"down", "up", "closing"}
  /\ loop \in Op \cup Reconciler \cup {None}
  /\ configured \subseteq Project /\ registered \subseteq Project
  /\ status \in [Session -> SessionStatus]
  /\ home \in [Session -> Project \cup {None}]
  /\ state \in [Op -> OperationState]
  /\ kind \in [Op -> AllKinds]
  /\ project \in [Op -> Project \cup {None}]
  /\ session \in [Op -> Session \cup {None}]
  /\ approval \in [Op -> {"none", "pending", "consumed", "cancelled"}]
  /\ checkpoint \in [Op -> {"none", "created", "finalized"}]
  /\ runs \in [Op -> Nat]
  /\ effect \in [Op -> BOOLEAN]
  /\ stray \in [Op -> BOOLEAN]
  /\ pc \in [Op -> Points]
  /\ recAt \in [Reconciler -> {"idle", "waiting", "verifying", "recorded"}]
  /\ recOp \in [Reconciler -> Op \cup {None}]

\* A project never has two mutations whose outcome is open (create_operation's
\* ACTIVE_OPERATION check), whatever cancellations, crashes, recoveries and
\* reconciliations come between the two requests.
OneActiveMutation ==
  \A o1, o2 \in Op :
    /\ o1 # o2 /\ project[o1] = project[o2]
    /\ Mutation(kind[o1]) /\ Mutation(kind[o2])
    /\ state[o1] \in ActiveMutationStates
    => state[o2] \notin ActiveMutationStates

\* A replay identity's body is started at most once: a retry, a confirmation, a
\* restart or a reconciliation never runs it again.
AtMostOnce == \A o \in Op : runs[o] <= 1

\* A manual checkpoint or a rollback runs only after its one-time approval was
\* consumed.
ApprovedBeforeRun ==
  \A o \in Op : kind[o] \in {"checkpoint", "restore"} /\ runs[o] > 0 => Confirmed(o)

\* While the Bridge serves and nobody works on an operation, it awaits approval
\* exactly if an approval is pending: neither a crash between create_approval and
\* the transition, nor one between consume_approval and dispatch, leaves a token
\* that still opens something or an operation that no token can open.
ApprovalMatchesState ==
  \A o \in Op : bridge = "up" /\ pc[o] = "idle" =>
    (approval[o] = "pending" <=> state[o] = "awaiting_approval")

\* Bodies and reconciliations of one project exclude each other inside the
\* project's mutation lock.
LockExclusion ==
  \A p \in Project :
    LET bodies == {o \in Op : project[o] = p /\ pc[o] \in Locked}
        reconcilers == {r \in Reconciler : /\ recAt[r] \in {"verifying", "recorded"}
                                           /\ project[recOp[r]] = p}
    IN  \A x, y \in bodies \cup reconcilers : x = y

\* A mutation is reported as succeeded only with its evidence on record: the
\* finalized checkpoint, or the row of the manual checkpoint itself.
SucceededIsEvidenced ==
  \A o \in Op : Mutation(kind[o]) /\ state[o] = "succeeded" =>
    checkpoint[o] = IF kind[o] = "checkpoint" THEN "created" ELSE "finalized"

\* An operation that its own request runs is never left open: whatever happens to
\* that request, the row leaves "received", "dispatched" and "running".  (The
\* operation that an approval_confirm runs is not covered: NoAbandonedRunning.)
NeverOrphaned ==
  \A o \in Op :
    bridge = "up" /\ pc[o] = "idle" /\ state[o] \in {"received", "dispatched", "running"}
    => Confirmed(o)

\* A session that ended never serves again, nor turns from revoked into merely
\* restarted, which would open its operations to a successor.
EndedSessionsStayEnded ==
  [][\A s \in Session :
       status[s] \in {"closed", "removed", "restarted"} => status'[s] = status[s]]_vars

\* When a body comes to its first await, in Git or at the lock, its project is
\* registered and its session is an active one of that project.  A confirmed
\* checkpoint or command does not look at the session again: it rests on nothing
\* coming between the look of approval_confirm and the body, be it a removal or a
\* removal and a new registration.  (No body looks again when it gets the lock it
\* queued for: NoTurnForTheRevoked does not hold.)
BodiesBeginAlive ==
  [][\A o \in Op :
       pc[o] = "body" /\ pc'[o] \in Suspended =>
         /\ project[o] \in registered'
         /\ status'[session[o]] = "active"
         /\ home[session[o]] = project[o]]_vars

\* While the Bridge serves, an unknown outcome is given up as failed only at the
\* word of an active session of the same project and the same identity: that of
\* the operation, or one after it if that one was ended by a restart or a shutdown.
\* A session that was revoked has no successor, in whatever order the removal,
\* the new registration, the restart and the shutdown came.
OnlyOwnersReconcile ==
  [][\A o \in Op :
       bridge = "up" /\ state[o] = "unknown" /\ state'[o] = "failed" =>
         \E s \in Session :
           /\ status'[s] = "active" /\ home[s] = project[o]
           /\ IdentityOf[s] = IdentityOf[session[o]]
           /\ s # session[o] => status'[session[o]] \notin {"active", "removed"}]_vars

\* A direct mutation or a rollback that is recorded as failed while its body ran
\* has left the repository as it was and leaves nothing behind that could still
\* change it: no cancellation, timeout of the whole request or reconciliation is
\* taken for a failure without effect.  This holds with Faults = {} only: `git mv`
\* or `git rm` that times out (MoveTimesOut) and a store that fails after the
\* effect (StoreFails) are recorded as failed.  (The error of a command is the
\* command's own verdict.)
NoGuessedFailure ==
  [][\A o \in Op :
       /\ Mutation(kind[o]) /\ kind[o] # "command"
       /\ state[o] = "running" /\ state'[o] = "failed"
       => ~effect'[o] /\ ~stray'[o]]_vars

\* The refinement mapping: an operation is a mutation once its row says so.
\* "dispatched" and "running" are one phase, in which the side effect may exist.
PhaseOf(o) ==
  IF ~Mutation(kind[o]) \/ state[o] = "free" THEN "none"
  ELSE IF state[o] \in {"received", "validated"} THEN "pending"
  ELSE IF state[o] = "awaiting_approval" THEN "awaiting"
  ELSE IF state[o] \in {"dispatched", "running"} THEN "running"
  ELSE state[o]

Promise == INSTANCE MutationPromise WITH
  serving  <- bridge # "down",
  phase    <- [o \in Op |-> PhaseOf(o)],
  owner    <- [o \in Op |-> IF Mutation(kind[o]) THEN project[o] ELSE None],
  guarded  <- [o \in Op |-> kind[o] \in {"checkpoint", "restore"}],
  approved <- [o \in Op |-> Confirmed(o)]

\* The handlers keep the promise of MutationPromise: one open mutation for each
\* project, carried out at most once, guarded kinds only with approval, nothing
\* guessed over a restart, and only a decision resolves what is unknown.
KeepsPromise == Promise!PromiseSpec

\* Every request that is being worked on is answered, or dies with the process.
EveryRequestAnswered == \A o \in Op : (pc[o] # "idle") ~> (pc[o] = "idle")

\* Every reconciliation gets the mutation lock or gives up, and is answered.
EveryReconcilerAnswered == \A r \in Reconciler : (recAt[r] # "idle") ~> (recAt[r] = "idle")

\* A shutdown that has begun ends, whatever requests, reconciliations and openings
\* of sessions it finds suspended (FinishShutdown waits for them and then for the
\* closing of each session).
ShutdownCompletes == (bridge = "closing") ~> (bridge = "down")

-----------------------------------------------------------------------------
(* What the repository's documents say, and the code does not do. *)

\* security-model.md:93 "Where completion cannot be determined, the operation must
\* become `unknown` and require reconciliation": a running operation that nobody
\* works on has an outcome nobody will determine.
NoAbandonedRunning ==
  \A o \in Op : bridge = "up" /\ pc[o] = "idle" => state[o] # "running"

\* security-model.md:119 "Removal is a revocation boundary ... active sessions for
\* the removed project are persistently blocked": the Bridge never serves an
\* active session of a project it has dropped from its registry.
RevokedProjectHasNoActiveSession ==
  \A s \in Session : bridge = "up" /\ status[s] = "active" => home[s] \in registered

\* project-registry-hot-reload-plan.md:594 "An existing B session cannot read/write
\* after removal.": a request whose session was revoked while it queued for the
\* mutation lock does not go on to its checkpoint and its write.  No run checks this:
\* it does not hold, since no body asks again when it gets the lock.
NoTurnForTheRevoked ==
  [][\A o \in Op :
       pc[o] \notin Locked /\ pc'[o] \in Locked => status'[session[o]] = "active"]_vars

\* README.md:34 "mutations are idempotent and serialized per project": nothing of
\* one mutation still works on the project while the body of another does.
MutationsSerialized ==
  \A o1, o2 \in Op :
    o1 # o2 /\ project[o1] = project[o2] /\ stray[o1] => pc[o2] \notin {"acting", "applied"}
=============================================================================
