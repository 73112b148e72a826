------------------------------ MODULE WorkerPool ------------------------------
(***************************************************************************)
(* The pool of codemcp workers (worker_manager.py): one child process for  *)
(* each registered project, started by the first call, shared by all       *)
(* calls, discarded by a call that fails, is cancelled or times out.       *)
(*                                                                         *)
(* GRAIN.  All runs in one event loop, so an action is what a task does    *)
(* between two awaits that may suspend it.  _workers_lock and              *)
(* _lifecycle_lock are never held over such an await and need no state;    *)
(* _call_lock is a queue whose head holds it.                              *)
(*                                                                         *)
(* DATA.  A ProjectSpec is a project and a version of its entry.  The      *)
(* child lives as long as the context of its owner task (stdio_client      *)
(* terminates it, external); a child that died before makes calls fail,    *)
(* which they may do at any time.                                          *)
(***************************************************************************)
EXTENDS Naturals, Sequences
LOCAL INSTANCE SequencesExt

CONSTANTS
  Project, Version,
  Caller,     \* requests that may call a worker at the same time
  Worker,     \* bound: workers that are registered or in use at the same time
  NoWorker

ASSUME NoWorkerAssumption == NoWorker \notin Worker
ASSUME TaskAssumption == Caller \cap Project = {}
ASSUME ProjectAssumption == Project # {} /\ Version # {}

VARIABLES
  pool,       \* WorkerManager._workers, with the version each was made for
  worker,     \* the worker objects: owner task and child
  queue,      \* who holds and who awaits the call lock of a worker
  task,       \* the requests, and the closing of each project's worker at shutdown
  closed,     \* whether the manager has been closed
  deserted    \* history: workers that a cancellation or a discard left to nobody

poolVars == <<pool, worker, queue, task, closed, deserted>>

ProjectSpec == [project : Project, version : Version]

\* WorkerManager.close closes each registered worker in a task of its own; it goes by the
\* name of the project.
Task == Caller \cup Project

\* A task: the worker it will call and the worker it has to close.
Idle == [at |-> "idle", uses |-> NoWorker, closes |-> NoWorker]

Vacant == [worker |-> NoWorker, version |-> CHOOSE v \in Version : TRUE]

\* A worker object.  An owner task that is done is as good as none; `unfinished` are the
\* callers that gave up while the child worked on their call (a history).
NewWorker(p) == [project |-> p, owner |-> "none", shutdown |-> FALSE, unfinished |-> {}]
Alive(w) == worker[w].owner # "none"
Registered(w) == \E p \in Project : pool[p].worker = w

At(t, point) == task[t].at = point
Holds(t, w) == queue[w] # <<>> /\ Head(queue[w]) = t

\* A name for the next worker object: one that nothing refers to.
Unreferenced(w) ==
  ~Registered(w) /\ ~Alive(w) /\ \A t \in Task : w \notin {task[t].uses, task[t].closes}
Fresh == CHOOSE w \in Worker : Unreferenced(w)
-----------------------------------------------------------------------------
PoolInit ==
  /\ pool = [p \in Project |-> Vacant]
  /\ worker = [w \in Worker |-> NewWorker(CHOOSE p \in Project : TRUE)]
  /\ queue = [w \in Worker |-> <<>>]
  /\ task = [t \in Task |-> Idle]
  /\ closed = FALSE
  /\ deserted = {}

(***************************************************************************)
(* _get_worker and the call                                                *)
(***************************************************************************)
\* The request that registered a worker still closes the stale one: it will call its own worker
\* afterwards, and start it, whether or not the pool still has it.
ComesLate(w) == \E t \in Task : task[t].uses = w /\ task[t].closes # NoWorker

\* A request carries the ProjectSpec that it looked up.  It shares the registered worker ...
GetsWorker(c, s) ==
  LET w == pool[s.project].worker
  IN  /\ At(c, "idle") /\ ~closed
      /\ w # NoWorker /\ pool[s.project].version = s.version
      /\ task' = [task EXCEPT ![c] = [at |-> "queued", uses |-> w, closes |-> NoWorker]]
      /\ queue' = [queue EXCEPT ![w] = Append(@, c)]
      /\ UNCHANGED <<pool, worker, closed, deserted>>

\* ... or registers one of its own, and closes the stale one before it calls.
NewsWorker(c, s) ==
  LET stale == pool[s.project].worker
      new == Fresh
  IN  /\ At(c, "idle") /\ ~closed
      /\ stale # NoWorker => pool[s.project].version # s.version
      /\ \E w \in Worker : Unreferenced(w)
      /\ pool' = [pool EXCEPT ![s.project] = [worker |-> new, version |-> s.version]]
      /\ worker' = [worker EXCEPT ![new] = NewWorker(s.project)]
      /\ task' = [task EXCEPT ![c] = [at |-> IF stale = NoWorker THEN "queued" ELSE "close",
                                      uses |-> new, closes |-> stale]]
      /\ LET lock == IF stale = NoWorker THEN new ELSE stale
         IN  queue' = [queue EXCEPT ![lock] = Append(@, c)]
      /\ deserted' = (deserted \ {new}) \cup {w \in {stale} \cap Worker : ComesLate(w)}
      /\ UNCHANGED closed

TakesAnyLock(c) == \* a mutant: call does not take the lock
  /\ At(c, "queued")
  /\ Alive(task[c].uses) \/ Holds(c, task[c].uses)
  /\ task' = [task EXCEPT ![c].at = "starting"]
  /\ worker' = IF Alive(task[c].uses) THEN worker
                ELSE [worker EXCEPT ![task[c].uses].owner = "starting"]
  /\ UNCHANGED <<pool, queue, closed, deserted>>

\* With the call lock: the session is there, or the owner task is created, or the startup
\* that another caller left is awaited.
TakesLock(c) ==
  LET w == task[c].uses
  IN  /\ At(c, "queued") /\ Holds(c, w)
      /\ task' = [task EXCEPT ![c].at = IF worker[w].owner = "ready" THEN "calling"
                                                                     ELSE "starting"]
      /\ worker' = IF Alive(w) THEN worker
                               ELSE [worker EXCEPT ![w].owner = "starting", ![w].shutdown = FALSE]
      /\ UNCHANGED <<pool, queue, closed, deserted>>

StartupAnswers(c) ==
  /\ At(c, "starting") /\ worker[task[c].uses].owner = "ready"
  /\ task' = [task EXCEPT ![c].at = "calling"]
  /\ UNCHANGED <<pool, worker, queue, closed, deserted>>

CallReturns(c) ==
  LET w == task[c].uses
  IN  /\ At(c, "calling") /\ worker[w].owner = "ready"
      /\ task' = [task EXCEPT ![c] = Idle]
      /\ queue' = [queue EXCEPT ![w] = Tail(@)]
      /\ UNCHANGED <<pool, worker, closed, deserted>>

(***************************************************************************)
(* _discard and close                                                      *)
(***************************************************************************)
\* The caller gives the lock or its place in the queue up, takes the worker from the pool if
\* it is still there, and queues to close it.
DiscardUnclosed(c) == \* a mutant: the worker is only taken from the pool
  LET w == task[c].uses
  IN  /\ pool' = [p \in Project |-> IF pool[p].worker = w THEN Vacant ELSE pool[p]]
      /\ queue' = [queue EXCEPT ![w] = RemoveFirst(@, c)]
      /\ task' = [task EXCEPT ![c] = Idle]
      /\ UNCHANGED <<worker, closed, deserted>>
Discard(c) ==
  LET w == task[c].uses
  IN  /\ pool' = [p \in Project |-> IF pool[p].worker = w THEN Vacant ELSE pool[p]]
      /\ worker' = IF At(c, "calling") /\ worker[w].owner = "ready"
                     THEN [worker EXCEPT ![w].unfinished = @ \cup {c}]
                     ELSE worker
      /\ queue' = [queue EXCEPT ![w] = Append(RemoveFirst(@, c), c)]
      /\ task' = [task EXCEPT ![c] = [at |-> "close", uses |-> NoWorker, closes |-> w]]
      /\ deserted' = deserted \cup {x \in {w} : ComesLate(x)}
      /\ UNCHANGED closed

StartupUnheard(c) == FALSE \* a mutant: startup_future does not get the exception
StartupFailed(c) ==
  At(c, "starting") /\ ~Alive(task[c].uses) /\ Discard(c)

\* The call raises, or its timeout is over.
CallFails(c) == At(c, "calling") /\ Discard(c)

\* The request is cancelled at an await of the call.  The startup goes on: it is shielded.
Cancelled(c) == task[c].at \in {"queued", "starting", "calling"} /\ Discard(c)

\* close, with the call lock: the owner task is told to leave its contexts, and awaited.
BeginsClosing(t) ==
  LET w == task[t].closes
  IN  /\ At(t, "close") /\ Holds(t, w)
      /\ task' = [task EXCEPT ![t].at = "closing"]
      /\ worker' = [worker EXCEPT ![w].shutdown = Alive(w)]
      /\ UNCHANGED <<pool, queue, closed, deserted>>

ClosesAtOnce(t) == \* a mutant: the owner is told to end, not awaited
  /\ At(t, "closing") /\ task[t].uses = NoWorker
  /\ task' = [task EXCEPT ![t] = Idle]
  /\ queue' = [queue EXCEPT ![task[t].closes] = Tail(@)]
  /\ UNCHANGED <<pool, worker, closed, deserted>>

\* The owner is done.  A request that closed a stale worker goes on to its call, unless it was
\* cancelled here, which also ends the owner.
Closes(t) ==
  LET w == task[t].closes
      next == task[t].uses
      left == [queue EXCEPT ![w] = Tail(@)]
  IN  /\ At(t, "closing") /\ ~Alive(w)
      /\ worker' = [worker EXCEPT ![w].shutdown = FALSE]
      /\ \/ /\ task' = [task EXCEPT ![t] = Idle]
            /\ queue' = left
         \/ /\ next # NoWorker
            /\ task' = [task EXCEPT ![t].at = "queued", ![t].closes = NoWorker]
            /\ queue' = [left EXCEPT ![next] = Append(@, t)]
      /\ UNCHANGED <<pool, closed, deserted>>

\* A request is cancelled in the queue to close a worker: of the stale worker, whose close is
\* awaited outside the try of call, or once more in _discard.  Nobody takes over for it, and a
\* call of its own that the child still works on stays as it is.
CancelClose(c) ==
  LET w == task[c].closes
  IN  /\ At(c, "close") /\ ~Holds(c, w)
      /\ queue' = [queue EXCEPT ![w] = RemoveFirst(@, c)]
      /\ task' = [task EXCEPT ![c] = Idle]
      /\ worker' = [worker EXCEPT ![w].unfinished = @ \ {c}]
      /\ deserted' = deserted \cup {x \in {w} : \A t \in Task \ {c} : task[t].closes # x}
      /\ UNCHANGED <<pool, closed>>

\* WorkerManager.close, once the transport has ended all requests.
ManagerCloses ==
  /\ ~closed /\ \A c \in Caller : At(c, "idle")
  /\ closed' = TRUE
  /\ pool' = [p \in Project |-> Vacant]
  /\ task' = [t \in Task |-> IF t \in Project /\ pool[t] # Vacant
                               THEN [at |-> "close", uses |-> NoWorker,
                                     closes |-> pool[t].worker]
                               ELSE task[t]]
  /\ queue' = [w \in Worker |-> IF Registered(w)
                                  THEN Append(queue[w], worker[w].project)
                                  ELSE queue[w]]
  /\ UNCHANGED <<worker, deserted>>

(***************************************************************************)
(* _run_owner                                                              *)
(***************************************************************************)
OwnerReady(w) ==
  /\ worker[w].owner = "starting"
  /\ worker' = [worker EXCEPT ![w].owner = "ready"]
  /\ UNCHANGED <<pool, queue, task, closed, deserted>>

\* The contexts are left and the child is gone, with all it was doing.
OwnerEnds(w) ==
  /\ worker' = [worker EXCEPT ![w].owner = "none", ![w].unfinished = {}]
  /\ UNCHANGED <<pool, queue, task, closed, deserted>>

\* The child cannot be started or does not answer in time.
StartupFails(w) == worker[w].owner = "starting" /\ OwnerEnds(w)
ShutsDown(w) == worker[w].owner = "ready" /\ worker[w].shutdown /\ OwnerEnds(w)
\* The streams break, or a closing task that awaits the owner is cancelled and cancels it.
Breaks(w) == worker[w].owner = "ready" /\ ~worker[w].shutdown /\ OwnerEnds(w)
-----------------------------------------------------------------------------
CallerStep(c) ==
  \/ TakesLock(c) \/ StartupAnswers(c) \/ StartupFailed(c) \/ CallReturns(c) \/ CallFails(c)
TaskStep(t) == (t \in Caller /\ CallerStep(t)) \/ BeginsClosing(t) \/ Closes(t)
OwnerStep(w) == OwnerReady(w) \/ StartupFails(w) \/ ShutsDown(w)

PoolNext ==
  \/ \E c \in Caller : \/ \E s \in ProjectSpec : GetsWorker(c, s) \/ NewsWorker(c, s)
                       \/ Cancelled(c) \/ CancelClose(c)
  \/ \E t \in Task : TaskStep(t)
  \/ \E w \in Worker : OwnerStep(w) \/ Breaks(w)
  \/ ManagerCloses

PoolSpec == PoolInit /\ [][PoolNext]_poolVars

\* A task that may go on does, as the event loop is fair; a call and a startup have a timeout;
\* a child that is told to end is terminated in the end.
FairPool ==
  /\ PoolSpec
  /\ \A t \in Task : WF_poolVars(TaskStep(t))
  /\ \A w \in Worker : WF_poolVars(OwnerStep(w))
-----------------------------------------------------------------------------
(***************************************************************************)
(* Properties                                                              *)
(***************************************************************************)
\* The type invariant, and: who works with a worker holds its call lock.
PoolTypeOK ==
  /\ pool \in [Project -> [worker : Worker, version : Version] \cup {Vacant}]
  /\ worker \in [Worker -> [project : Project, owner : {"none", "starting", "ready"},
                            shutdown : BOOLEAN, unfinished : SUBSET Caller]]
  /\ queue \in [Worker -> Seq(Task)]
  /\ task \in [Task -> [at : {"idle", "queued", "starting", "calling", "close", "closing"},
                        uses : Worker \cup {NoWorker}, closes : Worker \cup {NoWorker}]]
  /\ closed \in BOOLEAN
  /\ deserted \subseteq Worker
  /\ \A t \in Task : /\ task[t].at \in {"starting", "calling"} => Holds(t, task[t].uses)
                     /\ At(t, "closing") => Holds(t, task[t].closes)

\* A child that lives is the child of a worker which the pool still has or some request calls or
\* closes: a worker that does not match its project's spec any more is replaced, not left running
\* where nobody, not even WorkerManager.close, can end it.  No run checks this: it does not hold,
\* and OnlyDesertedAreForgotten says how far.
NoChildForgotten ==
  \A w \in Worker :
    Alive(w) => Registered(w) \/ \E t \in Task : w \in {task[t].uses, task[t].closes}

\* A child that lives belongs to a worker of the pool or to one that some task is about to close,
\* whatever calls fail, time out or are cancelled (_discard takes a worker from the pool before it
\* awaits the lock), but for two orders of events: the last task that would close the worker is
\* cancelled in the queue for its lock, or the worker is taken from the pool while the request
\* that registered it still closes the stale one, and calls it afterwards.
OnlyDesertedAreForgotten ==
  \A w \in Worker \ deserted :
    Alive(w) => Registered(w) \/ \E t \in Task : task[t].closes = w

\* A request that was answered has no child that still works on its call: not after a timeout
\* (UNKNOWN_SIDE_EFFECT) and not after a cancellation (call awaits _discard).  A request that
\* is cancelled again while it awaits that is not answered, and leaves the child at work.
AnsweredMeansOver ==
  \A w \in Worker, c \in Caller : c \in worker[w].unfinished => ~At(c, "idle")

\* Every request ends, whatever the worker does, and whoever holds or leaves its lock.
EveryCallEnds == \A t \in Task : ~At(t, "idle") ~> At(t, "idle")

\* The calls of one project follow one another ("Maintain at most one serialized worker per
\* registered project.", WorkerManager).
CallsSerialized ==
  \A c, d \in Caller :
    At(c, "calling") /\ At(d, "calling") /\ c # d
      => worker[task[c].uses].project # worker[task[d].uses].project
===============================================================================
