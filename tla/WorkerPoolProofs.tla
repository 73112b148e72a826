-------------------------- MODULE WorkerPoolProofs --------------------------
(***************************************************************************)
(* The safety properties of WorkerPool, for any number of requests,        *)
(* projects and workers.                                                   *)
(*                                                                         *)
(* The argument: a task is in the queue of one lock, once, and works only  *)
(* as its head (Queues); the pool ends when the manager is closed          *)
(* (Ending); and the tasks that close a worker stand behind all that still *)
(* call it (Remembered), so that the last closer leaves a worker which     *)
(* nobody can start again.  A deserted worker is the exception, and stays  *)
(* one: nothing is said of it, and nothing of it disturbs another.         *)
(***************************************************************************)
EXTENDS WorkerPool, SequenceTheorems, TLAPS
LOCAL INSTANCE SequencesExt

USE NoWorkerAssumption, TaskAssumption, ProjectAssumption

TaskRecord == [at : {"idle", "queued", "starting", "calling", "close", "closing"},
               uses : Worker \cup {NoWorker}, closes : Worker \cup {NoWorker}]
WorkerRecord == [project : Project, owner : {"none", "starting", "ready"},
                 shutdown : BOOLEAN, unfinished : SUBSET Caller]

\* The part of the type invariant that says nothing of the queues.
Typed ==
  /\ pool \in [Project -> [worker : Worker, version : Version] \cup {Vacant}]
  /\ worker \in [Worker -> WorkerRecord]
  /\ task \in [Task -> TaskRecord]

\* A child that works on a call nobody awaits lives, and the caller is closing it.
Abandons(c, w) ==
  c \in worker[w].unfinished
    => Alive(w) /\ task[c].closes = w /\ task[c].at \in {"close", "closing"}
AbandonInv == \A w \in Worker, c \in Caller : Abandons(c, w)

LEMMA VacantType == Vacant.worker = NoWorker /\ Vacant.version \in Version
  BY DEF Vacant

LEMMA IdleType == Idle \in TaskRecord
  BY DEF Idle, TaskRecord

LEMMA NewWorkerType == \A p \in Project : NewWorker(p) \in WorkerRecord
  BY DEF NewWorker, WorkerRecord

LEMMA FreshType ==
  ASSUME NEW w \in Worker, Unreferenced(w) PROVE Fresh \in Worker /\ Unreferenced(Fresh)
  BY DEF Fresh

\* The worker of a pool entry, if there is one.
LEMMA PooledType ==
  ASSUME Typed, NEW p \in Project, pool[p].worker # NoWorker PROVE pool[p].worker \in Worker
  BY VacantType DEF Typed

\* Only one task's record changes.
LEMMA TaskChange ==
  ASSUME Typed, NEW t \in Task, NEW r \in TaskRecord, task' = [task EXCEPT ![t] = r]
  PROVE  /\ task' \in [Task -> TaskRecord]
         /\ task'[t] = r
         /\ \A u \in Task \ {t} : task'[u] = task[u]
  BY DEF Typed

\* Only one worker's record changes.
LEMMA WorkerChange ==
  ASSUME Typed, NEW w \in Worker, NEW r \in WorkerRecord, worker' = [worker EXCEPT ![w] = r]
  PROVE  /\ worker' \in [Worker -> WorkerRecord]
         /\ worker'[w] = r
         /\ \A x \in Worker \ {w} : worker'[x] = worker[x]
  BY DEF Typed

\* The flag of a worker, or of none, is set or reset.
LEMMA FlagChange ==
  ASSUME Typed, NEW w, NEW b \in BOOLEAN, worker' = [worker EXCEPT ![w].shutdown = b]
  PROVE  /\ worker' \in [Worker -> WorkerRecord]
         /\ \A x \in Worker : /\ worker'[x].unfinished = worker[x].unfinished
                              /\ worker'[x].owner = worker[x].owner
<1>1. CASE w \notin Worker
  BY <1>1 DEF Typed
<1>2. CASE w \in Worker
  <2>1. /\ [worker[w] EXCEPT !.shutdown = b] \in WorkerRecord
        /\ [worker[w] EXCEPT !.shutdown = b].unfinished = worker[w].unfinished
        /\ [worker[w] EXCEPT !.shutdown = b].owner = worker[w].owner
    BY <1>2 DEF Typed, WorkerRecord
  <2> QED
    BY <1>2, <2>1, WorkerChange
<1> QED
  BY <1>1, <1>2

\* A worker, or none, gets an owner.
LEMMA FlagsChange ==
  ASSUME Typed, NEW w,
         worker' = [worker EXCEPT ![w].owner = "starting", ![w].shutdown = FALSE]
  PROVE  /\ worker' \in [Worker -> WorkerRecord]
         /\ \A x \in Worker : /\ worker'[x].unfinished = worker[x].unfinished
                              /\ worker'[x].owner = "none" => worker[x].owner = "none"
<1>1. CASE w \notin Worker
  BY <1>1 DEF Typed
<1>2. CASE w \in Worker
  <2> DEFINE r == [worker[w] EXCEPT !.owner = "starting", !.shutdown = FALSE]
  <2>1. r \in WorkerRecord /\ r.unfinished = worker[w].unfinished /\ r.owner = "starting"
    BY <1>2 DEF Typed, WorkerRecord
  <2>2. worker' = [worker EXCEPT ![w] = r]
    BY <1>2 DEF Typed, WorkerRecord
  <2> HIDE DEF r
  <2> QED
    BY <1>2, <2>1, <2>2, WorkerChange
<1> QED
  BY <1>1, <1>2

\* A step that leaves the abandoned calls of each worker as they were, or none of them, and
\* the record of every caller that abandoned one.
LEMMA NothingAbandoned ==
  ASSUME AbandonInv,
         \A w \in Worker : \/ worker'[w].unfinished = {}
                           \/ /\ worker'[w].unfinished = worker[w].unfinished
                              /\ worker'[w].owner = "none" => worker[w].owner = "none",
         \A c \in Caller : \/ task'[c] = task[c]
                           \/ \A w \in Worker : c \notin worker[w].unfinished
                           \/ /\ task[c].at = "close" /\ task'[c].at = "closing"
                              /\ task'[c].closes = task[c].closes
  PROVE  AbandonInv'
<1> SUFFICES ASSUME NEW w \in Worker, NEW c \in Caller, c \in worker'[w].unfinished
             PROVE  worker'[w].owner # "none" /\ task'[c].closes = w
                    /\ task'[c].at \in {"close", "closing"}
  BY DEF AbandonInv, Abandons, Alive
<1>1. c \in worker[w].unfinished /\ worker'[w].owner # "none"
  BY DEF AbandonInv, Abandons, Alive
<1>2. task[c].closes = w /\ task[c].at \in {"close", "closing"}
  BY <1>1 DEF AbandonInv, Abandons
<1> QED
  BY <1>1, <1>2

\* A caller that is not closing a worker has abandoned no call.
LEMMA OnlyClosersAbandon ==
  ASSUME AbandonInv, NEW c \in Caller, task[c].at \notin {"close", "closing"}
  PROVE  \A w \in Worker : c \notin worker[w].unfinished
  BY DEF AbandonInv, Abandons

LEMMA DiscardStep ==
  ASSUME Typed, AbandonInv, NEW c \in Caller, Discard(c),
         task[c].at \in {"queued", "starting", "calling"}
  PROVE  Typed' /\ AbandonInv'
<1> DEFINE w == task[c].uses
           closer == [at |-> "close", uses |-> NoWorker, closes |-> w]
<1>1. c \in Task /\ closer \in TaskRecord
  BY DEF Task, TaskRecord, Typed
<1>2. /\ task' \in [Task -> TaskRecord] /\ task'[c] = closer
      /\ \A u \in Task \ {c} : task'[u] = task[u]
  BY <1>1, TaskChange DEF Discard
<1>3. pool' \in [Project -> [worker : Worker, version : Version] \cup {Vacant}]
  BY DEF Discard, Typed
<1>4. /\ worker' \in [Worker -> WorkerRecord]
      /\ \A x \in Worker :
           /\ worker'[x].owner = worker[x].owner
           /\ \/ worker'[x].unfinished = worker[x].unfinished
              \/ /\ x = w /\ worker[x].owner = "ready"
                 /\ worker'[x].unfinished = worker[x].unfinished \cup {c}
  <2>1. CASE worker' = worker
    BY <2>1 DEF Typed
  <2>2. CASE /\ worker[w].owner = "ready"
             /\ worker' = [worker EXCEPT ![w].unfinished = @ \cup {c}]
    BY <2>2 DEF Typed, WorkerRecord
  <2> QED
    BY <2>1, <2>2 DEF Discard
<1>5. \A x \in Worker : c \notin worker[x].unfinished
  BY OnlyClosersAbandon
<1>6. ASSUME NEW x \in Worker, NEW d \in Caller, d \in worker'[x].unfinished
      PROVE  worker'[x].owner # "none" /\ task'[d].closes = x
             /\ task'[d].at \in {"close", "closing"}
  <2>1. CASE d = c
    BY <1>2, <1>4, <1>5, <1>6, <2>1
  <2>2. CASE d # c
    <3>1. d \in worker[x].unfinished
      BY <1>4, <1>6, <2>2
    <3>2. task'[d] = task[d]
      BY <1>2, <2>2 DEF Task
    <3> QED
      BY <1>4, <3>1, <3>2 DEF AbandonInv, Abandons, Alive
  <2> QED
    BY <2>1, <2>2
<1> QED
  BY <1>2, <1>3, <1>4, <1>6 DEF Typed, AbandonInv, Abandons, Alive

LEMMA TaskTypes ==
  ASSUME Typed, NEW t \in Task
  PROVE  /\ task[t] \in TaskRecord
         /\ task[t].at \in {"idle", "queued", "starting", "calling", "close", "closing"}
         /\ task[t].uses \in Worker \cup {NoWorker} /\ task[t].closes \in Worker \cup {NoWorker}
  BY DEF Typed, TaskRecord

\* A task's record changes and no worker's.
LEMMA TaskAlone ==
  ASSUME Typed, AbandonInv, UNCHANGED <<pool, worker>>, NEW t \in Task, NEW r \in TaskRecord,
         task' = [task EXCEPT ![t] = r],
         \/ t \in Project
         \/ \A w \in Worker : t \notin worker[w].unfinished
         \/ task[t].at = "close" /\ r.at = "closing" /\ r.closes = task[t].closes
  PROVE  Typed' /\ AbandonInv'
<1>1. task' \in [Task -> TaskRecord] /\ task'[t] = r /\ \A u \in Task \ {t} : task'[u] = task[u]
  BY TaskChange
<1>2. AbandonInv'
  BY <1>1, NothingAbandoned DEF Task
<1> QED
  BY <1>1, <1>2 DEF Typed

\* What the steps of a worker's life do: its owner and its flag change, a child that ends
\* abandons all it was doing.
LEMMA WorkerAlone ==
  ASSUME Typed, AbandonInv, UNCHANGED <<pool, task>>, NEW w \in Worker, NEW r \in WorkerRecord,
         worker' = [worker EXCEPT ![w] = r],
         \/ r.unfinished = {}
         \/ /\ r.unfinished = worker[w].unfinished
            /\ r.owner = "none" => worker[w].owner = "none"
  PROVE  Typed' /\ AbandonInv'
<1>1. /\ worker' \in [Worker -> WorkerRecord] /\ worker'[w] = r
      /\ \A x \in Worker \ {w} : worker'[x] = worker[x]
  BY WorkerChange
<1>2. AbandonInv'
  BY <1>1, NothingAbandoned
<1> QED
  BY <1>1, <1>2 DEF Typed

LEMMA OwnerSteps ==
  ASSUME Typed, AbandonInv, NEW w \in Worker, OwnerStep(w) \/ Breaks(w)
  PROVE  Typed' /\ AbandonInv'
<1>1. worker[w] \in WorkerRecord
  BY DEF Typed
<1>2. CASE OwnerReady(w)
  <2>1. [worker[w] EXCEPT !.owner = "ready"] \in WorkerRecord
    BY <1>1 DEF WorkerRecord
  <2>2. worker' = [worker EXCEPT ![w] = [worker[w] EXCEPT !.owner = "ready"]]
    BY <1>1, <1>2 DEF OwnerReady, Typed, WorkerRecord
  <2> DEFINE r == [worker[w] EXCEPT !.owner = "ready"]
  <2>3. r.unfinished = worker[w].unfinished /\ r.owner # "none"
    BY <1>1 DEF WorkerRecord
  <2> HIDE DEF r
  <2> QED
    BY <1>2, <2>1, <2>2, <2>3, WorkerAlone DEF OwnerReady, r
<1>3. CASE OwnerEnds(w)
  <2> DEFINE r == [worker[w] EXCEPT !.owner = "none", !.unfinished = {}]
  <2>1. r \in WorkerRecord /\ r.unfinished = {}
    BY <1>1 DEF WorkerRecord
  <2>2. worker' = [worker EXCEPT ![w] = r]
    BY <1>1, <1>3 DEF OwnerEnds, Typed, WorkerRecord
  <2> HIDE DEF r
  <2> QED
    BY <1>3, <2>1, <2>2, WorkerAlone DEF OwnerEnds
<1> QED
  BY <1>2, <1>3 DEF OwnerStep, StartupFails, ShutsDown, Breaks

\* Getting a worker, calling it, giving it back.
LEMMA CallSteps ==
  ASSUME Typed, AbandonInv, NEW c \in Caller,
         \/ \E s \in ProjectSpec : GetsWorker(c, s) \/ NewsWorker(c, s)
         \/ TakesLock(c) \/ StartupAnswers(c) \/ CallReturns(c)
  PROVE  Typed' /\ AbandonInv'
<1>0. c \in Task /\ task[c] \in TaskRecord
  BY TaskTypes DEF Task
<1>1. ASSUME NEW s \in ProjectSpec, GetsWorker(c, s) PROVE Typed' /\ AbandonInv'
  <2> DEFINE w == pool[s.project].worker
             r == [at |-> "queued", uses |-> w, closes |-> NoWorker]
  <2>1. w \in Worker
    BY <1>1, PooledType DEF GetsWorker, ProjectSpec
  <2>2. r \in TaskRecord
    BY <2>1 DEF TaskRecord
  <2>3. \A x \in Worker : c \notin worker[x].unfinished
    BY <1>1, OnlyClosersAbandon DEF GetsWorker, At
  <2>4. UNCHANGED <<pool, worker>> /\ task' = [task EXCEPT ![c] = r]
    BY <1>1 DEF GetsWorker
  <2> HIDE DEF r
  <2> QED
    BY <1>0, <2>2, <2>3, <2>4, TaskAlone
<1>2. ASSUME NEW s \in ProjectSpec, NewsWorker(c, s) PROVE Typed' /\ AbandonInv'
  <2> DEFINE stale == pool[s.project].worker
             r == [at |-> IF stale = NoWorker THEN "queued" ELSE "close",
                   uses |-> Fresh, closes |-> stale]
  <2>1. s.project \in Project /\ s.version \in Version
    BY DEF ProjectSpec
  <2>2. Fresh \in Worker
    BY <1>2, FreshType DEF NewsWorker
  <2>3. r \in TaskRecord
    BY <2>1, <2>2, PooledType DEF TaskRecord
  <2>4. /\ task' = [task EXCEPT ![c] = r]
        /\ worker' = [worker EXCEPT ![Fresh] = NewWorker(s.project)]
        /\ pool' = [pool EXCEPT ![s.project] = [worker |-> Fresh, version |-> s.version]]
    BY <1>2 DEF NewsWorker
  <2> HIDE DEF r
  <2>5. /\ worker' \in [Worker -> WorkerRecord] /\ worker'[Fresh] = NewWorker(s.project)
        /\ \A x \in Worker \ {Fresh} : worker'[x] = worker[x]
    BY <2>1, <2>2, <2>4, NewWorkerType, WorkerChange
  <2>6. /\ task' \in [Task -> TaskRecord] /\ \A u \in Task \ {c} : task'[u] = task[u]
    BY <1>0, <2>3, <2>4, TaskChange
  <2>7. pool' \in [Project -> [worker : Worker, version : Version] \cup {Vacant}]
    BY <2>1, <2>2, <2>4 DEF Typed
  <2>8. \A x \in Worker : c \notin worker[x].unfinished
    BY <1>2, OnlyClosersAbandon DEF NewsWorker, At
  <2>9. NewWorker(s.project).unfinished = {}
    BY DEF NewWorker
  <2>10. AbandonInv'
    BY <2>5, <2>6, <2>8, <2>9, NothingAbandoned DEF Task
  <2> QED
    BY <2>5, <2>6, <2>7, <2>10 DEF Typed
<1>3. CASE TakesLock(c)
  <2> DEFINE w == task[c].uses
  <2>1. /\ worker' \in [Worker -> WorkerRecord]
        /\ \A x \in Worker : /\ worker'[x].unfinished = worker[x].unfinished
                             /\ worker'[x].owner = "none" => worker[x].owner = "none"
    <3>1. CASE worker' = worker
      BY <3>1 DEF Typed
    <3>2. CASE worker' = [worker EXCEPT ![w].owner = "starting", ![w].shutdown = FALSE]
      BY <3>2, FlagsChange
    <3> QED
      BY <1>3, <3>1, <3>2 DEF TakesLock
  <2>2. /\ task' \in [Task -> TaskRecord] /\ \A u \in Task \ {c} : task'[u] = task[u]
    BY <1>0, <1>3 DEF TakesLock, Typed, TaskRecord
  <2>3. \A x \in Worker : c \notin worker[x].unfinished
    BY <1>3, OnlyClosersAbandon DEF TakesLock, At
  <2>4. AbandonInv'
    BY <2>1, <2>2, <2>3, NothingAbandoned DEF Task
  <2> QED
    BY <1>3, <2>1, <2>2, <2>4 DEF Typed, TakesLock
<1>4. CASE StartupAnswers(c) \/ CallReturns(c)
  <2> DEFINE r == IF StartupAnswers(c) THEN [task[c] EXCEPT !.at = "calling"] ELSE Idle
  <2>1. r \in TaskRecord
    BY <1>0, IdleType DEF TaskRecord
  <2>2. UNCHANGED <<pool, worker>> /\ task' = [task EXCEPT ![c] = r]
    BY <1>0, <1>4 DEF StartupAnswers, CallReturns, Typed, TaskRecord
  <2>3. \A x \in Worker : c \notin worker[x].unfinished
    BY <1>4, OnlyClosersAbandon DEF StartupAnswers, CallReturns, At
  <2> HIDE DEF r
  <2> QED
    BY <1>0, <2>1, <2>2, <2>3, TaskAlone
<1> QED
  BY <1>1, <1>2, <1>3, <1>4

\* Closing a worker, cancelled or not.
LEMMA CloseSteps ==
  ASSUME Typed, AbandonInv, NEW t \in Task,
         BeginsClosing(t) \/ Closes(t) \/ (t \in Caller /\ CancelClose(t))
  PROVE  Typed' /\ AbandonInv'
<1> DEFINE w == task[t].closes
<1>0. task[t] \in TaskRecord
  BY TaskTypes
<1>1. CASE BeginsClosing(t)
  <2>1. /\ worker' \in [Worker -> WorkerRecord]
        /\ \A x \in Worker : /\ worker'[x].unfinished = worker[x].unfinished
                             /\ worker'[x].owner = worker[x].owner
    <3>1. worker' = [worker EXCEPT ![w].shutdown = Alive(w)] /\ Alive(w) \in BOOLEAN
      BY <1>1 DEF BeginsClosing, Alive
    <3> QED
      BY <3>1, FlagChange
  <2>2. /\ task' \in [Task -> TaskRecord] /\ \A u \in Task \ {t} : task'[u] = task[u]
        /\ task[t].at = "close" /\ task'[t].at = "closing" /\ task'[t].closes = task[t].closes
    BY <1>0, <1>1 DEF BeginsClosing, At, Typed, TaskRecord
  <2>3. AbandonInv'
    BY <2>1, <2>2, NothingAbandoned DEF Task
  <2> QED
    BY <1>1, <2>1, <2>2, <2>3 DEF Typed, BeginsClosing
<1>2. CASE Closes(t)
  <2>1. /\ worker' \in [Worker -> WorkerRecord]
        /\ \A x \in Worker : /\ worker'[x].unfinished = worker[x].unfinished
                             /\ worker'[x].owner = worker[x].owner
    <3>1. worker' = [worker EXCEPT ![w].shutdown = FALSE]
      BY <1>2 DEF Closes
    <3> QED
      BY <3>1, FlagChange
  <2>2. /\ task' \in [Task -> TaskRecord] /\ \A u \in Task \ {t} : task'[u] = task[u]
    <3>1. CASE task' = [task EXCEPT ![t] = Idle]
      BY <3>1, IdleType, TaskChange
    <3>2. CASE task' = [task EXCEPT ![t].at = "queued", ![t].closes = NoWorker]
      BY <3>2 DEF Typed, TaskRecord
    <3> QED
      BY <1>2, <3>1, <3>2 DEF Closes
  <2>3. ASSUME t \in Caller PROVE \A x \in Worker : t \notin worker[x].unfinished
    BY <1>2, <2>3 DEF Closes, AbandonInv, Abandons
  <2>4. AbandonInv'
    BY <2>1, <2>2, <2>3, NothingAbandoned DEF Task
  <2> QED
    BY <1>2, <2>1, <2>2, <2>4 DEF Typed, Closes
<1>3. CASE t \in Caller /\ CancelClose(t)
  <2> DEFINE v == [worker[w] EXCEPT !.unfinished = @ \ {t}]
  <2>1. /\ task' = [task EXCEPT ![t] = Idle] /\ UNCHANGED pool
        /\ worker' = [worker EXCEPT ![w].unfinished = @ \ {t}]
    BY <1>3 DEF CancelClose
  <2>2. /\ task' \in [Task -> TaskRecord] /\ \A u \in Task \ {t} : task'[u] = task[u]
    BY <2>1, IdleType, TaskChange
  <2>3. /\ worker' \in [Worker -> WorkerRecord]
        /\ \A x \in Worker : /\ worker'[x].owner = worker[x].owner
                             /\ worker'[x].unfinished \subseteq worker[x].unfinished
                             /\ x = w => t \notin worker'[x].unfinished
    <3>1. CASE w \in Worker
      <4>1. v \in WorkerRecord /\ v.owner = worker[w].owner
            /\ v.unfinished = worker[w].unfinished \ {t}
        BY <3>1 DEF Typed, WorkerRecord
      <4>2. worker' = [worker EXCEPT ![w] = v]
        BY <2>1, <3>1 DEF Typed, WorkerRecord
      <4> HIDE DEF v, w
      <4> QED
        BY <3>1, <4>1, <4>2, WorkerChange
    <3>2. CASE w \notin Worker
      BY <2>1, <3>2 DEF Typed
    <3> QED
      BY <3>1, <3>2
  <2>4. ASSUME NEW x \in Worker, NEW d \in Caller, d \in worker'[x].unfinished
        PROVE  worker'[x].owner # "none" /\ task'[d].closes = x
               /\ task'[d].at \in {"close", "closing"}
    <3>1. d \in worker[x].unfinished
      BY <2>3, <2>4
    <3>2. worker[x].owner # "none" /\ task[d].closes = x /\ task[d].at \in {"close", "closing"}
      BY <3>1 DEF AbandonInv, Abandons, Alive
    <3>3. d # t
      BY <2>3, <2>4, <3>2
    <3> QED
      BY <2>2, <2>3, <3>2, <3>3 DEF Task
  <2> QED
    BY <2>1, <2>2, <2>3, <2>4 DEF Typed, AbandonInv, Abandons, Alive
<1> QED
  BY <1>1, <1>2, <1>3

LEMMA ManagerStep ==
  ASSUME Typed, AbandonInv, ManagerCloses PROVE Typed' /\ AbandonInv'
<1>1. pool' \in [Project -> [worker : Worker, version : Version] \cup {Vacant}]
  BY DEF ManagerCloses, Typed
<1>2. ASSUME NEW p \in Project, pool[p] # Vacant
      PROVE  [at |-> "close", uses |-> NoWorker, closes |-> pool[p].worker] \in TaskRecord
  BY <1>2 DEF Typed, TaskRecord
<1>3. /\ task' \in [Task -> TaskRecord]
      /\ \A u \in Caller : task'[u] = task[u]
  BY <1>2, TaskTypes DEF ManagerCloses, Task
<1>4. worker' = worker
  BY DEF ManagerCloses
<1>5. AbandonInv'
  BY <1>3, <1>4, NothingAbandoned
<1> QED
  BY <1>1, <1>3, <1>4, <1>5 DEF Typed

LEMMA PoolStep ==
  ASSUME Typed, AbandonInv, [PoolNext]_poolVars
  PROVE  Typed' /\ AbandonInv'
<1>1. ASSUME NEW c \in Caller, StartupFailed(c) \/ CallFails(c) \/ Cancelled(c)
      PROVE  Typed' /\ AbandonInv'
  BY <1>1, DiscardStep DEF StartupFailed, CallFails, Cancelled, At
<1>2. ASSUME NEW c \in Caller, \/ \E s \in ProjectSpec : GetsWorker(c, s) \/ NewsWorker(c, s)
                               \/ CallerStep(c)
      PROVE  Typed' /\ AbandonInv'
  BY <1>1, <1>2, CallSteps DEF CallerStep
<1>3. ASSUME NEW t \in Task, TaskStep(t) PROVE Typed' /\ AbandonInv'
  BY <1>2, <1>3, CloseSteps DEF TaskStep
<1>4. ASSUME NEW c \in Caller, CancelClose(c) PROVE Typed' /\ AbandonInv'
  BY <1>4, CloseSteps DEF Task
<1>5. CASE UNCHANGED poolVars
  BY <1>5, NothingAbandoned DEF poolVars, Typed
<1> QED
  BY <1>1, <1>2, <1>3, <1>4, <1>5, OwnerSteps, ManagerStep DEF PoolNext

LEMMA PoolStarts == PoolInit => Typed /\ AbandonInv
<1> SUFFICES ASSUME PoolInit PROVE Typed /\ AbandonInv
  OBVIOUS
<1>1. (CHOOSE p \in Project : TRUE) \in Project
  OBVIOUS
<1>2. \A w \in Worker : worker[w] = NewWorker(CHOOSE p \in Project : TRUE)
  BY DEF PoolInit
<1>3. Typed
  BY <1>1, NewWorkerType, IdleType DEF PoolInit, Typed
<1>4. \A p : NewWorker(p).unfinished = {}
  BY DEF NewWorker
<1>5. \A w \in Worker : worker[w].unfinished = {}
  BY <1>2, <1>4
<1> QED
  BY <1>3, <1>5 DEF AbandonInv, Abandons

LEMMA IdleHasAbandonedNothing == AbandonInv => AnsweredMeansOver
  BY DEF AbandonInv, Abandons, AnsweredMeansOver, At

\* However many requests share, lose and discard workers: when one is answered, after a failure,
\* a timeout or a cancellation, its child does not work on its call any more (WorkerManager.call
\* awaits _discard).  A request that is cancelled again in the queue to close the child is not
\* answered: it has left its call behind (CancelClose).
THEOREM NoAnswerBeforeTheEnd == PoolSpec => []AnsweredMeansOver
<1>1. Typed /\ AbandonInv /\ [PoolNext]_poolVars => (Typed /\ AbandonInv)'
  BY PoolStep
<1> QED
  BY <1>1, PoolStarts, IdleHasAbandonedNothing, PTL DEF PoolSpec
-----------------------------------------------------------------------------
(***************************************************************************)
(* The queue of a lock: who is in it, each once, the closing tasks last.   *)
(***************************************************************************)
Member(q, t) == \E i \in 1 .. Len(q) : q[i] = t
Unique(q) == \A i, j \in 1 .. Len(q) : q[i] = q[j] => i = j
Ordered(q, C) == \A i, j \in 1 .. Len(q) : i < j /\ q[i] \in C => q[j] \in C

\* Who joins a queue is its last.
LEMMA JoinQueue ==
  ASSUME NEW S, NEW q \in Seq(S), NEW t \in S, Unique(q), ~Member(q, t)
  PROVE  /\ Append(q, t) \in Seq(S) /\ Append(q, t) # <<>> /\ Unique(Append(q, t))
         /\ \A u : Member(Append(q, t), u) <=> Member(q, u) \/ u = t
         /\ Head(Append(q, t)) = IF q = <<>> THEN t ELSE Head(q)
         /\ \A C : Ordered(q, C) /\ (t \in C \/ \A u \in C : ~Member(q, u)) => Ordered(Append(q, t), C)
<1> DEFINE r == Append(q, t)
<1>1. /\ r \in Seq(S) /\ r # <<>> /\ Len(r) = Len(q) + 1 /\ Len(q) \in Nat
      /\ \A i \in 1 .. Len(q) : r[i] = q[i]
      /\ r[Len(q) + 1] = t
  BY AppendProperties, LenProperties
<1>2. Head(r) = IF q = <<>> THEN t ELSE Head(q)
  BY HeadTailAppend
<1> HIDE DEF r
<1>3. Unique(r)
  BY <1>1 DEF Unique, Member
<1>4. \A u : Member(r, u) <=> Member(q, u) \/ u = t
  BY <1>1 DEF Member
<1>5. ASSUME NEW C, Ordered(q, C), t \in C \/ \A u \in C : ~Member(q, u)
      PROVE  Ordered(r, C)
  BY <1>1, <1>5 DEF Ordered, Member
<1> QED
  BY <1>1, <1>2, <1>3, <1>4, <1>5 DEF r

\* Who holds the lock leaves the queue.
LEMMA PopQueue ==
  ASSUME NEW S, NEW q \in Seq(S), Unique(q), q # <<>>
  PROVE  /\ Tail(q) \in Seq(S) /\ Unique(Tail(q))
         /\ \A u : Member(Tail(q), u) <=> Member(q, u) /\ u # Head(q)
         /\ \A C : Ordered(q, C) => Ordered(Tail(q), C)
<1> DEFINE r == Tail(q)
<1>1. /\ r \in Seq(S) /\ Len(r) = Len(q) - 1 /\ Len(q) \in Nat \ {0} /\ Head(q) = q[1]
      /\ \A i \in 1 .. Len(r) : r[i] = q[i + 1]
  BY HeadTailProperties, LenProperties, EmptySeq
<1> HIDE DEF r
<1>2. Unique(r)
  BY <1>1 DEF Unique
<1>3. ASSUME NEW u PROVE Member(r, u) <=> Member(q, u) /\ u # Head(q)
  <2>1. Member(r, u) => Member(q, u) /\ u # Head(q)
    BY <1>1 DEF Member, Unique
  <2>2. ASSUME Member(q, u), u # Head(q) PROVE Member(r, u)
    <3>1. PICK i \in 1 .. Len(q) : q[i] = u
      BY <2>2 DEF Member
    <3>2. i - 1 \in 1 .. Len(r) /\ r[i - 1] = u
      BY <1>1, <2>2, <3>1
    <3> QED
      BY <3>2 DEF Member
  <2> QED
    BY <2>1, <2>2
<1>4. ASSUME NEW C, Ordered(q, C) PROVE Ordered(r, C)
  BY <1>1, <1>4 DEF Ordered
<1> QED
  BY <1>1, <1>2, <1>3, <1>4 DEF r

\* Who gives up leaves the queue, wherever it stands.
LEMMA LeaveQueue ==
  ASSUME NEW S, NEW q \in Seq(S), NEW t, Unique(q), Member(q, t)
  PROVE  /\ RemoveFirst(q, t) \in Seq(S) /\ Unique(RemoveFirst(q, t))
         /\ \A u : Member(RemoveFirst(q, t), u) <=> Member(q, u) /\ u # t
         /\ Head(q) # t => RemoveFirst(q, t) # <<>> /\ Head(RemoveFirst(q, t)) = Head(q)
         /\ \A C : Ordered(q, C) => Ordered(RemoveFirst(q, t), C)
<1>1. PICK k \in 1 .. Len(q) : q[k] = t
  BY DEF Member
<1> DEFINE r == RemoveFirst(q, t)
           left == SubSeq(q, 1, k - 1)
           right == SubSeq(q, k + 1, Len(q))
<1>2. SelectInSeq(q, LAMBDA v : v = t) = k
  BY <1>1 DEF SelectInSeq, Min, Unique
<1>3. r = left \o right
  BY <1>1, <1>2 DEF RemoveFirst, RemoveAt
<1>4. Len(q) \in Nat /\ \A i \in 1 .. Len(q) : q[i] \in S
  BY LenProperties, ElementOfSeq
<1>5. /\ left \in Seq(S) /\ Len(left) = k - 1
      /\ \A i \in 1 .. k - 1 : left[i] = q[i]
  <2>1. \A i \in 1 .. k - 1 : q[i] \in S
    BY <1>4
  <2> QED
    BY <1>4, <2>1, SubSeqProperties
<1>6. /\ right \in Seq(S) /\ Len(right) = Len(q) - k
      /\ \A i \in 1 .. Len(q) - k : right[i] = q[k + i]
  <2>1. \A i \in k + 1 .. Len(q) : q[i] \in S
    BY <1>4
  <2> QED
    BY <1>4, <2>1, SubSeqProperties
<1> HIDE DEF left, right
<1>7. /\ r \in Seq(S) /\ Len(r) = Len(q) - 1
      /\ \A i \in 1 .. Len(q) - 1 : r[i] = IF i < k THEN q[i] ELSE q[i + 1]
  <2> HIDE DEF r
  <2>1. left \in Seq(S) /\ right \in Seq(S)
    BY <1>5, <1>6
  <2>2. /\ left \o right \in Seq(S) /\ Len(left \o right) = Len(left) + Len(right)
        /\ \A i \in 1 .. Len(left) + Len(right) :
             (left \o right)[i] = IF i <= Len(left) THEN left[i] ELSE right[i - Len(left)]
    BY <2>1, ConcatProperties
  <2>3. Len(left) + Len(right) = Len(q) - 1
    BY <1>4, <1>5, <1>6
  <2>4. ASSUME NEW i \in 1 .. Len(q) - 1 PROVE r[i] = IF i < k THEN q[i] ELSE q[i + 1]
    <3>1. r[i] = IF i <= k - 1 THEN left[i] ELSE right[i - (k - 1)]
      BY <1>3, <1>5, <2>2, <2>3
    <3>2. CASE i < k
      BY <1>4, <1>5, <3>1, <3>2
    <3>3. CASE ~(i < k)
      <4>1. i - (k - 1) \in 1 .. Len(q) - k /\ k + (i - (k - 1)) = i + 1
        BY <1>4, <3>3
      <4> QED
        BY <1>6, <3>1, <3>3, <4>1
    <3> QED
      BY <3>2, <3>3
  <2> QED
    BY <1>3, <2>2, <2>3, <2>4
<1> HIDE DEF r
<1>8. Unique(r)
  BY <1>4, <1>7 DEF Unique
<1>9. ASSUME NEW u PROVE Member(r, u) <=> Member(q, u) /\ u # t
  <2>1. Member(r, u) => Member(q, u) /\ u # t
    BY <1>1, <1>4, <1>7 DEF Member, Unique
  <2>2. ASSUME Member(q, u), u # t PROVE Member(r, u)
    <3>1. PICK i \in 1 .. Len(q) : q[i] = u
      BY <2>2 DEF Member
    <3>2. i # k
      BY <1>1, <2>2, <3>1
    <3>3. CASE i < k
      BY <1>4, <1>7, <3>1, <3>3 DEF Member
    <3>4. CASE i > k
      <4>1. i - 1 \in 1 .. Len(r) /\ r[i - 1] = u
        BY <1>4, <1>7, <3>1, <3>4
      <4> QED
        BY <4>1 DEF Member
    <3> QED
      BY <3>2, <3>3, <3>4
  <2> QED
    BY <2>1, <2>2
<1>10. ASSUME Head(q) # t PROVE r # <<>> /\ Head(r) = Head(q)
  <2>1. q # <<>> /\ Head(q) = q[1] /\ k > 1
    BY <1>1, <1>4, <1>10
  <2>2. Len(r) > 0 /\ r[1] = q[1]
    BY <1>4, <1>7, <2>1
  <2> QED
    BY <1>7, <2>1, <2>2
<1>11. ASSUME NEW C, Ordered(q, C) PROVE Ordered(r, C)
  <2> SUFFICES ASSUME NEW i \in 1 .. Len(r), NEW j \in 1 .. Len(r), i < j, r[i] \in C
               PROVE  r[j] \in C
    BY DEF Ordered
  <2> DEFINE m == IF i < k THEN i ELSE i + 1
             n == IF j < k THEN j ELSE j + 1
  <2>1. m \in 1 .. Len(q) /\ n \in 1 .. Len(q) /\ m < n
    BY <1>4, <1>7
  <2>2. r[i] = q[m] /\ r[j] = q[n]
    BY <1>4, <1>7
  <2> HIDE DEF m, n
  <2> QED
    BY <1>11, <2>1, <2>2 DEF Ordered
<1> QED
  BY <1>7, <1>8, <1>9, <1>10, <1>11 DEF r
-----------------------------------------------------------------------------
(***************************************************************************)
(* The type invariant, and who is in which queue.                          *)
(***************************************************************************)
\* The worker whose lock a task holds or awaits: it closes a worker before it uses one.
Lock(r) == IF r.closes # NoWorker THEN r.closes ELSE r.uses

Held == {"starting", "calling", "closing"}

\* Where a task is tells which workers it has.
Shape(r) ==
  /\ r.at = "idle" => r.uses = NoWorker /\ r.closes = NoWorker
  /\ r.at \in {"queued", "starting", "calling"} => r.uses \in Worker /\ r.closes = NoWorker
  /\ r.at \in {"close", "closing"} => r.closes \in Worker
Shapes == \A t \in Task : Shape(task[t])

\* A task is in the queue of its lock and in no other, and works only as its head.
Queues ==
  /\ queue \in [Worker -> Seq(Task)]
  /\ \A w \in Worker :
       /\ Unique(queue[w])
       /\ \A t \in Task : /\ Member(queue[w], t) <=> Lock(task[t]) = w
                          /\ task[t].at \in Held /\ Lock(task[t]) = w => Holds(t, w)

\* A worker of the pool is there for the project that names it.
Names == \A p \in Project : pool[p].worker # NoWorker => worker[pool[p].worker].project = p

\* Shutdown tasks begin with the closing of the manager, and the pool ends with it.
Ending == /\ closed \in BOOLEAN
          /\ ~closed => \A p \in Project : task[p] = Idle
          /\ closed => \A p \in Project : pool[p] = Vacant

PoolInv == Typed /\ Shapes /\ Queues /\ Names /\ Ending

LEMMA HeldTypes ==
  ASSUME PoolInv, NEW t \in Task
  PROVE  /\ Shape(task[t]) /\ Lock(task[t]) \in Worker \cup {NoWorker}
         /\ \A w \in Worker : /\ queue[w] \in Seq(Task) /\ Unique(queue[w])
                              /\ Member(queue[w], t) <=> Lock(task[t]) = w
  BY TaskTypes DEF PoolInv, Shapes, Queues, Lock

LEMMA InvImpliesTypeOK == PoolInv /\ deserted \subseteq Worker => PoolTypeOK
<1> SUFFICES ASSUME PoolInv, deserted \subseteq Worker PROVE PoolTypeOK
  OBVIOUS
<1>1. ASSUME NEW t \in Task
      PROVE  /\ task[t].at \in {"starting", "calling"} => Holds(t, task[t].uses)
             /\ At(t, "closing") => Holds(t, task[t].closes)
  BY <1>1, HeldTypes DEF PoolInv, Queues, Shape, Lock, Held, At
<1> QED
  BY <1>1 DEF PoolInv, Typed, Queues, Ending, PoolTypeOK, TaskRecord, WorkerRecord

\* One task moves: it changes its record and its place in the queues.
LEMMA TaskMoves ==
  ASSUME PoolInv, NEW t \in Task, NEW r \in TaskRecord, Shape(r), task' = [task EXCEPT ![t] = r],
         queue' \in [Worker -> Seq(Task)],
         \A x \in Worker :
           /\ Unique(queue'[x])
           /\ \A u \in Task \ {t} : Member(queue'[x], u) <=> Member(queue[x], u)
           /\ Member(queue'[x], t) <=> Lock(r) = x
           /\ \A u \in Task \ {t} : Holds(u, x) => Holds(u, x)'
           /\ r.at \in Held /\ Lock(r) = x => Holds(t, x)'
  PROVE  Shapes' /\ Queues'
<1>1. task'[t] = r /\ \A u \in Task \ {t} : task'[u] = task[u]
  BY TaskChange DEF PoolInv
<1>2. Shapes'
  BY <1>1 DEF PoolInv, Shapes
<1>3. ASSUME NEW x \in Worker, NEW u \in Task
      PROVE  /\ Member(queue'[x], u) <=> Lock(task'[u]) = x
             /\ task'[u].at \in Held /\ Lock(task'[u]) = x => Holds(u, x)'
  <2>1. CASE u = t
    BY <1>1, <2>1
  <2>2. CASE u # t
    <3>1. Member(queue[x], u) <=> Lock(task[u]) = x
      BY DEF PoolInv, Queues
    <3>2. task[u].at \in Held /\ Lock(task[u]) = x => Holds(u, x)
      BY DEF PoolInv, Queues
    <3>3. task'[u] = task[u] /\ (Member(queue'[x], u) <=> Member(queue[x], u))
          /\ (Holds(u, x) => Holds(u, x)')
      BY <1>1, <2>2
    <3> QED
      BY <3>1, <3>2, <3>3
  <2> QED
    BY <2>1, <2>2
<1> QED
  BY <1>2, <1>3 DEF Queues

\* A task goes on and stays in its queue.
LEMMA StaysQueued ==
  ASSUME PoolInv, NEW t \in Task, NEW r \in TaskRecord, Shape(r), task' = [task EXCEPT ![t] = r],
         UNCHANGED queue, Lock(r) = Lock(task[t]), r.at \in Held => Holds(t, Lock(r))
  PROVE  Shapes' /\ Queues'
<1>1. \A u, x : Holds(u, x) => Holds(u, x)'
  BY DEF Holds
<1>2. queue' \in [Worker -> Seq(Task)] /\ \A x \in Worker : Unique(queue'[x])
  BY DEF PoolInv, Queues
<1>3. \A x \in Worker : Member(queue'[x], t) <=> Lock(r) = x
  BY HeldTypes
<1> QED
  BY <1>1, <1>2, <1>3, TaskMoves

\* A task joins or leaves one queue, or moves in it.
LEMMA OneQueue ==
  ASSUME PoolInv, NEW t \in Task, NEW r \in TaskRecord, Shape(r), task' = [task EXCEPT ![t] = r],
         NEW w \in Worker, NEW q \in Seq(Task), queue' = [queue EXCEPT ![w] = q],
         Unique(q), \A u \in Task \ {t} : Member(q, u) <=> Member(queue[w], u),
         Member(q, t) <=> Lock(r) = w,
         {Lock(task[t]), Lock(r)} \subseteq {w, NoWorker}, r.at \notin Held,
         \A u \in Task \ {t} : Holds(u, w) => q # <<>> /\ Head(q) = u
  PROVE  Shapes' /\ Queues'
<1>1. queue' \in [Worker -> Seq(Task)] /\ queue'[w] = q /\ \A x \in Worker \ {w} : queue'[x] = queue[x]
  BY DEF PoolInv, Queues
<1>2. ASSUME NEW x \in Worker
      PROVE  /\ Unique(queue'[x])
             /\ \A u \in Task \ {t} : Member(queue'[x], u) <=> Member(queue[x], u)
             /\ Member(queue'[x], t) <=> Lock(r) = x
             /\ \A u \in Task \ {t} : Holds(u, x) => Holds(u, x)'
  <2>1. CASE x = w
    BY <1>1, <2>1 DEF Holds
  <2>2. CASE x # w
    <3>1. queue'[x] = queue[x] /\ Unique(queue[x]) /\ Lock(r) # x
      BY <1>1, <2>2 DEF PoolInv, Queues
    <3>2. ~Member(queue[x], t)
      BY <2>2, HeldTypes
    <3> QED
      BY <3>1, <3>2 DEF Holds
  <2> QED
    BY <2>1, <2>2
<1> QED
  BY <1>1, <1>2, TaskMoves

LEMMA JoinsQueue ==
  ASSUME PoolInv, NEW t \in Task, NEW r \in TaskRecord, Shape(r), task' = [task EXCEPT ![t] = r],
         NEW w \in Worker, queue' = [queue EXCEPT ![w] = Append(@, t)],
         Lock(task[t]) = NoWorker, Lock(r) = w, r.at \notin Held
  PROVE  Shapes' /\ Queues'
<1> DEFINE q == Append(queue[w], t)
<1>1. /\ queue[w] \in Seq(Task) /\ Unique(queue[w]) /\ ~Member(queue[w], t)
      /\ queue' = [queue EXCEPT ![w] = q]
  BY HeldTypes DEF PoolInv, Queues
<1>2. /\ q \in Seq(Task) /\ q # <<>> /\ Unique(q) /\ \A u : Member(q, u) <=> Member(queue[w], u) \/ u = t
      /\ Head(q) = IF queue[w] = <<>> THEN t ELSE Head(queue[w])
  BY <1>1, JoinQueue
<1> HIDE DEF q
<1>3. \A u \in Task \ {t} : Holds(u, w) => q # <<>> /\ Head(q) = u
  BY <1>2 DEF Holds
<1> QED
  BY <1>1, <1>2, <1>3, OneQueue

LEMMA LeavesQueue ==
  ASSUME PoolInv, NEW t \in Task, task' = [task EXCEPT ![t] = Idle], NEW w \in Worker,
         Lock(task[t]) = w,
         \/ queue' = [queue EXCEPT ![w] = RemoveFirst(@, t)]
         \/ Holds(t, w) /\ queue' = [queue EXCEPT ![w] = Tail(@)]
  PROVE  Shapes' /\ Queues'
<1>1. queue[w] \in Seq(Task) /\ Unique(queue[w]) /\ Member(queue[w], t)
  BY HeldTypes
<1>2. Idle \in TaskRecord /\ Shape(Idle) /\ Lock(Idle) = NoWorker /\ Idle.at \notin Held
  BY IdleType DEF Idle, Shape, Lock, Held
<1>3. CASE queue' = [queue EXCEPT ![w] = RemoveFirst(@, t)]
  <2> DEFINE q == RemoveFirst(queue[w], t)
  <2>1. queue' = [queue EXCEPT ![w] = q]
    BY <1>3 DEF PoolInv, Queues
  <2>2. /\ q \in Seq(Task) /\ Unique(q) /\ \A u : Member(q, u) <=> Member(queue[w], u) /\ u # t
        /\ Head(queue[w]) # t => q # <<>> /\ Head(q) = Head(queue[w])
    BY <1>1, LeaveQueue
  <2> HIDE DEF q
  <2>3. \A u \in Task \ {t} : Holds(u, w) => q # <<>> /\ Head(q) = u
    BY <2>2 DEF Holds
  <2> QED
    BY <1>2, <2>1, <2>2, <2>3, OneQueue
<1>4. CASE Holds(t, w) /\ queue' = [queue EXCEPT ![w] = Tail(@)]
  <2> DEFINE q == Tail(queue[w])
  <2>1. queue' = [queue EXCEPT ![w] = q]
    BY <1>4 DEF PoolInv, Queues
  <2>2. queue[w] # <<>> /\ Head(queue[w]) = t
    BY <1>4 DEF Holds
  <2>3. /\ q \in Seq(Task) /\ Unique(q) /\ \A u : Member(q, u) <=> Member(queue[w], u) /\ u # t
    BY <1>1, <2>2, PopQueue
  <2> HIDE DEF q
  <2>4. \A u \in Task \ {t} : ~Holds(u, w)
    BY <2>2 DEF Holds
  <2> QED
    BY <1>2, <2>1, <2>3, <2>4, OneQueue
<1> QED
  BY <1>3, <1>4

\* A task has closed a worker and queues for the one it will call.
LEMMA PassesOn ==
  ASSUME PoolInv, NEW t \in Task, NEW r \in TaskRecord, Shape(r), task' = [task EXCEPT ![t] = r],
         NEW w \in Worker, Lock(task[t]) = w, Holds(t, w),
         NEW n \in Worker, Lock(r) = n, r.at \notin Held,
         queue' = [[queue EXCEPT ![w] = Tail(@)] EXCEPT ![n] = Append(@, t)]
  PROVE  Shapes' /\ Queues'
<1> DEFINE left == [queue EXCEPT ![w] = Tail(@)]
<1>1. queue \in [Worker -> Seq(Task)] /\ queue[w] # <<>> /\ Head(queue[w]) = t
  BY DEF PoolInv, Queues, Holds
<1>2. \A x \in Worker : left[x] = IF x = w THEN Tail(queue[w]) ELSE queue[x]
  BY <1>1
<1>3. queue' = [left EXCEPT ![n] = Append(left[n], t)] /\ DOMAIN left = Worker
  BY <1>1
<1> HIDE DEF left
<1>4. ASSUME NEW x \in Worker
      PROVE  /\ left[x] \in Seq(Task) /\ Unique(left[x]) /\ ~Member(left[x], t)
             /\ \A u \in Task \ {t} : /\ Member(left[x], u) <=> Member(queue[x], u)
                                      /\ Holds(u, x) => left[x] # <<>> /\ Head(left[x]) = u
  <2>1. queue[x] \in Seq(Task) /\ Unique(queue[x]) /\ (Member(queue[x], t) <=> x = w)
    BY HeldTypes
  <2>2. CASE x = w
    <3>1. /\ Tail(queue[w]) \in Seq(Task) /\ Unique(Tail(queue[w]))
          /\ \A u : Member(Tail(queue[w]), u) <=> Member(queue[w], u) /\ u # t
      BY <1>1, <2>1, <2>2, PopQueue
    <3>2. \A u \in Task \ {t} : ~Holds(u, w)
      BY <1>1 DEF Holds
    <3> QED
      BY <1>2, <2>2, <3>1, <3>2
  <2>3. CASE x # w
    BY <1>2, <2>1, <2>3 DEF Holds
  <2> QED
    BY <2>2, <2>3
<1>5. ASSUME NEW x \in Worker
      PROVE  /\ queue'[x] \in Seq(Task) /\ Unique(queue'[x])
             /\ \A u \in Task \ {t} : Member(queue'[x], u) <=> Member(queue[x], u)
             /\ Member(queue'[x], t) <=> n = x
             /\ \A u \in Task \ {t} : Holds(u, x) => Holds(u, x)'
  <2>1. CASE x = n
    <3> DEFINE q == Append(left[n], t)
    <3>1. queue'[x] = q
      BY <1>3, <2>1
    <3>2. /\ q \in Seq(Task) /\ q # <<>> /\ Unique(q) /\ \A u : Member(q, u) <=> Member(left[n], u) \/ u = t
          /\ Head(q) = IF left[n] = <<>> THEN t ELSE Head(left[n])
      BY <1>4, JoinQueue
    <3> HIDE DEF q
    <3> QED
      BY <1>4, <2>1, <3>1, <3>2 DEF Holds
  <2>2. CASE x # n
    <3>1. queue'[x] = left[x]
      BY <1>3, <2>2
    <3> QED
      BY <1>4, <2>2, <3>1 DEF Holds
  <2> QED
    BY <2>1, <2>2
<1>6. queue' \in [Worker -> Seq(Task)]
  BY <1>3, <1>5
<1> QED
  BY <1>5, <1>6, TaskMoves

\* The rest of the invariant, of a step that changes one task and registers no worker.
LEMMA RestKept ==
  ASSUME PoolInv, NEW t \in Task, NEW r \in TaskRecord, task' = [task EXCEPT ![t] = r],
         UNCHANGED closed, t \in Caller \/ task[t] # Idle,
         pool' \in [Project -> [worker : Worker, version : Version] \cup {Vacant}],
         \A p \in Project : pool'[p] = pool[p] \/ pool'[p] = Vacant,
         worker' \in [Worker -> WorkerRecord],
         \A x \in Worker : worker'[x].project = worker[x].project,
         Shapes', Queues'
  PROVE  PoolInv'
<1>1. task' \in [Task -> TaskRecord] /\ \A u \in Task \ {t} : task'[u] = task[u]
  BY TaskChange DEF PoolInv
<1>2. Typed'
  BY <1>1 DEF Typed
<1>3. Names'
  <2> SUFFICES ASSUME NEW p \in Project, pool'[p].worker # NoWorker
               PROVE  worker'[pool'[p].worker].project = p
    BY DEF Names
  <2>1. pool'[p] = pool[p]
    BY VacantType
  <2>2. pool[p].worker \in Worker /\ worker[pool[p].worker].project = p
    BY <2>1, PooledType DEF PoolInv, Names
  <2> QED
    BY <2>1, <2>2
<1>4. Ending'
  <2>1. ~closed => t \notin Project
    BY DEF PoolInv, Ending, Task
  <2> QED
    BY <1>1, <2>1 DEF PoolInv, Ending, Task
<1> QED
  BY <1>2, <1>3, <1>4 DEF PoolInv

LEMMA SamePool ==
  ASSUME PoolInv, UNCHANGED <<pool, worker>>
  PROVE  /\ pool' \in [Project -> [worker : Worker, version : Version] \cup {Vacant}]
         /\ \A p \in Project : pool'[p] = pool[p] \/ pool'[p] = Vacant
         /\ worker' \in [Worker -> WorkerRecord]
         /\ \A x \in Worker : worker'[x].project = worker[x].project
  BY DEF PoolInv, Typed

LEMMA DiscardKeeps ==
  ASSUME PoolInv, NEW c \in Caller, Discard(c), task[c].at \in {"queued", "starting", "calling"}
  PROVE  PoolInv'
<1> DEFINE w == task[c].uses
           r == [at |-> "close", uses |-> NoWorker, closes |-> w]
           q1 == RemoveFirst(queue[w], c)
           q == Append(q1, c)
<1>1. c \in Task /\ w \in Worker /\ Lock(task[c]) = w
  BY HeldTypes DEF Task, Shape, Lock
<1>2. r \in TaskRecord /\ Shape(r) /\ Lock(r) = w /\ r.at \notin Held
  BY <1>1 DEF TaskRecord, Shape, Lock, Held
<1>3. queue[w] \in Seq(Task) /\ Unique(queue[w]) /\ Member(queue[w], c)
  BY <1>1, HeldTypes
<1>4. /\ q1 \in Seq(Task) /\ Unique(q1) /\ \A u : Member(q1, u) <=> Member(queue[w], u) /\ u # c
      /\ Head(queue[w]) # c => q1 # <<>> /\ Head(q1) = Head(queue[w])
  BY <1>3, LeaveQueue
<1>5. task' = [task EXCEPT ![c] = r] /\ queue' = [queue EXCEPT ![w] = q] /\ UNCHANGED closed
  BY <1>1 DEF Discard, PoolInv, Queues
<1> HIDE DEF r, q1
<1>6. /\ q \in Seq(Task) /\ q # <<>> /\ Unique(q) /\ \A u : Member(q, u) <=> Member(q1, u) \/ u = c
      /\ Head(q) = IF q1 = <<>> THEN c ELSE Head(q1)
  BY <1>1, <1>4, JoinQueue
<1> HIDE DEF q
<1>7. \A u \in Task \ {c} : Holds(u, w) => q # <<>> /\ Head(q) = u
  BY <1>4, <1>6 DEF Holds
<1>8. Shapes' /\ Queues'
  BY <1>1, <1>2, <1>3, <1>4, <1>5, <1>6, <1>7, OneQueue
<1>9. /\ pool' \in [Project -> [worker : Worker, version : Version] \cup {Vacant}]
      /\ \A p \in Project : pool'[p] = pool[p] \/ pool'[p] = Vacant
  BY DEF Discard, PoolInv, Typed
<1>10. /\ worker' \in [Worker -> WorkerRecord]
       /\ \A x \in Worker : worker'[x].project = worker[x].project
  <2>1. CASE worker' = worker
    BY <2>1 DEF PoolInv, Typed
  <2>2. CASE worker' = [worker EXCEPT ![w].unfinished = @ \cup {c}]
    <3> DEFINE v == [worker[w] EXCEPT !.unfinished = @ \cup {c}]
    <3>1. v \in WorkerRecord /\ v.project = worker[w].project
      BY <1>1 DEF PoolInv, Typed, WorkerRecord
    <3>2. worker' = [worker EXCEPT ![w] = v]
      BY <1>1, <2>2 DEF PoolInv, Typed, WorkerRecord
    <3> HIDE DEF v, w
    <3> QED
      BY <1>1, <3>1, <3>2, WorkerChange DEF PoolInv
  <2> QED
    BY <2>1, <2>2 DEF Discard
<1> QED
  BY <1>1, <1>2, <1>5, <1>8, <1>9, <1>10, RestKept

LEMMA CallsKeep ==
  ASSUME PoolInv, NEW c \in Caller,
         \/ \E s \in ProjectSpec : GetsWorker(c, s)
         \/ TakesLock(c) \/ StartupAnswers(c) \/ CallReturns(c)
  PROVE  PoolInv'
<1>0. c \in Task /\ task[c] \in TaskRecord /\ Shape(task[c])
  BY TaskTypes, HeldTypes DEF Task, PoolInv
<1>1. ASSUME NEW s \in ProjectSpec, GetsWorker(c, s) PROVE PoolInv'
  <2> DEFINE w == pool[s.project].worker
             r == [at |-> "queued", uses |-> w, closes |-> NoWorker]
  <2>1. w \in Worker
    BY <1>1, PooledType DEF GetsWorker, ProjectSpec, PoolInv
  <2>2. r \in TaskRecord /\ Shape(r) /\ Lock(r) = w /\ r.at \notin Held
    BY <2>1 DEF TaskRecord, Shape, Lock, Held
  <2>3. /\ task' = [task EXCEPT ![c] = r] /\ queue' = [queue EXCEPT ![w] = Append(@, c)]
        /\ UNCHANGED <<pool, worker, closed>>
    BY <1>1 DEF GetsWorker
  <2>4. Lock(task[c]) = NoWorker
    BY <1>0, <1>1 DEF GetsWorker, At, Shape, Lock
  <2> HIDE DEF w, r
  <2>5. Shapes' /\ Queues'
    BY <1>0, <2>1, <2>2, <2>3, <2>4, JoinsQueue
  <2> QED
    BY <1>0, <2>2, <2>3, <2>5, SamePool, RestKept
<1>2. CASE TakesLock(c)
  <2> DEFINE w == task[c].uses
             r == [task[c] EXCEPT !.at = IF worker[w].owner = "ready" THEN "calling" ELSE "starting"]
  <2>1. r \in TaskRecord /\ Shape(r) /\ Lock(r) = Lock(task[c]) /\ Lock(r) = w /\ w \in Worker
    BY <1>0, <1>2 DEF TaskRecord, Shape, Lock, TakesLock, At
  <2>2. task' = [task EXCEPT ![c] = r] /\ UNCHANGED <<pool, queue, closed>> /\ Holds(c, w)
    BY <1>0, <1>2 DEF TakesLock, PoolInv, Typed, TaskRecord
  <2>3. /\ worker' \in [Worker -> WorkerRecord]
        /\ \A x \in Worker : worker'[x].project = worker[x].project
    <3>1. CASE worker' = worker
      BY <3>1 DEF PoolInv, Typed
    <3>2. CASE worker' = [worker EXCEPT ![w].owner = "starting", ![w].shutdown = FALSE]
      BY <2>1, <3>2 DEF PoolInv, Typed, WorkerRecord
    <3> QED
      BY <1>2, <3>1, <3>2 DEF TakesLock
  <2> HIDE DEF w, r
  <2>4. Shapes' /\ Queues'
    BY <1>0, <2>1, <2>2, StaysQueued
  <2>5. /\ pool' \in [Project -> [worker : Worker, version : Version] \cup {Vacant}]
        /\ \A p \in Project : pool'[p] = pool[p]
    BY <2>2 DEF PoolInv, Typed
  <2> QED
    BY <1>0, <2>1, <2>2, <2>3, <2>4, <2>5, RestKept
<1>3. CASE StartupAnswers(c)
  <2> DEFINE r == [task[c] EXCEPT !.at = "calling"]
  <2>1. r \in TaskRecord /\ Shape(r) /\ Lock(r) = Lock(task[c]) /\ Lock(r) \in Worker
    BY <1>0, <1>3 DEF TaskRecord, Shape, Lock, StartupAnswers, At
  <2>2. task' = [task EXCEPT ![c] = r] /\ UNCHANGED <<pool, worker, queue, closed>>
    BY <1>0, <1>3 DEF StartupAnswers, PoolInv, Typed, TaskRecord
  <2>3. Holds(c, Lock(task[c]))
    BY <1>0, <1>3, <2>1 DEF PoolInv, Queues, StartupAnswers, At, Held
  <2> HIDE DEF r
  <2>4. Shapes' /\ Queues'
    BY <1>0, <2>1, <2>2, <2>3, StaysQueued
  <2> QED
    BY <1>0, <2>1, <2>2, <2>4, SamePool, RestKept
<1>4. CASE CallReturns(c)
  <2> DEFINE w == task[c].uses
  <2>1. w \in Worker /\ Lock(task[c]) = w
    BY <1>0, <1>4 DEF Shape, Lock, CallReturns, At
  <2>2. Holds(c, w)
    BY <1>0, <1>4, <2>1 DEF PoolInv, Queues, CallReturns, At, Held
  <2>3. /\ task' = [task EXCEPT ![c] = Idle] /\ queue' = [queue EXCEPT ![w] = Tail(@)]
        /\ UNCHANGED <<pool, worker, closed>>
    BY <1>4 DEF CallReturns
  <2> HIDE DEF w
  <2>4. Shapes' /\ Queues'
    BY <1>0, <2>1, <2>2, <2>3, LeavesQueue
  <2> QED
    BY <1>0, <2>3, <2>4, IdleType, SamePool, RestKept
<1> QED
  BY <1>1, <1>2, <1>3, <1>4

\* A worker that nothing refers to has an empty queue.
LEMMA NewsWorkerKeeps ==
  ASSUME PoolInv, NEW c \in Caller, NEW s \in ProjectSpec, NewsWorker(c, s)
  PROVE  PoolInv'
<1> DEFINE stale == pool[s.project].worker
           lock == IF stale = NoWorker THEN Fresh ELSE stale
           r == [at |-> IF stale = NoWorker THEN "queued" ELSE "close",
                 uses |-> Fresh, closes |-> stale]
<1>1. s.project \in Project /\ s.version \in Version /\ c \in Task
  BY DEF ProjectSpec, Task
<1>2. Fresh \in Worker /\ Unreferenced(Fresh)
  BY FreshType DEF NewsWorker
<1>3. stale \in Worker \cup {NoWorker} /\ lock \in Worker
  BY <1>1, <1>2, PooledType DEF PoolInv
<1>4. r \in TaskRecord /\ Shape(r) /\ Lock(r) = lock /\ r.at \notin Held
  BY <1>2, <1>3 DEF TaskRecord, Shape, Lock, Held
<1>5. /\ task' = [task EXCEPT ![c] = r] /\ queue' = [queue EXCEPT ![lock] = Append(@, c)]
      /\ worker' = [worker EXCEPT ![Fresh] = NewWorker(s.project)]
      /\ pool' = [pool EXCEPT ![s.project] = [worker |-> Fresh, version |-> s.version]]
      /\ UNCHANGED closed /\ ~closed
  BY DEF NewsWorker
<1>6. Lock(task[c]) = NoWorker
  BY <1>1, HeldTypes DEF NewsWorker, At, Shape, Lock
<1> HIDE DEF lock, r
<1>7. Shapes' /\ Queues'
  BY <1>1, <1>3, <1>4, <1>5, <1>6, JoinsQueue
<1>8. /\ worker' \in [Worker -> WorkerRecord] /\ worker'[Fresh] = NewWorker(s.project)
      /\ \A x \in Worker \ {Fresh} : worker'[x] = worker[x]
  BY <1>1, <1>2, <1>5, NewWorkerType, WorkerChange DEF PoolInv
<1>9. /\ task' \in [Task -> TaskRecord] /\ \A u \in Task \ {c} : task'[u] = task[u]
  BY <1>1, <1>4, <1>5, TaskChange DEF PoolInv
<1>10. pool' \in [Project -> [worker : Worker, version : Version] \cup {Vacant}]
  BY <1>1, <1>2, <1>5 DEF PoolInv, Typed
<1>11. Names'
  <2> SUFFICES ASSUME NEW p \in Project, pool'[p].worker # NoWorker
               PROVE  worker'[pool'[p].worker].project = p
    BY DEF Names
  <2>1. CASE p = s.project
    BY <1>1, <1>5, <1>8, <2>1 DEF PoolInv, Typed, NewWorker
  <2>2. CASE p # s.project
    <3>1. pool'[p] = pool[p]
      BY <1>5, <2>2 DEF PoolInv, Typed
    <3>2. pool[p].worker \in Worker /\ worker[pool[p].worker].project = p
      BY <3>1, PooledType DEF PoolInv, Names
    <3>3. pool[p].worker # Fresh
      BY <1>2 DEF Unreferenced, Registered
    <3> QED
      BY <1>8, <3>1, <3>2, <3>3
  <2> QED
    BY <2>1, <2>2
<1>12. Ending'
  BY <1>5, <1>9 DEF PoolInv, Ending, Task
<1> QED
  BY <1>7, <1>8, <1>9, <1>10, <1>11, <1>12 DEF PoolInv, Typed

LEMMA ClosingKeeps ==
  ASSUME PoolInv, NEW t \in Task,
         BeginsClosing(t) \/ Closes(t) \/ (t \in Caller /\ CancelClose(t))
  PROVE  PoolInv'
<1> DEFINE w == task[t].closes
<1>0. /\ task[t] \in TaskRecord /\ Shape(task[t]) /\ w \in Worker /\ Lock(task[t]) = w
      /\ task[t] # Idle
  BY TaskTypes, HeldTypes DEF PoolInv, BeginsClosing, Closes, CancelClose, At, Shape, Lock, Idle
<1>1. ASSUME NEW b \in BOOLEAN, worker' = [worker EXCEPT ![w].shutdown = b]
      PROVE  /\ worker' \in [Worker -> WorkerRecord]
             /\ \A x \in Worker : worker'[x].project = worker[x].project
  <2> DEFINE v == [worker[w] EXCEPT !.shutdown = b]
  <2>1. v \in WorkerRecord /\ v.project = worker[w].project
    BY <1>0 DEF PoolInv, Typed, WorkerRecord
  <2>2. worker' = [worker EXCEPT ![w] = v]
    BY <1>0, <1>1 DEF PoolInv, Typed, WorkerRecord
  <2> HIDE DEF v, w
  <2> QED
    BY <1>0, <2>1, <2>2, WorkerChange DEF PoolInv
<1>2. ASSUME UNCHANGED pool
      PROVE  /\ pool' \in [Project -> [worker : Worker, version : Version] \cup {Vacant}]
             /\ \A p \in Project : pool'[p] = pool[p]
  BY <1>2 DEF PoolInv, Typed
<1>3. CASE BeginsClosing(t)
  <2> DEFINE r == [task[t] EXCEPT !.at = "closing"]
  <2>1. r \in TaskRecord /\ Shape(r) /\ Lock(r) = w
    BY <1>0, <1>3 DEF TaskRecord, Shape, Lock, BeginsClosing, At
  <2>2. /\ task' = [task EXCEPT ![t] = r] /\ UNCHANGED <<pool, queue, closed>> /\ Holds(t, w)
        /\ worker' = [worker EXCEPT ![w].shutdown = Alive(w)] /\ Alive(w) \in BOOLEAN
    BY <1>0, <1>3 DEF BeginsClosing, Alive, PoolInv, Typed, TaskRecord
  <2> HIDE DEF r, w
  <2>3. Shapes' /\ Queues'
    BY <1>0, <2>1, <2>2, StaysQueued
  <2> QED
    BY <1>0, <1>1, <1>2, <2>1, <2>2, <2>3, RestKept DEF Task
<1>4. CASE Closes(t)
  <2>1. worker' = [worker EXCEPT ![w].shutdown = FALSE] /\ UNCHANGED <<pool, closed>>
    BY <1>4 DEF Closes
  <2>2. Holds(t, w)
    BY <1>0, <1>4 DEF PoolInv, Queues, Closes, At, Held
  <2>3. CASE task' = [task EXCEPT ![t] = Idle] /\ queue' = [queue EXCEPT ![w] = Tail(@)]
    <3> HIDE DEF w
    <3>2. Shapes' /\ Queues'
      BY <1>0, <2>2, <2>3, LeavesQueue
    <3> QED
      BY <1>0, <1>1, <1>2, <2>1, <2>3, <3>2, IdleType, RestKept
  <2> DEFINE n == task[t].uses
  <2>4. CASE /\ n # NoWorker
             /\ task' = [task EXCEPT ![t].at = "queued", ![t].closes = NoWorker]
             /\ queue' = [[queue EXCEPT ![w] = Tail(@)] EXCEPT ![n] = Append(@, t)]
    <3> DEFINE r == [task[t] EXCEPT !.at = "queued", !.closes = NoWorker]
    <3>1. n \in Worker
      BY <2>4, TaskTypes DEF PoolInv
    <3>2. r \in TaskRecord /\ Shape(r) /\ Lock(r) = n /\ r.at \notin Held
      BY <1>0, <3>1 DEF TaskRecord, Shape, Lock, Held
    <3>3. task' = [task EXCEPT ![t] = r]
      BY <1>0, <2>4 DEF PoolInv, Typed, TaskRecord
    <3> HIDE DEF n, r, w
    <3>5. Shapes' /\ Queues'
      BY <1>0, <2>2, <2>4, <3>1, <3>2, <3>3, PassesOn
    <3> QED
      BY <1>0, <1>1, <1>2, <2>1, <3>2, <3>3, <3>5, RestKept
  <2> QED
    BY <1>4, <2>3, <2>4 DEF Closes
<1>5. CASE t \in Caller /\ CancelClose(t)
  <2>1. /\ task' = [task EXCEPT ![t] = Idle] /\ queue' = [queue EXCEPT ![w] = RemoveFirst(@, t)]
        /\ UNCHANGED <<pool, closed>> /\ worker' = [worker EXCEPT ![w].unfinished = @ \ {t}]
    BY <1>5 DEF CancelClose
  <2>2. /\ worker' \in [Worker -> WorkerRecord]
        /\ \A x \in Worker : worker'[x].project = worker[x].project
    <3> DEFINE v == [worker[w] EXCEPT !.unfinished = @ \ {t}]
    <3>1. v \in WorkerRecord /\ v.project = worker[w].project
      BY <1>0 DEF PoolInv, Typed, WorkerRecord
    <3>2. worker' = [worker EXCEPT ![w] = v]
      BY <1>0, <2>1 DEF PoolInv, Typed, WorkerRecord
    <3> HIDE DEF v, w
    <3> QED
      BY <1>0, <3>1, <3>2, WorkerChange DEF PoolInv
  <2> HIDE DEF w
  <2>3. Shapes' /\ Queues'
    BY <1>0, <2>1, LeavesQueue
  <2> QED
    BY <1>0, <1>2, <2>1, <2>2, <2>3, IdleType, RestKept
<1> QED
  BY <1>3, <1>4, <1>5

\* When the manager is closed no request is under way.
LEMMA AllIdle ==
  ASSUME PoolInv, ManagerCloses
  PROVE  /\ \A t \in Task : task[t] = Idle
         /\ \A w \in Worker : queue[w] = <<>>
<1>1. ASSUME NEW t \in Task PROVE task[t] = Idle
  <2>1. CASE t \in Caller
    <3>1. task[t].at = "idle" /\ task[t].uses = NoWorker /\ task[t].closes = NoWorker
      BY <2>1, HeldTypes DEF ManagerCloses, At, Shape
    <3> QED
      BY <3>1, TaskTypes DEF PoolInv, TaskRecord, Idle
  <2>2. CASE t \in Project
    BY <2>2 DEF PoolInv, Ending, ManagerCloses
  <2> QED
    BY <2>1, <2>2 DEF Task
<1>2. ASSUME NEW w \in Worker PROVE queue[w] = <<>>
  <2>1. \A t \in Task : ~Member(queue[w], t)
    BY <1>1, HeldTypes DEF Idle, Lock
  <2>2. ASSUME queue[w] # <<>> PROVE FALSE
    <3>1. queue[w] \in Seq(Task) /\ Len(queue[w]) \in Nat \ {0}
      BY <2>2, EmptySeq DEF PoolInv, Queues
    <3>2. queue[w][1] \in Task /\ 1 \in 1 .. Len(queue[w])
      BY <3>1, ElementOfSeq
    <3> QED
      BY <2>1, <3>2 DEF Member
  <2> QED
    BY <2>2
<1> QED
  BY <1>1, <1>2

LEMMA ManagerKeeps == ASSUME PoolInv, ManagerCloses PROVE PoolInv'
<1> DEFINE closer(p) == [at |-> "close", uses |-> NoWorker, closes |-> pool[p].worker]
<1>1. /\ \A t \in Task : task[t] = Idle
      /\ \A w \in Worker : queue[w] = <<>>
  BY AllIdle
<1>2. ASSUME NEW p \in Project, pool[p] # Vacant
      PROVE  closer(p) \in TaskRecord /\ Shape(closer(p)) /\ pool[p].worker \in Worker
  BY <1>2 DEF PoolInv, Typed, TaskRecord, Shape
<1>3. ASSUME NEW t \in Task
      PROVE  task'[t] = IF t \in Project /\ pool[t] # Vacant THEN closer(t) ELSE Idle
  BY <1>1 DEF ManagerCloses
<1>4. task' \in [Task -> TaskRecord] /\ Shapes'
  <2>1. Idle \in TaskRecord /\ Shape(Idle)
    BY IdleType DEF Idle, Shape
  <2>2. \A t \in Task : task'[t] \in TaskRecord /\ Shape(task'[t])
    BY <1>2, <1>3, <2>1
  <2> QED
    BY <2>2 DEF ManagerCloses, Shapes
<1>5. ASSUME NEW t \in Task
      PROVE  /\ task'[t].at \notin Held
             /\ Lock(task'[t]) = IF t \in Project /\ pool[t] # Vacant THEN pool[t].worker ELSE NoWorker
  <2>1. CASE t \in Project /\ pool[t] # Vacant
    <3>1. task'[t] = closer(t) /\ pool[t].worker # NoWorker
      BY <1>2, <1>3, <2>1
    <3> QED
      BY <2>1, <3>1 DEF Held, Lock
  <2>2. CASE ~(t \in Project /\ pool[t] # Vacant)
    <3>1. task'[t] = Idle
      BY <1>3, <2>2
    <3> QED
      BY <2>2, <3>1 DEF Held, Lock, Idle
  <2> QED
    BY <2>1, <2>2
<1>6. ASSUME NEW w \in Worker
      PROVE  /\ queue'[w] \in Seq(Task) /\ Unique(queue'[w])
             /\ \A t \in Task : Member(queue'[w], t) <=> Lock(task'[t]) = w
  <2>1. CASE Registered(w)
    <3>1. PICK p \in Project : pool[p].worker = w
      BY <2>1 DEF Registered
    <3>2. worker[w].project = p /\ p \in Task
      BY <3>1 DEF PoolInv, Names, Task
    <3>3. queue'[w] = Append(<<>>, p)
      BY <1>1, <2>1, <3>2 DEF ManagerCloses
    <3>4. queue'[w] \in Seq(Task) /\ Len(queue'[w]) = 1 /\ queue'[w][1] = p
      BY <3>2, <3>3
    <3>5. Unique(queue'[w]) /\ \A u : Member(queue'[w], u) <=> u = p
      BY <3>4 DEF Unique, Member
    <3>6. ASSUME NEW t \in Task PROVE Lock(task'[t]) = w <=> t = p
      <4>1. ASSUME Lock(task'[t]) = w PROVE t = p
        BY <1>5, <3>2, <4>1 DEF PoolInv, Names
      <4>2. pool[p] # Vacant
        BY <3>1, VacantType
      <4> QED
        BY <1>5, <3>1, <4>1, <4>2
    <3> QED
      BY <3>4, <3>5, <3>6
  <2>2. CASE ~Registered(w)
    <3>1. queue'[w] = <<>>
      BY <1>1, <2>2 DEF ManagerCloses
    <3>2. \A t \in Task : Lock(task'[t]) # w
      BY <1>5, <2>2 DEF Registered
    <3> QED
      BY <3>1, <3>2 DEF Unique, Member
  <2> QED
    BY <2>1, <2>2
<1>7. queue' \in [Worker -> Seq(Task)]
  BY <1>6 DEF ManagerCloses
<1>8. Queues'
  BY <1>5, <1>6, <1>7 DEF Queues
<1>9. /\ pool' \in [Project -> [worker : Worker, version : Version] \cup {Vacant}]
      /\ worker' \in [Worker -> WorkerRecord]
  BY DEF ManagerCloses, PoolInv, Typed
<1>10. Names' /\ Ending'
  BY VacantType DEF ManagerCloses, Names, Ending
<1> QED
  BY <1>4, <1>8, <1>9, <1>10 DEF PoolInv, Typed

\* The owner of a worker touches neither the pool nor the queues.
LEMMA OwnersKeep == ASSUME PoolInv, NEW w \in Worker, OwnerStep(w) \/ Breaks(w) PROVE PoolInv'
<1>1. UNCHANGED <<pool, queue, task, closed>>
  BY DEF OwnerStep, OwnerReady, StartupFails, ShutsDown, Breaks, OwnerEnds
<1>2. PICK r \in WorkerRecord : r.project = worker[w].project /\ worker' = [worker EXCEPT ![w] = r]
  <2>1. CASE OwnerReady(w)
    <3>1. [worker[w] EXCEPT !.owner = "ready"] \in WorkerRecord
      BY DEF PoolInv, Typed, WorkerRecord
    <3>2. worker' = [worker EXCEPT ![w] = [worker[w] EXCEPT !.owner = "ready"]]
      BY <2>1 DEF OwnerReady, PoolInv, Typed, WorkerRecord
    <3> QED
      BY <3>1, <3>2 DEF WorkerRecord, PoolInv, Typed
  <2>2. CASE OwnerEnds(w)
    <3>1. [worker[w] EXCEPT !.owner = "none", !.unfinished = {}] \in WorkerRecord
      BY DEF PoolInv, Typed, WorkerRecord
    <3>2. worker' = [worker EXCEPT ![w] = [worker[w] EXCEPT !.owner = "none", !.unfinished = {}]]
      BY <2>2 DEF OwnerEnds, PoolInv, Typed, WorkerRecord
    <3> QED
      BY <3>1, <3>2 DEF WorkerRecord, PoolInv, Typed
  <2> QED
    BY <2>1, <2>2 DEF OwnerStep, StartupFails, ShutsDown, Breaks
<1>3. worker' \in [Worker -> WorkerRecord] /\ \A x \in Worker : worker'[x].project = worker[x].project
  BY <1>2, WorkerChange DEF PoolInv
<1>4. Names'
  BY <1>1, <1>3, PooledType DEF PoolInv, Names
<1> QED
  BY <1>1, <1>3, <1>4 DEF PoolInv, Typed, Shapes, Queues, Holds, Ending

LEMMA InvStarts == PoolInit => PoolInv
<1> SUFFICES ASSUME PoolInit PROVE PoolInv
  OBVIOUS
<1>1. Typed
  BY PoolStarts
<1>2. \A t \in Task : task[t] = Idle
  BY DEF PoolInit
<1>3. Shape(Idle) /\ Lock(Idle) = NoWorker
  BY DEF Idle, Shape, Lock
<1>4. \A w \in Worker : queue[w] = <<>>
  BY DEF PoolInit
<1>5. queue \in [Worker -> Seq(Task)]
  BY DEF PoolInit
<1>6. Queues
  BY <1>2, <1>3, <1>4, <1>5 DEF Queues, Unique, Member, Idle, Held
<1>7. Names /\ Ending
  BY <1>2, VacantType DEF PoolInit, Names, Ending, Task
<1> QED
  BY <1>1, <1>2, <1>3, <1>6, <1>7 DEF PoolInv, Shapes

LEMMA InvKept == PoolInv /\ [PoolNext]_poolVars => PoolInv'
<1> SUFFICES ASSUME PoolInv, [PoolNext]_poolVars PROVE PoolInv'
  OBVIOUS
<1>1. ASSUME NEW c \in Caller, StartupFailed(c) \/ CallFails(c) \/ Cancelled(c) PROVE PoolInv'
  BY <1>1, DiscardKeeps DEF StartupFailed, CallFails, Cancelled, At
<1>2. ASSUME NEW c \in Caller, NEW s \in ProjectSpec, GetsWorker(c, s) \/ NewsWorker(c, s)
      PROVE  PoolInv'
  BY <1>2, CallsKeep, NewsWorkerKeeps
<1>3. ASSUME NEW t \in Task, TaskStep(t) PROVE PoolInv'
  BY <1>1, <1>3, CallsKeep, ClosingKeeps DEF TaskStep, CallerStep
<1>4. ASSUME NEW c \in Caller, CancelClose(c) PROVE PoolInv'
  BY <1>4, ClosingKeeps DEF Task
<1>5. CASE UNCHANGED poolVars
  BY <1>5 DEF poolVars, PoolInv, Typed, Shapes, Queues, Holds, Names, Ending
<1> QED
  BY <1>1, <1>2, <1>3, <1>4, <1>5, OwnersKeep, ManagerKeeps DEF PoolNext

LEMMA DesertedKept ==
  ASSUME PoolInv, deserted \subseteq Worker, [PoolNext]_poolVars PROVE deserted' \subseteq Worker
<1>1. ASSUME NEW c \in Caller, StartupFailed(c) \/ CallFails(c) \/ Cancelled(c)
      PROVE  deserted' \subseteq Worker
  <2>1. task[c].uses \in Worker
    BY <1>1, HeldTypes DEF StartupFailed, CallFails, Cancelled, At, Shape, Task
  <2> QED
    BY <1>1, <2>1 DEF StartupFailed, CallFails, Cancelled, Discard
<1>2. ASSUME NEW c \in Caller, NEW s \in ProjectSpec, GetsWorker(c, s) \/ NewsWorker(c, s)
      PROVE  deserted' \subseteq Worker
  BY <1>2 DEF GetsWorker, NewsWorker
<1>3. ASSUME NEW c \in Caller, CancelClose(c) PROVE deserted' \subseteq Worker
  <2>1. task[c].closes \in Worker
    BY <1>3, HeldTypes DEF CancelClose, At, Shape, Task
  <2> QED
    BY <1>3, <2>1 DEF CancelClose
<1>4. ASSUME NEW t \in Task, TaskStep(t) PROVE deserted' \subseteq Worker
  BY <1>1, <1>4 DEF TaskStep, CallerStep, TakesLock, StartupAnswers, CallReturns, BeginsClosing,
                    Closes
<1>5. ASSUME NEW w \in Worker, OwnerStep(w) \/ Breaks(w) PROVE deserted' \subseteq Worker
  BY <1>5 DEF OwnerStep, OwnerReady, StartupFails, ShutsDown, Breaks, OwnerEnds
<1>6. CASE ManagerCloses \/ UNCHANGED poolVars
  BY <1>6 DEF ManagerCloses, poolVars
<1> QED
  BY <1>1, <1>2, <1>3, <1>4, <1>5, <1>6 DEF PoolNext

\* Every reachable state is typed, and a task works with a worker only as the head of its queue:
\* whoever joins, gives up or is cancelled in whatever order, no two tasks call, start or close
\* one worker at a time (CodemcpWorker._call_lock).
THEOREM PoolTypeCorrect == PoolSpec => []PoolTypeOK
<1>1. PoolInit => PoolInv /\ deserted \subseteq Worker
  BY InvStarts DEF PoolInit
<1>2. PoolInv /\ deserted \subseteq Worker /\ [PoolNext]_poolVars
        => (PoolInv /\ deserted \subseteq Worker)'
  BY InvKept, DesertedKept
<1> QED
  BY <1>1, <1>2, InvImpliesTypeOK, PTL DEF PoolSpec
-----------------------------------------------------------------------------
(***************************************************************************)
(* No child is forgotten.                                                  *)
(***************************************************************************)
Closers(w) == {t \in Task : task[t].closes = w}

\* A worker that left the pool is closed by those that stand last in its queue: whoever still
\* calls it, and may start its child again, comes before them.  Of a deserted worker only the
\* first holds.
Kept(t) == task[t].closes # NoWorker /\ task[t].uses # NoWorker
             => Registered(task[t].uses) \/ task[t].uses \in deserted
Remembered ==
  /\ \A w \in Worker : Registered(w) => Closers(w) = {}
  /\ \A t \in Task : Kept(t)
  /\ \A w \in Worker \ deserted :
       /\ \A t \in Task : task[t].uses = w => Registered(w) \/ Closers(w) # {}
       /\ Alive(w) => Registered(w) \/ Closers(w) # {}
       /\ Ordered(queue[w], Closers(w))

\* The order of a queue is a matter of those who are in it.
LEMMA OrderOfMembers ==
  ASSUME NEW q, NEW C, NEW D, Ordered(q, C), \A u : Member(q, u) => (u \in C <=> u \in D)
  PROVE  Ordered(q, D)
  BY DEF Ordered, Member

LEMMA ClosersChange ==
  ASSUME PoolInv, NEW t \in Task, NEW r \in TaskRecord, task' = [task EXCEPT ![t] = r], NEW w
  PROVE  Closers(w)' = IF r.closes = w THEN Closers(w) \cup {t} ELSE Closers(w) \ {t}
<1>1. task'[t] = r /\ \A u \in Task \ {t} : task'[u] = task[u]
  BY TaskChange DEF PoolInv
<1> QED
  BY <1>1 DEF Closers

\* One task goes on, and stops closing a worker only if another one closes it too or nobody
\* needs that any more; the pool stays as it is.
LEMMA TaskRemembers ==
  ASSUME PoolInv, Remembered, UNCHANGED pool, deserted \subseteq deserted',
         NEW t \in Task, NEW r \in TaskRecord, task' = [task EXCEPT ![t] = r],
         r.closes \in {task[t].closes, NoWorker},
         r.closes # NoWorker => r.uses = task[t].uses,
         r.uses # NoWorker => r.uses = task[t].uses \/ Registered(r.uses),
         \A w \in Worker \ deserted' :
           /\ task[t].closes = w /\ r.closes # w =>
                /\ \/ \E u \in Task \ {t} : task[u].closes = w
                   \/ ~Alive(w)' /\ \A u \in Task \ {t} : task[u].uses # w
                /\ ~Member(queue'[w], t)
           /\ Alive(w)' => Alive(w) \/ \E u \in Task : task[u].uses = w
           /\ Ordered(queue'[w], Closers(w))
  PROVE  Remembered'
<1>1. task'[t] = r /\ \A u \in Task \ {t} : task'[u] = task[u]
  BY TaskChange DEF PoolInv
<1>2. \A w : Closers(w)' = IF r.closes = w THEN Closers(w) \cup {t} ELSE Closers(w) \ {t}
  BY ClosersChange
<1>3. \A w \in Worker : Registered(w)' <=> Registered(w)
  BY DEF Registered
<1>4. r.uses \in Worker \cup {NoWorker} /\ r.closes \in Worker \cup {NoWorker}
  BY DEF TaskRecord
<1>5. ASSUME NEW w \in Worker
      PROVE  Closers(w)' \subseteq Closers(w)
  BY <1>2, <1>4 DEF Closers
<1>6. \A w \in Worker : Registered(w)' => Closers(w)' = {}
  BY <1>3, <1>5 DEF Remembered
<1>7. ASSUME NEW u \in Task, task'[u].closes # NoWorker, task'[u].uses # NoWorker
      PROVE  Registered(task[u].uses) \/ task[u].uses \in deserted
  <2>1. task[u].closes # NoWorker /\ task[u].uses = task'[u].uses
    BY <1>1, <1>7
  <2> QED
    BY <1>7, <2>1 DEF Remembered, Kept
<1>8. ASSUME NEW w \in Worker \ deserted', ~Registered(w), Closers(w) # {}
      PROVE  Closers(w)' # {} \/ (~Alive(w)' /\ \A u \in Task : task'[u].uses # w)
  <2>1. CASE task[t].closes = w /\ r.closes # w
    <3>1. CASE \E u \in Task \ {t} : task[u].closes = w
      BY <1>2, <2>1, <3>1 DEF Closers
    <3>2. CASE ~Alive(w)' /\ \A u \in Task \ {t} : task[u].uses # w
      <4>1. task[t].uses # w
        BY <1>8, <2>1 DEF Remembered, Kept
      <4>2. r.uses # w
        BY <1>8, <4>1
      <4> QED
        BY <1>1, <3>2, <4>2
    <3> QED
      BY <2>1, <3>1, <3>2
  <2>2. CASE ~(task[t].closes = w /\ r.closes # w)
    BY <1>2, <1>8, <2>2 DEF Closers
  <2> QED
    BY <2>1, <2>2
<1>9. ASSUME NEW w \in Worker \ deserted', NEW u \in Task, task'[u].uses = w
      PROVE  Registered(w)' \/ Closers(w)' # {}
  <2>1. (task[u].uses = w) \/ Registered(w)
    BY <1>1, <1>9
  <2>2. Registered(w) \/ Closers(w) # {}
    BY <2>1 DEF Remembered
  <2> QED
    BY <1>3, <1>8, <1>9, <2>2
<1>10. ASSUME NEW w \in Worker \ deserted', Alive(w)' PROVE Registered(w)' \/ Closers(w)' # {}
  <2>1. Registered(w) \/ Closers(w) # {}
    BY <1>10 DEF Remembered
  <2> QED
    BY <1>3, <1>8, <1>10, <2>1
<1>11. ASSUME NEW w \in Worker \ deserted' PROVE Ordered(queue'[w], Closers(w)')
  <2>1. ASSUME NEW u, Member(queue'[w], u) PROVE u \in Closers(w) <=> u \in Closers(w)'
    <3>1. CASE u # t
      BY <1>2, <3>1
    <3>2. CASE u = t /\ r.closes = w
      BY <1>2, <1>4, <3>2 DEF Closers
    <3>3. CASE u = t /\ r.closes # w
      <4>1. task[t].closes # w
        BY <2>1, <3>3
      <4> QED
        BY <1>2, <3>3, <4>1 DEF Closers
    <3> QED
      BY <3>1, <3>2, <3>3
  <2> QED
    BY <2>1, OrderOfMembers
<1>12. \A u \in Task : Kept(u)'
  <2> SUFFICES ASSUME NEW u \in Task, task'[u].closes # NoWorker, task'[u].uses # NoWorker
               PROVE  \/ \E p \in Project : pool'[p].worker = task'[u].uses
                      \/ task'[u].uses \in deserted'
    BY DEF Kept, Registered
  <2>1. task'[u].uses = task[u].uses
    BY <1>1
  <2> QED
    BY <1>7, <2>1 DEF Registered
<1>13. \A w \in Worker \ deserted' : Ordered(queue'[w], Closers(w)')
  BY <1>11
<1> QED
  BY <1>6, <1>12, <1>9, <1>10, <1>13 DEF Remembered

LEMMA CallsRemember ==
  ASSUME PoolInv, Remembered, NEW c \in Caller,
         \/ \E s \in ProjectSpec : GetsWorker(c, s)
         \/ TakesLock(c) \/ StartupAnswers(c) \/ CallReturns(c)
  PROVE  Remembered'
<1>0. c \in Task /\ task[c] \in TaskRecord /\ Shape(task[c])
  BY TaskTypes, HeldTypes DEF Task, PoolInv
<1>1. ASSUME NEW s \in ProjectSpec, GetsWorker(c, s) PROVE Remembered'
  <2> DEFINE w == pool[s.project].worker
             r == [at |-> "queued", uses |-> w, closes |-> NoWorker]
  <2>1. w \in Worker /\ Registered(w)
    BY <1>1, PooledType DEF GetsWorker, ProjectSpec, PoolInv, Registered
  <2>2. /\ r \in TaskRecord /\ r.uses = w /\ r.closes = NoWorker
        /\ task[c].closes = NoWorker /\ Lock(task[c]) = NoWorker
    BY <1>0, <1>1, <2>1 DEF TaskRecord, GetsWorker, At, Shape, Lock
  <2>3. /\ task' = [task EXCEPT ![c] = r] /\ queue' = [queue EXCEPT ![w] = Append(@, c)]
        /\ UNCHANGED <<pool, worker, deserted>>
    BY <1>1 DEF GetsWorker
  <2> HIDE DEF w, r
  <2>4. ASSUME NEW x \in Worker \ deserted PROVE Ordered(queue'[x], Closers(x))
    <3>1. Ordered(queue[x], Closers(x)) /\ queue[x] \in Seq(Task) /\ Unique(queue[x])
      BY DEF Remembered, PoolInv, Queues
    <3>2. CASE x = w
      <4>1. Closers(x) = {} /\ ~Member(queue[x], c)
        BY <1>0, <2>1, <2>2, <3>2, HeldTypes DEF Remembered
      <4>2. queue'[x] = Append(queue[x], c)
        BY <2>3, <3>2 DEF PoolInv, Queues
      <4> QED
        BY <4>1, <4>2, <3>1, <1>0, JoinQueue
    <3>3. CASE x # w
      BY <2>3, <3>1, <3>3 DEF PoolInv, Queues
    <3> QED
      BY <3>2, <3>3
  <2>5. \A x \in Worker : Alive(x)' <=> Alive(x)
    BY <2>3 DEF Alive
  <2> QED
    BY <1>0, <2>1, <2>2, <2>3, <2>4, <2>5, TaskRemembers
<1>2. CASE TakesLock(c) \/ StartupAnswers(c)
  <2> DEFINE w == task[c].uses
             r == [task[c] EXCEPT !.at = IF StartupAnswers(c) \/ worker[w].owner = "ready"
                                           THEN "calling" ELSE "starting"]
  <2>1. r \in TaskRecord /\ r.uses = w /\ r.closes = task[c].closes /\ w \in Worker
    BY <1>0, <1>2 DEF TaskRecord, Shape, TakesLock, StartupAnswers, At
  <2>2. task' = [task EXCEPT ![c] = r] /\ UNCHANGED <<pool, queue, deserted>>
    BY <1>0, <1>2 DEF TakesLock, StartupAnswers, At, PoolInv, Typed, TaskRecord
  <2>3. \A x \in Worker : Alive(x)' => Alive(x) \/ x = w
    <3>1. UNCHANGED worker \/ worker' = [worker EXCEPT ![w].owner = "starting", ![w].shutdown = FALSE]
      BY <1>2 DEF TakesLock, StartupAnswers
    <3>2. CASE UNCHANGED worker
      BY <3>2 DEF Alive
    <3>3. CASE worker' = [worker EXCEPT ![w].owner = "starting", ![w].shutdown = FALSE]
      BY <2>1, <3>3 DEF Alive, PoolInv, Typed
    <3> QED
      BY <3>1, <3>2, <3>3
  <2>4. \A x \in Worker \ deserted : Ordered(queue'[x], Closers(x))
    BY <2>2 DEF Remembered
  <2> HIDE DEF r
  <2> QED
    BY <1>0, <2>1, <2>2, <2>3, <2>4, TaskRemembers
<1>3. CASE CallReturns(c)
  <2> DEFINE w == task[c].uses
  <2>1. w \in Worker /\ task[c].closes = NoWorker /\ Idle.uses = NoWorker /\ Idle.closes = NoWorker
    BY <1>0, <1>3 DEF Shape, CallReturns, At, Idle
  <2>2. /\ task' = [task EXCEPT ![c] = Idle] /\ queue' = [queue EXCEPT ![w] = Tail(@)]
        /\ UNCHANGED <<pool, worker, deserted>>
    BY <1>3 DEF CallReturns
  <2>3. Holds(c, w)
    BY <1>0, <1>3, <2>1 DEF PoolInv, Queues, CallReturns, At, Held, Lock
  <2>4. ASSUME NEW x \in Worker \ deserted PROVE Ordered(queue'[x], Closers(x))
    <3>1. Ordered(queue[x], Closers(x)) /\ queue[x] \in Seq(Task) /\ Unique(queue[x])
      BY DEF Remembered, PoolInv, Queues
    <3>2. CASE x = w
      <4>1. queue'[x] = Tail(queue[x]) /\ queue[x] # <<>>
        BY <2>2, <2>3, <3>2 DEF PoolInv, Queues, Holds
      <4> QED
        BY <3>1, <4>1, PopQueue
    <3>3. CASE x # w
      BY <2>2, <3>1, <3>3 DEF PoolInv, Queues
    <3> QED
      BY <3>2, <3>3
  <2>5. \A x \in Worker : Alive(x)' <=> Alive(x)
    BY <2>2 DEF Alive
  <2> QED
    BY <1>0, <2>1, <2>2, <2>4, <2>5, IdleType, TaskRemembers
<1> QED
  BY <1>1, <1>2, <1>3

\* Who closes a worker is behind all that call it; when it is done nobody does.
LEMMA NoneAfterCloser ==
  ASSUME PoolInv, Remembered, NEW t \in Task, NEW w \in Worker \ deserted, task[t].closes = w,
         Holds(t, w)
  PROVE  ~Registered(w) /\ \A u \in Task : task[u].uses # w
<1>1. ~Registered(w)
  BY DEF Remembered, Closers
<1>2. ASSUME NEW u \in Task, task[u].uses = w PROVE FALSE
  <2>1. task[u].closes = NoWorker
    BY <1>1, <1>2 DEF Remembered, Kept
  <2>2. Member(queue[w], u)
    BY <1>2, <2>1, HeldTypes DEF Lock
  <2>3. queue[w] \in Seq(Task) /\ queue[w] # <<>> /\ Head(queue[w]) = t
    BY DEF PoolInv, Queues, Holds
  <2>4. Len(queue[w]) \in Nat \ {0} /\ queue[w][1] = t /\ t \in Closers(w)
    BY <2>3, EmptySeq DEF Closers
  <2>5. PICK i \in 1 .. Len(queue[w]) : queue[w][i] = u
    BY <2>2 DEF Member
  <2>6. u \in Closers(w)
    <3>1. Ordered(queue[w], Closers(w))
      BY DEF Remembered
    <3> QED
      BY <2>4, <2>5, <3>1 DEF Ordered
  <2> QED
    BY <2>1, <2>6 DEF Closers
<1> QED
  BY <1>1, <1>2

LEMMA ClosingRemembers ==
  ASSUME PoolInv, Remembered, NEW t \in Task,
         BeginsClosing(t) \/ Closes(t) \/ (t \in Caller /\ CancelClose(t))
  PROVE  Remembered'
<1> DEFINE w == task[t].closes
<1>0. /\ task[t] \in TaskRecord /\ Shape(task[t]) /\ w \in Worker /\ Lock(task[t]) = w
      /\ Idle.uses = NoWorker /\ Idle.closes = NoWorker
  BY TaskTypes, HeldTypes DEF PoolInv, BeginsClosing, Closes, CancelClose, At, Shape, Lock, Idle
<1>1. UNCHANGED pool
  BY DEF BeginsClosing, Closes, CancelClose
<1>2. \A x \in Worker : Alive(x)' <=> Alive(x)
  <2>1. \/ UNCHANGED worker \/ worker' = [worker EXCEPT ![w].shutdown = Alive(w)]
        \/ worker' = [worker EXCEPT ![w].shutdown = FALSE]
        \/ worker' = [worker EXCEPT ![w].unfinished = @ \ {t}]
    BY DEF BeginsClosing, Closes, CancelClose
  <2>2. ASSUME NEW b, UNCHANGED worker \/ worker' = [worker EXCEPT ![w].shutdown = b]
        PROVE  \A x \in Worker : Alive(x)' <=> Alive(x)
    BY <1>0, <2>2 DEF Alive, PoolInv, Typed, WorkerRecord
  <2>3. CASE worker' = [worker EXCEPT ![w].unfinished = @ \ {t}]
    BY <1>0, <2>3 DEF Alive, PoolInv, Typed, WorkerRecord
  <2> QED
    BY <2>1, <2>2, <2>3
<1>3. ASSUME NEW x \in Worker
      PROVE  /\ queue[x] \in Seq(Task) /\ Unique(queue[x])
             /\ Member(queue[x], t) <=> x = w
             /\ x \notin deserted => Ordered(queue[x], Closers(x))
  BY <1>0, HeldTypes DEF Remembered, PoolInv, Queues
<1>4. CASE BeginsClosing(t)
  <2> DEFINE r == [task[t] EXCEPT !.at = "closing"]
  <2>1. r \in TaskRecord /\ r.uses = task[t].uses /\ r.closes = w
    BY <1>0 DEF TaskRecord
  <2>2. task' = [task EXCEPT ![t] = r] /\ UNCHANGED <<queue, deserted>>
    BY <1>0, <1>4 DEF BeginsClosing, PoolInv, Typed, TaskRecord
  <2> HIDE DEF r
  <2> QED
    BY <1>1, <1>2, <1>3, <2>1, <2>2, TaskRemembers
<1>5. CASE Closes(t)
  <2>1. Holds(t, w) /\ ~Alive(w) /\ UNCHANGED deserted
    BY <1>0, <1>5 DEF PoolInv, Queues, Closes, At, Held
  <2>2. /\ ~Registered(w)
        /\ w \notin deserted => \A u \in Task : task[u].uses # w
    <3>1. ~Registered(w)
      BY <1>0 DEF Remembered, Closers
    <3> QED
      BY <1>0, <2>1, <3>1, NoneAfterCloser
  <2> DEFINE left == [queue EXCEPT ![w] = Tail(@)]
  <2>3. ASSUME NEW x \in Worker
        PROVE  /\ x \notin deserted => Ordered(left[x], Closers(x))
               /\ left[x] \in Seq(Task) /\ Unique(left[x]) /\ ~Member(left[x], t)
    <3>1. CASE x = w
      <4>1. left[x] = Tail(queue[x]) /\ queue[x] # <<>> /\ Head(queue[x]) = t
        BY <2>1, <3>1 DEF PoolInv, Queues, Holds
      <4> QED
        BY <1>3, <4>1, PopQueue
    <3>2. CASE x # w
      BY <1>3, <3>2 DEF PoolInv, Queues
    <3> QED
      BY <3>1, <3>2
  <2>4. CASE task' = [task EXCEPT ![t] = Idle] /\ queue' = left
    <3> HIDE DEF left
    <3> QED
      BY <1>0, <1>1, <1>2, <2>1, <2>2, <2>3, <2>4, IdleType, TaskRemembers
  <2> DEFINE n == task[t].uses
  <2>5. CASE /\ n # NoWorker
             /\ task' = [task EXCEPT ![t].at = "queued", ![t].closes = NoWorker]
             /\ queue' = [left EXCEPT ![n] = Append(@, t)]
    <3> DEFINE r == [task[t] EXCEPT !.at = "queued", !.closes = NoWorker]
    <3>1. n \in Worker /\ (n \notin deserted => Closers(n) = {})
      BY <1>0, <2>5, TaskTypes DEF PoolInv, Remembered, Kept
    <3>2. r \in TaskRecord /\ r.uses = n /\ r.closes = NoWorker
      BY <1>0, <3>1 DEF TaskRecord
    <3>3. task' = [task EXCEPT ![t] = r]
      BY <1>0, <2>5 DEF PoolInv, Typed, TaskRecord
    <3>4. queue' = [left EXCEPT ![n] = Append(left[n], t)] /\ DOMAIN left = Worker
      BY <2>5, <3>1 DEF PoolInv, Queues
    <3>5. ASSUME NEW x \in Worker \ deserted
          PROVE  Ordered(queue'[x], Closers(x)) /\ (x = w => ~Member(queue'[x], t))
      <4>1. CASE x = n
        <5>1. x # w
          BY <2>2, <4>1
        <5> HIDE DEF left, n
        <5>2. queue'[x] = Append(left[x], t)
          BY <3>4, <4>1
        <5>3. left[x] \in Seq(Task) /\ Unique(left[x]) /\ ~Member(left[x], t) /\ Ordered(left[x], Closers(x))
          BY <2>3
        <5> QED
          BY <3>1, <4>1, <5>1, <5>2, <5>3, JoinQueue
      <4>2. CASE x # n
        <5>1. queue'[x] = left[x]
          BY <3>4, <4>2
        <5> QED
          BY <2>3, <5>1
      <4> QED
        BY <4>1, <4>2
    <3> HIDE DEF r, left
    <3> QED
      BY <1>0, <1>1, <1>2, <2>1, <2>2, <3>1, <3>2, <3>3, <3>5, TaskRemembers
  <2> QED
    BY <1>5, <2>4, <2>5 DEF Closes
<1>6. CASE t \in Caller /\ CancelClose(t)
  <2>1. /\ task' = [task EXCEPT ![t] = Idle] /\ queue' = [queue EXCEPT ![w] = RemoveFirst(@, t)]
        /\ deserted \subseteq deserted'
        /\ w \in deserted' \/ \E u \in Task \ {t} : task[u].closes = w
    BY <1>6 DEF CancelClose
  <2>2. ASSUME NEW x \in Worker \ deserted'
        PROVE  Ordered(queue'[x], Closers(x)) /\ (x = w => ~Member(queue'[x], t))
    <3>1. Ordered(queue[x], Closers(x))
      BY <1>3, <2>1
    <3>2. CASE x = w
      <4>1. queue'[x] = RemoveFirst(queue[x], t)
        BY <2>1, <3>2 DEF PoolInv, Queues
      <4> QED
        BY <1>3, <3>1, <3>2, <4>1, LeaveQueue
    <3>3. CASE x # w
      BY <2>1, <3>1, <3>3 DEF PoolInv, Queues
    <3> QED
      BY <3>2, <3>3
  <2> QED
    BY <1>0, <1>1, <1>2, <2>1, <2>2, IdleType, TaskRemembers
<1> QED
  BY <1>4, <1>5, <1>6

\* Who gives a worker up takes it from the pool and is last in its queue, to close it.
LEMMA DiscardRemembers ==
  ASSUME PoolInv, Remembered, NEW c \in Caller, Discard(c),
         task[c].at \in {"queued", "starting", "calling"}
  PROVE  Remembered'
<1> DEFINE w == task[c].uses
           r == [at |-> "close", uses |-> NoWorker, closes |-> w]
<1>1. /\ c \in Task /\ w \in Worker /\ task[c].closes = NoWorker /\ Lock(task[c]) = w
      /\ deserted \subseteq deserted'
      /\ w \in deserted' \/ \A u \in Task : task[u].uses = w => task[u].closes = NoWorker
  BY HeldTypes DEF Task, Shape, Lock, Discard, ComesLate
<1>2. /\ r \in TaskRecord /\ r.uses = NoWorker /\ r.closes = w
      /\ task' = [task EXCEPT ![c] = r]
      /\ queue' = [queue EXCEPT ![w] = Append(RemoveFirst(@, c), c)]
      /\ pool' = [p \in Project |-> IF pool[p].worker = w THEN Vacant ELSE pool[p]]
  BY <1>1 DEF TaskRecord, Discard
<1> HIDE DEF r
<1>3. task'[c] = r /\ \A u \in Task \ {c} : task'[u] = task[u]
  BY <1>1, <1>2, TaskChange DEF PoolInv
<1>4. \A x \in Worker : Closers(x)' = IF x = w THEN Closers(x) \cup {c} ELSE Closers(x)
  <2>1. \A x : Closers(x)' = IF r.closes = x THEN Closers(x) \cup {c} ELSE Closers(x) \ {c}
    BY <1>1, <1>2, ClosersChange
  <2>2. \A x \in Worker : c \notin Closers(x)
    BY <1>1 DEF Closers
  <2> QED
    BY <1>2, <2>1, <2>2
<1>5. \A x \in Worker : Registered(x)' <=> Registered(x) /\ x # w
  BY <1>2, VacantType DEF Registered
<1>6. \A x \in Worker : Alive(x)' => Alive(x)
  <2>1. worker' = worker \/ worker' = [worker EXCEPT ![w].unfinished = @ \cup {c}]
    BY DEF Discard
  <2> QED
    BY <1>1, <2>1 DEF Alive, PoolInv, Typed, WorkerRecord
<1>7. \A x \in Worker : Registered(x)' => Closers(x)' = {}
  BY <1>4, <1>5 DEF Remembered
<1>8. \A u \in Task : Kept(u)'
  <2> SUFFICES ASSUME NEW u \in Task, task'[u].closes # NoWorker, task'[u].uses # NoWorker
               PROVE  \/ \E p \in Project : pool'[p].worker = task'[u].uses
                      \/ task'[u].uses \in deserted'
    BY DEF Kept, Registered
  <2>1. u # c /\ task'[u] = task[u]
    BY <1>2, <1>3
  <2>2. task[u].uses \in deserted' \/ (Registered(task[u].uses) /\ task[u].uses # w)
    BY <1>1, <2>1 DEF Remembered, Kept
  <2> QED
    BY <1>2, <2>1, <2>2 DEF Registered
<1>9. ASSUME NEW x \in Worker \ deserted', NEW u \in Task, task'[u].uses = x
      PROVE  Registered(x)' \/ Closers(x)' # {}
  <2>1. task[u].uses = x
    BY <1>2, <1>3, <1>9
  <2> QED
    BY <1>1, <1>4, <1>5, <2>1 DEF Remembered
<1>10. \A x \in Worker \ deserted' : Alive(x)' => Registered(x)' \/ Closers(x)' # {}
  BY <1>1, <1>4, <1>5, <1>6 DEF Remembered
<1>11. ASSUME NEW x \in Worker \ deserted' PROVE Ordered(queue'[x], Closers(x)')
  <2>1. Ordered(queue[x], Closers(x)) /\ queue[x] \in Seq(Task) /\ Unique(queue[x])
        /\ (Member(queue[x], c) <=> x = w)
    BY <1>1, HeldTypes DEF Remembered
  <2>2. CASE x = w
    <3> DEFINE q == RemoveFirst(queue[x], c)
    <3>1. /\ q \in Seq(Task) /\ Unique(q) /\ Ordered(q, Closers(x))
          /\ \A u : Member(q, u) <=> Member(queue[x], u) /\ u # c
      BY <2>1, <2>2, LeaveQueue
    <3>2. queue'[x] = Append(q, c)
      BY <1>2, <2>2 DEF PoolInv, Queues
    <3> HIDE DEF q
    <3>3. Ordered(q, Closers(x)') /\ c \in Closers(x)'
      <4>1. \A u : Member(q, u) => (u \in Closers(x) <=> u \in Closers(x)')
        BY <1>4, <3>1
      <4> QED
        BY <1>4, <2>2, <3>1, <4>1, OrderOfMembers
    <3>4. ~Member(q, c)
      BY <3>1
    <3> QED
      BY <1>1, <3>1, <3>2, <3>3, <3>4, JoinQueue
  <2>3. CASE x # w
    BY <1>2, <1>4, <2>1, <2>3 DEF PoolInv, Queues
  <2> QED
    BY <2>2, <2>3
<1>12. \A x \in Worker \ deserted' : Ordered(queue'[x], Closers(x)')
  BY <1>11
<1> QED
  BY <1>7, <1>8, <1>9, <1>10, <1>12 DEF Remembered

\* A new worker takes the place of the one that its maker closes.
LEMMA NewsWorkerRemembers ==
  ASSUME PoolInv, Remembered, NEW c \in Caller, NEW s \in ProjectSpec,
         NewsWorker(c, s)
  PROVE  Remembered'
<1> DEFINE stale == pool[s.project].worker
           lock == IF stale = NoWorker THEN Fresh ELSE stale
           r == [at |-> IF stale = NoWorker THEN "queued" ELSE "close",
                 uses |-> Fresh, closes |-> stale]
<1>1. s.project \in Project /\ c \in Task
  BY DEF ProjectSpec, Task
<1>2. Fresh \in Worker /\ Unreferenced(Fresh)
  BY FreshType DEF NewsWorker
<1>3. stale \in Worker \cup {NoWorker} /\ lock \in Worker /\ stale # Fresh
  BY <1>1, <1>2, PooledType DEF PoolInv, Unreferenced, Registered
<1>4. /\ deserted \ {Fresh} \subseteq deserted'
      /\ \/ stale \in deserted' \/ stale = NoWorker
         \/ \A u \in Task : task[u].uses = stale => task[u].closes = NoWorker
  BY <1>3 DEF NewsWorker, ComesLate
<1>5. r \in TaskRecord /\ r.uses = Fresh /\ r.closes = stale
  BY <1>2, <1>3 DEF TaskRecord
<1>6. /\ task' = [task EXCEPT ![c] = r] /\ queue' = [queue EXCEPT ![lock] = Append(@, c)]
      /\ worker' = [worker EXCEPT ![Fresh] = NewWorker(s.project)]
      /\ pool' = [pool EXCEPT ![s.project] = [worker |-> Fresh, version |-> s.version]]
  BY DEF NewsWorker
<1>7. Lock(task[c]) = NoWorker /\ task[c].closes = NoWorker
  BY <1>1, HeldTypes DEF NewsWorker, At, Shape, Lock
<1>8. ASSUME NEW x \in Worker
      PROVE  Registered(x)' <=> x = Fresh \/ (Registered(x) /\ x # stale)
  <2>1. /\ pool'[s.project].worker = Fresh
        /\ \A p \in Project \ {s.project} : pool'[p] = pool[p]
    BY <1>1, <1>6 DEF PoolInv, Typed
  <2>2. \A p \in Project : pool[p].worker = x => worker[x].project = p
    BY DEF PoolInv, Names
  <2> QED
    BY <1>1, <2>1, <2>2 DEF Registered
<1> HIDE DEF r
<1>9. task'[c] = r /\ \A u \in Task \ {c} : task'[u] = task[u]
  BY <1>1, <1>5, <1>6, TaskChange DEF PoolInv
<1>10. \A x \in Worker : Closers(x)' = IF x = stale THEN Closers(x) \cup {c} ELSE Closers(x)
  <2>1. \A x : Closers(x)' = IF r.closes = x THEN Closers(x) \cup {c} ELSE Closers(x) \ {c}
    BY <1>1, <1>5, <1>6, ClosersChange
  <2>2. \A x \in Worker : c \notin Closers(x)
    BY <1>7 DEF Closers
  <2> QED
    BY <1>5, <2>1, <2>2
<1>11. Closers(Fresh) = {} /\ ~Alive(Fresh)
  BY <1>2 DEF Unreferenced, Closers
<1>12. \A x \in Worker : Alive(x)' => Alive(x)
  BY <1>2, <1>6 DEF Alive, PoolInv, Typed, NewWorker
<1> HIDE DEF stale, lock
<1>13. \A x \in Worker : Registered(x)' => Closers(x)' = {}
  BY <1>3, <1>8, <1>10, <1>11 DEF Remembered
<1>14. \A u \in Task : Kept(u)'
  <2> SUFFICES ASSUME NEW u \in Task, task'[u].closes # NoWorker, task'[u].uses # NoWorker
               PROVE  \/ \E p \in Project : pool'[p].worker = task'[u].uses
                      \/ task'[u].uses \in deserted'
    BY DEF Kept, Registered
  <2>1. ASSUME NEW x \in Worker, x = task'[u].uses, Registered(x)'
        PROVE  \E p \in Project : pool'[p].worker = task'[u].uses
    BY <2>1 DEF Registered
  <2>2. CASE u = c
    BY <1>2, <1>5, <1>8, <1>9, <2>1, <2>2
  <2>3. CASE u # c
    <3>1. task'[u] = task[u] /\ task[u].uses # Fresh
          /\ (Registered(task[u].uses) \/ task[u].uses \in deserted)
      BY <1>2, <1>9, <2>3 DEF Remembered, Kept, Unreferenced
    <3>2. task[u].uses \in Worker
      BY <3>1, TaskTypes DEF PoolInv
    <3>3. task[u].uses \in deserted' \/ (Registered(task[u].uses) /\ task[u].uses # stale)
      BY <1>4, <3>1
    <3> QED
      BY <1>8, <2>1, <3>1, <3>2, <3>3
  <2> QED
    BY <2>2, <2>3
<1>15. ASSUME NEW x \in Worker \ deserted', NEW u \in Task, task'[u].uses = x
       PROVE  Registered(x)' \/ Closers(x)' # {}
  <2>1. x = Fresh \/ (x \notin deserted /\ task[u].uses = x)
    BY <1>4, <1>5, <1>9, <1>15
  <2> QED
    BY <1>8, <1>10, <2>1 DEF Remembered
<1>16. \A x \in Worker \ deserted' : Alive(x)' => Registered(x)' \/ Closers(x)' # {}
  BY <1>4, <1>8, <1>10, <1>12 DEF Remembered
<1>17. ASSUME NEW x \in Worker \ deserted' PROVE Ordered(queue'[x], Closers(x)')
  <2>0. Ordered(queue[x], Closers(x))
    <3>1. CASE x = Fresh
      BY <1>11, <3>1 DEF Ordered
    <3>2. CASE x # Fresh
      BY <1>4, <3>2 DEF Remembered
    <3> QED
      BY <3>1, <3>2
  <2>1. Ordered(queue[x], Closers(x)) /\ queue[x] \in Seq(Task) /\ Unique(queue[x])
        /\ ~Member(queue[x], c)
    BY <1>1, <1>7, <2>0, HeldTypes
  <2>2. Ordered(queue[x], Closers(x)')
    <3>1. \A u : Member(queue[x], u) => (u \in Closers(x) <=> u \in Closers(x)')
      BY <1>10, <2>1
    <3> QED
      BY <2>1, <3>1, OrderOfMembers
  <2>3. CASE x = lock
    <3>1. queue'[x] = Append(queue[x], c)
      BY <1>6, <2>3 DEF PoolInv, Queues
    <3>2. c \in Closers(x)' \/ Closers(x)' = {}
      BY <1>3, <1>10, <1>11, <2>3 DEF lock
    <3> QED
      BY <1>1, <2>1, <2>2, <3>1, <3>2, JoinQueue
  <2>4. CASE x # lock
    BY <1>6, <2>2, <2>4 DEF PoolInv, Queues
  <2> QED
    BY <2>3, <2>4
<1>18. \A x \in Worker \ deserted' : Ordered(queue'[x], Closers(x)')
  BY <1>17
<1> QED
  BY <1>13, <1>14, <1>15, <1>16, <1>18 DEF Remembered

\* The manager takes all workers from the pool, and a task of its own closes each.
LEMMA ManagerRemembers == ASSUME PoolInv, Remembered, ManagerCloses PROVE Remembered'
<1>1. /\ \A t \in Task : task[t] = Idle
      /\ \A w \in Worker : queue[w] = <<>>
      /\ Idle.uses = NoWorker /\ Idle.closes = NoWorker
  BY AllIdle DEF Idle
<1>2. \A w \in Worker : ~Registered(w)'
  BY VacantType DEF ManagerCloses, Registered
<1>3. \A t \in Task : task'[t].uses = NoWorker
  BY <1>1 DEF ManagerCloses
<1>4. UNCHANGED deserted
  BY DEF ManagerCloses
<1>5. ASSUME NEW w \in Worker \ deserted, Alive(w)' PROVE Closers(w)' # {}
  <2>1. Registered(w)
    BY <1>1, <1>5 DEF ManagerCloses, Alive, Remembered, Closers
  <2>2. PICK p \in Project : pool[p].worker = w
    BY <2>1 DEF Registered
  <2>3. pool[p] # Vacant /\ p \in Task
    BY <2>2, VacantType DEF Task
  <2>4. task'[p].closes = w
    BY <2>2, <2>3 DEF ManagerCloses
  <2> QED
    BY <2>3, <2>4 DEF Closers
<1>6. ASSUME NEW w \in Worker PROVE Ordered(queue'[w], Closers(w)')
  <2>1. queue'[w] = <<>> \/ queue'[w] = Append(<<>>, worker[w].project)
    BY <1>1 DEF ManagerCloses
  <2>2. Len(<<>>) = 0 /\ Len(Append(<<>>, worker[w].project)) = 1
    OBVIOUS
  <2>3. Len(queue'[w]) \in {0, 1}
    BY <2>1, <2>2
  <2> QED
    BY <2>3 DEF Ordered
<1>7. \A w \in Worker : Ordered(queue'[w], Closers(w)')
  BY <1>6
<1> QED
  BY <1>2, <1>3, <1>5, <1>7, <1>4 DEF Remembered, Kept

\* The owner of a registered worker, or of one that some task closes, lives or is made by a call.
LEMMA OwnersRemember ==
  ASSUME PoolInv, Remembered, NEW w \in Worker, OwnerStep(w) \/ Breaks(w) PROVE Remembered'
<1>1. UNCHANGED <<pool, queue, task, deserted>>
  BY DEF OwnerStep, OwnerReady, StartupFails, ShutsDown, Breaks, OwnerEnds
<1>2. \A x \in Worker : Alive(x)' => Alive(x)
  <2>1. CASE OwnerReady(w)
    BY <2>1 DEF OwnerReady, Alive, PoolInv, Typed
  <2>2. CASE OwnerEnds(w)
    BY <2>2 DEF OwnerEnds, Alive, PoolInv, Typed, WorkerRecord
  <2> QED
    BY <2>1, <2>2 DEF OwnerStep, StartupFails, ShutsDown, Breaks
<1>3. \A x : Closers(x)' = Closers(x) /\ (Registered(x)' <=> Registered(x))
  BY <1>1 DEF Closers, Registered
<1>4. \A t \in Task : Kept(t)' <=> Kept(t)
  BY <1>1 DEF Kept, Registered
<1> QED
  BY <1>1, <1>2, <1>3, <1>4 DEF Remembered

LEMMA RememberedStarts == PoolInit => Remembered
<1> SUFFICES ASSUME PoolInit PROVE Remembered
  OBVIOUS
<1>1. /\ \A t \in Task : task[t].uses = NoWorker /\ task[t].closes = NoWorker
      /\ \A w \in Worker : queue[w] = <<>> /\ ~Alive(w) /\ ~Registered(w)
  BY VacantType DEF PoolInit, Idle, NewWorker, Alive, Registered
<1> QED
  BY <1>1 DEF Remembered, Kept, Closers, Ordered

LEMMA RememberedKept == PoolInv /\ Remembered /\ [PoolNext]_poolVars => Remembered'
<1> SUFFICES ASSUME PoolInv, Remembered, [PoolNext]_poolVars PROVE Remembered'
  OBVIOUS
<1>1. ASSUME NEW c \in Caller, StartupFailed(c) \/ CallFails(c) \/ Cancelled(c) PROVE Remembered'
  BY <1>1, DiscardRemembers DEF StartupFailed, CallFails, Cancelled, At
<1>2. ASSUME NEW c \in Caller, NEW s \in ProjectSpec, GetsWorker(c, s) \/ NewsWorker(c, s)
      PROVE  Remembered'
  BY <1>2, CallsRemember, NewsWorkerRemembers
<1>3. ASSUME NEW t \in Task, TaskStep(t) PROVE Remembered'
  BY <1>1, <1>3, CallsRemember, ClosingRemembers DEF TaskStep, CallerStep
<1>4. ASSUME NEW c \in Caller, CancelClose(c) PROVE Remembered'
  BY <1>4, ClosingRemembers DEF Task
<1>5. CASE UNCHANGED poolVars
  <2>1. \A x : /\ Closers(x)' = Closers(x) /\ (Registered(x)' <=> Registered(x))
               /\ (Alive(x)' <=> Alive(x))
    BY <1>5 DEF poolVars, Closers, Registered, Alive
  <2>2. UNCHANGED <<task, queue, pool, deserted>>
    BY <1>5 DEF poolVars
  <2>3. \A t \in Task : Kept(t)' <=> Kept(t)
    BY <2>2 DEF Kept, Registered
  <2> QED
    BY <2>1, <2>2, <2>3 DEF Remembered
<1> QED
  BY <1>1, <1>2, <1>3, <1>4, <1>5, OwnersRemember, ManagerRemembers DEF PoolNext

\* However many requests share, discard and replace the workers of however many projects, in
\* whatever order they fail, time out and are cancelled: a child that lives is in the pool or some
\* task is about to close it, as _discard takes a worker from the pool before it queues for its
\* lock.  The code loses a child in two orders of events and in no other: its last closer is
\* cancelled in the queue, or its worker leaves the pool while the request that registered it still
\* closes the stale one (_get_worker).
THEOREM NoOtherWorkerForgotten == PoolSpec => []OnlyDesertedAreForgotten
<1>1. PoolInv /\ Remembered => OnlyDesertedAreForgotten
  BY DEF Remembered, Closers, OnlyDesertedAreForgotten
<1>2. PoolInv /\ Remembered /\ [PoolNext]_poolVars => (PoolInv /\ Remembered)'
  BY InvKept, RememberedKept
<1> QED
  BY <1>1, <1>2, InvStarts, RememberedStarts, PTL DEF PoolSpec
=============================================================================
