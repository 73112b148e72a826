------------------------ MODULE BridgeServiceProofs ------------------------
(***************************************************************************)
(* Theorems about BridgeService for every set of projects, sessions,       *)
(* operations and reconcilers, every assignment of identities, and with or *)
(* without the rare faults.                                                *)
(***************************************************************************)
EXTENDS BridgeService, TLAPS

(* Types. *)

\* OPERATION_TRANSITIONS leads from states to states.
LEMMA TransitionsTyped ==
  ASSUME NEW from \in OperationState
  PROVE  OperationTransitions(from) \subseteq OperationState
BY DEF OperationTransitions, OperationState

\* _refresh_project_registry keeps the registry and the sessions well-typed.
LEMMA RefreshTyped ==
  ASSUME TypeOK, Refresh
  PROVE  registered' \subseteq Project /\ status' \in [Session -> SessionStatus]
BY DEF TypeOK, Refresh, Revoked, SessionStatus

\* A new database and a new process are well-typed.
LEMMA TypeInit == Init => TypeOK
BY DEF Init, TypeOK, SessionStatus, OperationState, AllKinds, Points

\* Every step of the Bridge and of its environment keeps every variable typed.
LEMMA TypeStep ==
  ASSUME TypeOK, [Next]_vars
  PROVE  TypeOK'
<1> USE DEF TypeOK, registryVars, sessionVars, rowVars, effectVars, recVars
<1>1. ASSUME RefreshRegistry PROVE TypeOK'
  BY <1>1, RefreshTyped DEF RefreshRegistry
<1>2. ASSUME NEW s \in Session, NEW p \in Project, ProjectOpen(s, p) PROVE
      TypeOK'
  BY <1>2 DEF ProjectOpen, Refresh, Revoked, SessionStatus
<1>3. ASSUME NEW o \in Op, NEW p \in Project, NEW s \in Session, NEW k \in
      Kinds, Start(o, p, s, k) PROVE TypeOK'
  BY <1>3, RefreshTyped, KindsAssumption DEF Start, Continue, AllKinds,
     OperationState, Points, Suspended, Holding
<1>4. ASSUME NEW o \in Op, Confirm(o) PROVE TypeOK'
  BY <1>4, RefreshTyped DEF Confirm, OwnedAwaiting, Continue, Points, Holding
<1>5. ASSUME NEW o \in Op, CancelApproval(o) PROVE TypeOK'
  BY <1>5, RefreshTyped DEF CancelApproval, OwnedAwaiting, Continue, Points,
     Holding
<1>6. ASSUME NEW o \in Op, NEW s \in Session, ReconcileFailed(o, s) PROVE
      TypeOK'
  BY <1>6, RefreshTyped, TransitionsTyped DEF ReconcileFailed, Transition
<1>7. ASSUME NEW r \in Reconciler, NEW o \in Op, NEW s \in Session,
      ReconcileSucceeded(r, o, s) PROVE TypeOK'
  BY <1>7, RefreshTyped DEF ReconcileSucceeded, RecSuspend
<1>8. ASSUME NEW o \in Op, Validate(o) PROVE TypeOK'
  BY <1>8, TransitionsTyped DEF Validate, TransitionFrom, Transition,
     Continue, Points, Holding
<1>9. ASSUME NEW o \in Op, Authorize(o) PROVE TypeOK'
  BY <1>9, RefreshTyped DEF Authorize, Continue, Suspend, Points, Holding,
     Suspended
<1>10. ASSUME NEW o \in Op, AuthorizeFails(o) PROVE TypeOK'
  BY <1>10, RefreshTyped, TransitionsTyped DEF AuthorizeFails, Transition,
     Answer, Points
<1>11. ASSUME NEW o \in Op, CheckPasses(o) PROVE TypeOK'
  BY <1>11 DEF CheckPasses, Continue, Points, Holding
<1>12. ASSUME NEW o \in Op, CheckFails(o) PROVE TypeOK'
  BY <1>12, TransitionsTyped DEF CheckFails, Transition, Answer, Points
<1>13. ASSUME NEW o \in Op, IssueApproval(o) PROVE TypeOK'
  BY <1>13 DEF IssueApproval, Continue, Points, Holding
<1>14. ASSUME NEW o \in Op, AwaitApproval(o) PROVE TypeOK'
  BY <1>14, TransitionsTyped DEF AwaitApproval, TransitionFrom, Transition,
     Answer, Points
<1>15. ASSUME NEW o \in Op, CancelOperation(o) PROVE TypeOK'
  BY <1>15, TransitionsTyped DEF CancelOperation, Transition, Answer, Points
<1>16. ASSUME NEW o \in Op, Dispatch(o) PROVE TypeOK'
  BY <1>16, TransitionsTyped DEF Dispatch, TransitionFrom, Transition,
     Continue, Points, Holding
<1>17. ASSUME NEW o \in Op, Run(o) PROVE TypeOK'
  BY <1>17, TransitionsTyped DEF Run, TransitionFrom, Transition, Continue,
     Points, Holding
<1>18. ASSUME NEW o \in Op, EnterBody(o) PROVE TypeOK'
  BY <1>18, RefreshTyped DEF EnterBody, Suspend, Points, Suspended
<1>19. ASSUME NEW o \in Op, BodyRefused(o) PROVE TypeOK'
  BY <1>19, RefreshTyped, TransitionsTyped DEF BodyRefused, Transition,
     Answer, Points
<1>20. ASSUME NEW o \in Op, AcquireLock(o) PROVE TypeOK'
  BY <1>20 DEF AcquireLock, Suspend, Points, Suspended
<1>21. ASSUME NEW o \in Op, ReadReturns(o) PROVE TypeOK'
  BY <1>21, TransitionsTyped DEF ReadReturns, BodyEnds, Transition, Answer,
     Points
<1>22. ASSUME NEW o \in Op, PrecheckFails(o) PROVE TypeOK'
  BY <1>22, TransitionsTyped DEF PrecheckFails, BodyEnds, Transition, Answer,
     Points
<1>23. ASSUME NEW o \in Op, TakeCheckpoint(o) PROVE TypeOK'
  BY <1>23 DEF TakeCheckpoint, Continue, Suspend, Points, Holding, Suspended
<1>24. ASSUME NEW o \in Op, ActionRefused(o) PROVE TypeOK'
  BY <1>24, TransitionsTyped DEF ActionRefused, BodyEnds, Transition, Answer,
     Points
<1>25. ASSUME NEW o \in Op, MoveTimesOut(o) PROVE TypeOK'
  BY <1>25, TransitionsTyped DEF MoveTimesOut, Transition, Answer, Points
<1>26. ASSUME NEW o \in Op, Act(o) PROVE TypeOK'
  BY <1>26 DEF Act, Suspend, Points, Suspended
<1>27. ASSUME NEW o \in Op, OutcomeUncertain(o) PROVE TypeOK'
  BY <1>27, TransitionsTyped DEF OutcomeUncertain, BodyEnds, Transition,
     Answer, Points
<1>28. ASSUME NEW o \in Op, CommandFails(o) PROVE TypeOK'
  BY <1>28, TransitionsTyped DEF CommandFails, BodyEnds, Transition, Answer,
     Points
<1>29. ASSUME NEW o \in Op, StoreFails(o) PROVE TypeOK'
  BY <1>29, TransitionsTyped DEF StoreFails, BodyEnds, Transition, Answer,
     Points
<1>30. ASSUME NEW o \in Op, Finalize(o) PROVE TypeOK'
  BY <1>30 DEF Finalize, Continue, Points, Holding
<1>31. ASSUME NEW o \in Op, Finish(o) PROVE TypeOK'
  BY <1>31, TransitionsTyped DEF Finish, Transition, Answer, Points
<1>32. ASSUME NEW r \in Reconciler, RecAcquire(r) PROVE TypeOK'
  BY <1>32 DEF RecAcquire, RecSuspend, RecAnswer
<1>33. ASSUME NEW r \in Reconciler, RecVerifyFails(r) PROVE TypeOK'
  BY <1>33 DEF RecVerifyFails, RecSuspend, RecAnswer
<1>34. ASSUME NEW r \in Reconciler, RecRecord(r) PROVE TypeOK'
  BY <1>34 DEF RecRecord
<1>35. ASSUME NEW r \in Reconciler, RecFinish(r) PROVE TypeOK'
  BY <1>35, TransitionsTyped DEF RecFinish, Transition, RecSuspend, RecAnswer
<1>36. ASSUME NEW r \in Reconciler, RecCancel(r) PROVE TypeOK'
  BY <1>36 DEF RecCancel, RecSuspend, RecAnswer
<1>37. ASSUME NEW s \in Session, SessionCreated(s) PROVE TypeOK'
  BY <1>37 DEF SessionCreated, SessionStatus
<1>38. ASSUME NEW s \in Session, OpenFails(s) PROVE TypeOK'
  BY <1>38 DEF OpenFails, SessionStatus
<1>39. ASSUME NEW s \in Session, CloseSession(s) PROVE TypeOK'
  BY <1>39 DEF CloseSession, SessionStatus
<1>40. ASSUME FinishShutdown PROVE TypeOK'
  BY <1>40 DEF FinishShutdown
<1>41. ASSUME NEW p \in Project, Configure(p) PROVE TypeOK'
  BY <1>41 DEF Configure
<1>42. ASSUME NEW o \in Op, Cancel(o) PROVE TypeOK'
  BY <1>42, TransitionsTyped DEF Cancel, CancelLeavesState, Transition,
     Answer, Points
<1>43. ASSUME NEW o \in Op, StrayEnds(o) PROVE TypeOK'
  BY <1>43 DEF StrayEnds
<1>44. ASSUME BeginShutdown PROVE TypeOK'
  BY <1>44 DEF BeginShutdown
<1>45. ASSUME Crash PROVE TypeOK'
  BY <1>45 DEF Crash, Points, SessionStatus
<1>46. ASSUME BridgeStart PROVE TypeOK'
  BY <1>46 DEF BridgeStart, RecoveredSession, RecoveredState,
     RecoveredApproval, SessionStatus, OperationState
<1>47. CASE UNCHANGED vars
  BY <1>47 DEF vars
<1> QED
  BY <1>1, <1>2, <1>3, <1>4, <1>5, <1>6, <1>7, <1>8, <1>9, <1>10, <1>11,
     <1>12, <1>13, <1>14, <1>15, <1>16, <1>17, <1>18, <1>19, <1>20, <1>21,
     <1>22, <1>23, <1>24, <1>25, <1>26, <1>27, <1>28, <1>29, <1>30, <1>31,
     <1>32, <1>33, <1>34, <1>35, <1>36, <1>37, <1>38, <1>39, <1>40, <1>41,
     <1>42, <1>43, <1>44, <1>45, <1>46, <1>47 DEF Next, Request, HandlerStep,
     ReconcilerStep, OpenStep, ShutdownStep, Environment

\* Every variable always holds a value of its kind: no row is ever written with
\* a state outside OPERATION_STATES or SESSION_STATUSES.
THEOREM TypeCorrect == Spec => []TypeOK
BY TypeInit, TypeStep, PTL DEF Spec

-----------------------------------------------------------------------------
(* What a step does to the rows.  Only Start makes an operation active, and  *)
(* only Run leads from the states before the body to those after it.         *)

BeforeRun == {"free", "received", "validated", "awaiting_approval", "dispatched"}

Frame ==
  /\ UNCHANGED <<rowVars, runs>>
  /\ \A o \in Op : state'[o] \in ActiveMutationStates => state[o] \in ActiveMutationStates
  /\ \A o \in Op : state'[o] \in BeforeRun => state[o] \in BeforeRun

\* No other step writes kind, project or session of a row, counts a run, makes a
\* settled operation active again or takes one back to before its body.
LEMMA FrameStep ==
  ASSUME TypeOK, [Next]_vars,
         ~ \E o \in Op, p \in Project, s \in Session, k \in Kinds : Start(o, p, s, k),
         ~ \E o \in Op : Run(o)
  PROVE  Frame
<1> USE DEF TypeOK, Frame, BeforeRun, ActiveMutationStates, OperationTransitions,
            registryVars, sessionVars, rowVars, effectVars, recVars
<1>1. ASSUME RefreshRegistry PROVE Frame
  BY <1>1 DEF RefreshRegistry
<1>2. ASSUME NEW s \in Session, NEW p \in Project, ProjectOpen(s, p) PROVE
      Frame
  BY <1>2 DEF ProjectOpen
<1>3. ASSUME NEW o \in Op, Confirm(o) PROVE Frame
  BY <1>3 DEF Confirm
<1>4. ASSUME NEW o \in Op, CancelApproval(o) PROVE Frame
  BY <1>4 DEF CancelApproval
<1>5. ASSUME NEW o \in Op, NEW s \in Session, ReconcileFailed(o, s) PROVE
      Frame
  BY <1>5 DEF ReconcileFailed, Transition
<1>6. ASSUME NEW r \in Reconciler, NEW o \in Op, NEW s \in Session,
      ReconcileSucceeded(r, o, s) PROVE Frame
  BY <1>6 DEF ReconcileSucceeded
<1>7. ASSUME NEW o \in Op, Validate(o) PROVE Frame
  BY <1>7 DEF Validate, TransitionFrom, Transition
<1>8. ASSUME NEW o \in Op, Authorize(o) PROVE Frame
  BY <1>8 DEF Authorize
<1>9. ASSUME NEW o \in Op, AuthorizeFails(o) PROVE Frame
  BY <1>9 DEF AuthorizeFails, Transition
<1>10. ASSUME NEW o \in Op, CheckPasses(o) PROVE Frame
  BY <1>10 DEF CheckPasses
<1>11. ASSUME NEW o \in Op, CheckFails(o) PROVE Frame
  BY <1>11 DEF CheckFails, Transition
<1>12. ASSUME NEW o \in Op, IssueApproval(o) PROVE Frame
  BY <1>12 DEF IssueApproval
<1>13. ASSUME NEW o \in Op, AwaitApproval(o) PROVE Frame
  BY <1>13 DEF AwaitApproval, TransitionFrom, Transition
<1>14. ASSUME NEW o \in Op, CancelOperation(o) PROVE Frame
  BY <1>14 DEF CancelOperation, Transition
<1>15. ASSUME NEW o \in Op, Dispatch(o) PROVE Frame
  BY <1>15 DEF Dispatch, TransitionFrom, Transition
<1>16. ASSUME NEW o \in Op, EnterBody(o) PROVE Frame
  BY <1>16 DEF EnterBody
<1>17. ASSUME NEW o \in Op, BodyRefused(o) PROVE Frame
  BY <1>17 DEF BodyRefused, Transition
<1>18. ASSUME NEW o \in Op, AcquireLock(o) PROVE Frame
  BY <1>18 DEF AcquireLock
<1>19. ASSUME NEW o \in Op, ReadReturns(o) PROVE Frame
  BY <1>19 DEF ReadReturns, BodyEnds, Transition
<1>20. ASSUME NEW o \in Op, PrecheckFails(o) PROVE Frame
  BY <1>20 DEF PrecheckFails, BodyEnds, Transition
<1>21. ASSUME NEW o \in Op, TakeCheckpoint(o) PROVE Frame
  BY <1>21 DEF TakeCheckpoint
<1>22. ASSUME NEW o \in Op, ActionRefused(o) PROVE Frame
  BY <1>22 DEF ActionRefused, BodyEnds, Transition
<1>23. ASSUME NEW o \in Op, MoveTimesOut(o) PROVE Frame
  BY <1>23 DEF MoveTimesOut, Transition
<1>24. ASSUME NEW o \in Op, Act(o) PROVE Frame
  BY <1>24 DEF Act
<1>25. ASSUME NEW o \in Op, OutcomeUncertain(o) PROVE Frame
  BY <1>25 DEF OutcomeUncertain, BodyEnds, Transition
<1>26. ASSUME NEW o \in Op, CommandFails(o) PROVE Frame
  BY <1>26 DEF CommandFails, BodyEnds, Transition
<1>27. ASSUME NEW o \in Op, StoreFails(o) PROVE Frame
  BY <1>27 DEF StoreFails, BodyEnds, Transition
<1>28. ASSUME NEW o \in Op, Finalize(o) PROVE Frame
  BY <1>28 DEF Finalize
<1>29. ASSUME NEW o \in Op, Finish(o) PROVE Frame
  BY <1>29 DEF Finish, Transition
<1>30. ASSUME NEW r \in Reconciler, RecAcquire(r) PROVE Frame
  BY <1>30 DEF RecAcquire
<1>31. ASSUME NEW r \in Reconciler, RecVerifyFails(r) PROVE Frame
  BY <1>31 DEF RecVerifyFails
<1>32. ASSUME NEW r \in Reconciler, RecRecord(r) PROVE Frame
  BY <1>32 DEF RecRecord
<1>33. ASSUME NEW r \in Reconciler, RecFinish(r) PROVE Frame
  BY <1>33 DEF RecFinish, Transition
<1>34. ASSUME NEW r \in Reconciler, RecCancel(r) PROVE Frame
  BY <1>34 DEF RecCancel
<1>35. ASSUME NEW s \in Session, SessionCreated(s) PROVE Frame
  BY <1>35 DEF SessionCreated
<1>36. ASSUME NEW s \in Session, OpenFails(s) PROVE Frame
  BY <1>36 DEF OpenFails
<1>37. ASSUME NEW s \in Session, CloseSession(s) PROVE Frame
  BY <1>37 DEF CloseSession
<1>38. ASSUME FinishShutdown PROVE Frame
  BY <1>38 DEF FinishShutdown
<1>39. ASSUME NEW p \in Project, Configure(p) PROVE Frame
  BY <1>39 DEF Configure
<1>40. ASSUME NEW o \in Op, Cancel(o) PROVE Frame
  BY <1>40 DEF Cancel, Transition
<1>41. ASSUME NEW o \in Op, StrayEnds(o) PROVE Frame
  BY <1>41 DEF StrayEnds
<1>42. ASSUME BeginShutdown PROVE Frame
  BY <1>42 DEF BeginShutdown
<1>43. ASSUME Crash PROVE Frame
  BY <1>43 DEF Crash
<1>44. ASSUME BridgeStart PROVE Frame
  BY <1>44 DEF BridgeStart, RecoveredState
<1>45. CASE UNCHANGED vars
  BY <1>45 DEF vars
<1> QED
  BY <1>1, <1>2, <1>3, <1>4, <1>5, <1>6, <1>7, <1>8, <1>9, <1>10, <1>11,
     <1>12, <1>13, <1>14, <1>15, <1>16, <1>17, <1>18, <1>19, <1>20, <1>21,
     <1>22, <1>23, <1>24, <1>25, <1>26, <1>27, <1>28, <1>29, <1>30, <1>31,
     <1>32, <1>33, <1>34, <1>35, <1>36, <1>37, <1>38, <1>39, <1>40, <1>41,
     <1>42, <1>43, <1>44, <1>45 DEF Next, Request, HandlerStep,
     ReconcilerStep, OpenStep, ShutdownStep, Environment

-----------------------------------------------------------------------------
(* One open mutation for each project. *)

\* create_operation refuses while a mutation of the project is active, and no
\* other step makes an operation active: OneActiveMutation is inductive.
LEMMA OneActiveStep ==
  ASSUME TypeOK, OneActiveMutation, [Next]_vars
  PROVE  OneActiveMutation'
<1> USE DEF TypeOK, OneActiveMutation, rowVars
<1>1. ASSUME NEW o \in Op, NEW p \in Project, NEW s \in Session, NEW k \in Kinds,
             Start(o, p, s, k)
      PROVE  OneActiveMutation'
  <2>1. /\ kind' = [kind EXCEPT ![o] = k]
        /\ project' = [project EXCEPT ![o] = p]
        /\ state' = [state EXCEPT ![o] = "received"]
    BY <1>1 DEF Start
  <2>2. Mutation(k) => ~Blocked(p)
    BY <1>1 DEF Start
  <2>3. CASE ~Mutation(k)
    BY <2>1, <2>3 DEF Mutation
  <2>4. CASE Mutation(k)
    <3>1. \A q \in Op : project[q] = p /\ Mutation(kind[q])
                          => state[q] \notin ActiveMutationStates
      BY <2>2, <2>4 DEF Blocked
    <3> QED
      BY <2>1, <3>1 DEF Mutation
  <2> QED
    BY <2>3, <2>4
<1>2. ASSUME NEW o \in Op, Run(o)
      PROVE  OneActiveMutation'
  BY <1>2 DEF Run, TransitionFrom, Transition, Mutation, ActiveMutationStates
<1>3. CASE Frame
  BY <1>3 DEF Frame, Mutation
<1> QED
  BY <1>1, <1>2, <1>3, FrameStep

\* A project never has two mutations whose outcome is open, for any number of
\* clients, requests, crashes, recoveries and reconciliations.
THEOREM OneActive == Spec => []OneActiveMutation
<1>1. Init => OneActiveMutation
  BY DEF Init, OneActiveMutation, ActiveMutationStates
<1> QED
  BY <1>1, TypeCorrect, OneActiveStep, PTL DEF Spec

-----------------------------------------------------------------------------
(* The body runs at most once. *)

\* The strengthening: an operation before its body has not run.
RunsOnce ==
  \A o \in Op : runs[o] <= 1 /\ (state[o] \in BeforeRun => runs[o] = 0)

\* The body is started from "dispatched" only, and no step leads back to it.
LEMMA RunsOnceStep ==
  ASSUME TypeOK, RunsOnce, [Next]_vars
  PROVE  RunsOnce'
<1> USE DEF TypeOK, RunsOnce, rowVars, BeforeRun
<1>1. ASSUME NEW o \in Op, NEW p \in Project, NEW s \in Session, NEW k \in Kinds,
             Start(o, p, s, k)
      PROVE  RunsOnce'
  BY <1>1 DEF Start, Unseen, effectVars
<1>2. ASSUME NEW o \in Op, Run(o)
      PROVE  RunsOnce'
  BY <1>2 DEF Run, TransitionFrom, Transition
<1>3. CASE Frame
  BY <1>3 DEF Frame
<1> QED
  BY <1>1, <1>2, <1>3, FrameStep

\* The strengthened invariant holds throughout.
LEMMA RunsOnceAlways == Spec => []RunsOnce
<1>1. Init => RunsOnce
  BY DEF Init, RunsOnce
<1> QED
  BY <1>1, TypeCorrect, RunsOnceStep, PTL DEF Spec

\* No replay identity's body is ever started twice: not by a retry, nor by a
\* confirmation, a recovery or a reconciliation.
THEOREM RunAtMostOnce == Spec => []AtMostOnce
<1>1. RunsOnce => AtMostOnce
  BY DEF RunsOnce, AtMostOnce
<1> QED
  BY <1>1, RunsOnceAlways, PTL

-----------------------------------------------------------------------------
(* Approval comes before the body. *)

\* The strengthening: a request that checks whether approval is needed has a
\* "validated" operation (so issuing an approval never takes a consumed one
\* back), a guarded one gets to dispatch only through Confirm, and no request
\* survives its process.
Gate ==
  /\ bridge = "down" => \A o \in Op : pc[o] = "idle"
  /\ \A o \in Op : pc[o] \in {"authorize", "checking", "issue"} => state[o] = "validated"
  /\ \A o \in Op :
       /\ kind[o] \in {"checkpoint", "restore"}
       /\ pc[o] \in {"ready", "dispatched"} \/ runs[o] > 0
       => Confirmed(o)

\* Every step keeps the gate shut.
LEMMA GateStep ==
  ASSUME TypeOK, RunsOnce, Gate, [Next]_vars
  PROVE  Gate'
<1> USE DEF TypeOK, RunsOnce, BeforeRun, Gate, Confirmed,
            registryVars, sessionVars, rowVars, effectVars, recVars
<1>1. ASSUME RefreshRegistry PROVE Gate'
  BY <1>1 DEF RefreshRegistry
<1>2. ASSUME NEW s \in Session, NEW p \in Project, ProjectOpen(s, p) PROVE
      Gate'
  BY <1>2 DEF ProjectOpen
<1>3. ASSUME NEW o \in Op, NEW p \in Project, NEW s \in Session, NEW k \in
      Kinds, Start(o, p, s, k) PROVE Gate'
  BY <1>3 DEF Start, Continue, Unseen, Idle
<1>4. ASSUME NEW o \in Op, Confirm(o) PROVE Gate'
  BY <1>4 DEF Confirm, Continue, OwnedAwaiting, Idle
<1>5. ASSUME NEW o \in Op, CancelApproval(o) PROVE Gate'
  BY <1>5 DEF CancelApproval, Continue, OwnedAwaiting, Idle
<1>6. ASSUME NEW o \in Op, NEW s \in Session, ReconcileFailed(o, s) PROVE
      Gate'
  BY <1>6 DEF ReconcileFailed, Transition, OperationTransitions
<1>7. ASSUME NEW r \in Reconciler, NEW o \in Op, NEW s \in Session,
      ReconcileSucceeded(r, o, s) PROVE Gate'
  BY <1>7 DEF ReconcileSucceeded, RecSuspend
<1>8. ASSUME NEW o \in Op, Validate(o) PROVE Gate'
  BY <1>8 DEF Validate, TransitionFrom, Transition, Continue
<1>9. ASSUME NEW o \in Op, Authorize(o) PROVE Gate'
  BY <1>9 DEF Authorize, Continue, Suspend
<1>10. ASSUME NEW o \in Op, AuthorizeFails(o) PROVE Gate'
  BY <1>10 DEF AuthorizeFails, Transition, Answer
<1>11. ASSUME NEW o \in Op, CheckPasses(o) PROVE Gate'
  BY <1>11 DEF CheckPasses, Continue
<1>12. ASSUME NEW o \in Op, CheckFails(o) PROVE Gate'
  BY <1>12 DEF CheckFails, Transition, Answer
<1>13. ASSUME NEW o \in Op, IssueApproval(o) PROVE Gate'
  BY <1>13 DEF IssueApproval, Continue
<1>14. ASSUME NEW o \in Op, AwaitApproval(o) PROVE Gate'
  BY <1>14 DEF AwaitApproval, TransitionFrom, Transition, Answer
<1>15. ASSUME NEW o \in Op, CancelOperation(o) PROVE Gate'
  BY <1>15 DEF CancelOperation, Transition, Answer
<1>16. ASSUME NEW o \in Op, Dispatch(o) PROVE Gate'
  BY <1>16 DEF Dispatch, TransitionFrom, Transition, Continue
<1>17. ASSUME NEW o \in Op, Run(o) PROVE Gate'
  BY <1>17 DEF Run, TransitionFrom, Transition, Continue
<1>18. ASSUME NEW o \in Op, EnterBody(o) PROVE Gate'
  BY <1>18 DEF EnterBody, Suspend
<1>19. ASSUME NEW o \in Op, BodyRefused(o) PROVE Gate'
  BY <1>19 DEF BodyRefused, Transition, Answer
<1>20. ASSUME NEW o \in Op, AcquireLock(o) PROVE Gate'
  BY <1>20 DEF AcquireLock, Suspend
<1>21. ASSUME NEW o \in Op, ReadReturns(o) PROVE Gate'
  BY <1>21 DEF ReadReturns, BodyEnds, Transition, Answer
<1>22. ASSUME NEW o \in Op, PrecheckFails(o) PROVE Gate'
  BY <1>22 DEF PrecheckFails, BodyEnds, Transition, Answer
<1>23. ASSUME NEW o \in Op, TakeCheckpoint(o) PROVE Gate'
  BY <1>23 DEF TakeCheckpoint, Continue, Suspend
<1>24. ASSUME NEW o \in Op, ActionRefused(o) PROVE Gate'
  BY <1>24 DEF ActionRefused, BodyEnds, Transition, Answer
<1>25. ASSUME NEW o \in Op, MoveTimesOut(o) PROVE Gate'
  BY <1>25 DEF MoveTimesOut, Transition, Answer
<1>26. ASSUME NEW o \in Op, Act(o) PROVE Gate'
  BY <1>26 DEF Act, Suspend
<1>27. ASSUME NEW o \in Op, OutcomeUncertain(o) PROVE Gate'
  BY <1>27 DEF OutcomeUncertain, BodyEnds, Transition, Answer
<1>28. ASSUME NEW o \in Op, CommandFails(o) PROVE Gate'
  BY <1>28 DEF CommandFails, BodyEnds, Transition, Answer
<1>29. ASSUME NEW o \in Op, StoreFails(o) PROVE Gate'
  BY <1>29 DEF StoreFails, BodyEnds, Transition, Answer
<1>30. ASSUME NEW o \in Op, Finalize(o) PROVE Gate'
  BY <1>30 DEF Finalize, Continue
<1>31. ASSUME NEW o \in Op, Finish(o) PROVE Gate'
  BY <1>31 DEF Finish, Transition, Answer
<1>32. ASSUME NEW r \in Reconciler, RecAcquire(r) PROVE Gate'
  BY <1>32 DEF RecAcquire, RecSuspend, RecAnswer
<1>33. ASSUME NEW r \in Reconciler, RecVerifyFails(r) PROVE Gate'
  BY <1>33 DEF RecVerifyFails, RecSuspend, RecAnswer
<1>34. ASSUME NEW r \in Reconciler, RecRecord(r) PROVE Gate'
  BY <1>34 DEF RecRecord
<1>35. ASSUME NEW r \in Reconciler, RecFinish(r) PROVE Gate'
  BY <1>35 DEF RecFinish, Transition, RecSuspend, RecAnswer,
     OperationTransitions
<1>36. ASSUME NEW r \in Reconciler, RecCancel(r) PROVE Gate'
  BY <1>36 DEF RecCancel, RecSuspend, RecAnswer
<1>37. ASSUME NEW s \in Session, SessionCreated(s) PROVE Gate'
  BY <1>37 DEF SessionCreated
<1>38. ASSUME NEW s \in Session, OpenFails(s) PROVE Gate'
  BY <1>38 DEF OpenFails
<1>39. ASSUME NEW s \in Session, CloseSession(s) PROVE Gate'
  BY <1>39 DEF CloseSession
<1>40. ASSUME FinishShutdown PROVE Gate'
  BY <1>40 DEF FinishShutdown, Quiet
<1>41. ASSUME NEW p \in Project, Configure(p) PROVE Gate'
  BY <1>41 DEF Configure
<1>42. ASSUME NEW o \in Op, Cancel(o) PROVE Gate'
  BY <1>42 DEF Cancel, CancelLeavesState, Transition, Answer, Suspended
<1>43. ASSUME NEW o \in Op, StrayEnds(o) PROVE Gate'
  BY <1>43 DEF StrayEnds
<1>44. ASSUME BeginShutdown PROVE Gate'
  BY <1>44 DEF BeginShutdown
<1>45. ASSUME Crash PROVE Gate'
  BY <1>45 DEF Crash
<1>46. ASSUME BridgeStart PROVE Gate'
  BY <1>46 DEF BridgeStart, RecoveredState, RecoveredApproval
<1>47. CASE UNCHANGED vars
  BY <1>47 DEF vars
<1> QED
  BY <1>1, <1>2, <1>3, <1>4, <1>5, <1>6, <1>7, <1>8, <1>9, <1>10, <1>11,
     <1>12, <1>13, <1>14, <1>15, <1>16, <1>17, <1>18, <1>19, <1>20, <1>21,
     <1>22, <1>23, <1>24, <1>25, <1>26, <1>27, <1>28, <1>29, <1>30, <1>31,
     <1>32, <1>33, <1>34, <1>35, <1>36, <1>37, <1>38, <1>39, <1>40, <1>41,
     <1>42, <1>43, <1>44, <1>45, <1>46, <1>47 DEF Next, Request, HandlerStep,
     ReconcilerStep, OpenStep, ShutdownStep, Environment

\* A manual checkpoint or a rollback has only ever run with its one-time
\* approval consumed.
THEOREM ApprovalGates == Spec => []ApprovedBeforeRun
<1>1. Init => Gate
  BY DEF Init, Gate
<1>2. TypeOK /\ Gate => ApprovedBeforeRun
  BY DEF TypeOK, Gate, ApprovedBeforeRun
<1> QED
  BY <1>1, <1>2, TypeCorrect, RunsOnceAlways, GateStep, PTL DEF Spec

-----------------------------------------------------------------------------
(* The mutation lock excludes. *)

InLock == {"verifying", "recorded"}

\* Steps at which nobody enters the lock.
LockFrame ==
  /\ \A o \in Op : pc'[o] \in Locked => pc[o] \in Locked
  /\ \A r \in Reconciler : /\ recAt'[r] # "idle" => recAt[r] # "idle" /\ recOp'[r] = recOp[r]
                           /\ recAt'[r] \in InLock => recAt[r] \in InLock

\* Only a body that takes the lock, at once or after waiting, and a reconciliation that does
\* so enter it (_mutation_lock).
LEMMA LockFrameStep ==
  ASSUME TypeOK, [Next]_vars,
         ~ \E o \in Op : EnterBody(o) \/ AcquireLock(o),
         ~ \E r \in Reconciler, o \in Op, s \in Session : ReconcileSucceeded(r, o, s),
         ~ \E r \in Reconciler : RecAcquire(r)
  PROVE  LockFrame
<1> USE DEF TypeOK, LockFrame, InLock, Locked, Continue, Suspend, Answer, RecSuspend,
            RecAnswer, registryVars, sessionVars, rowVars, effectVars, recVars
<1>1. ASSUME UNCHANGED <<pc, recVars>> PROVE LockFrame
  BY <1>1
<1>2. ASSUME NEW o \in Op, NEW p \in Project, NEW s \in Session, NEW k \in Kinds,
             Start(o, p, s, k)
      PROVE  LockFrame
  BY <1>2 DEF Start
<1>3. ASSUME NEW o \in Op, Validate(o) \/ Authorize(o) \/ AuthorizeFails(o) \/ CheckPasses(o)
                           \/ CheckFails(o) \/ IssueApproval(o) \/ AwaitApproval(o)
      PROVE  LockFrame
  BY <1>3 DEF Validate, Authorize, AuthorizeFails, CheckPasses, CheckFails, IssueApproval,
     AwaitApproval
<1>4. ASSUME NEW o \in Op, Confirm(o) \/ CancelApproval(o) \/ CancelOperation(o) \/ Dispatch(o)
                           \/ Run(o) \/ BodyRefused(o)
      PROVE  LockFrame
  BY <1>4 DEF Confirm, CancelApproval, CancelOperation, Dispatch, Run, BodyRefused
<1>5. ASSUME NEW o \in Op, NEW point, NEW to, BodyEnds(o, point, to) PROVE LockFrame
  BY <1>5 DEF BodyEnds
<1>6. ASSUME NEW o \in Op, ReadReturns(o) \/ PrecheckFails(o) \/ ActionRefused(o)
                           \/ OutcomeUncertain(o) \/ CommandFails(o) \/ StoreFails(o)
      PROVE  LockFrame
  BY <1>5, <1>6 DEF ReadReturns, PrecheckFails, ActionRefused, OutcomeUncertain, CommandFails,
     StoreFails
<1>7. ASSUME NEW o \in Op, TakeCheckpoint(o) \/ Act(o) \/ Finalize(o) PROVE LockFrame
  BY <1>7 DEF TakeCheckpoint, Act, Finalize
<1>8. ASSUME NEW o \in Op, MoveTimesOut(o) \/ Finish(o) \/ Cancel(o) PROVE LockFrame
  BY <1>8 DEF MoveTimesOut, Finish, Cancel
<1>9. ASSUME NEW r \in Reconciler, RecVerifyFails(r) \/ RecFinish(r) \/ RecCancel(r)
      PROVE  LockFrame
  BY <1>9 DEF RecVerifyFails, RecFinish, RecCancel
<1>10. ASSUME NEW r \in Reconciler, RecRecord(r) PROVE LockFrame
  BY <1>10 DEF RecRecord
<1>11. CASE Crash
  BY <1>11 DEF Crash
<1>12. CASE BridgeStart \/ BeginShutdown \/ ShutdownStep \/ RefreshRegistry
  BY <1>1, <1>12 DEF BridgeStart, BeginShutdown, ShutdownStep, CloseSession, FinishShutdown,
     RefreshRegistry
<1>13. ASSUME NEW s \in Session, OpenStep(s) \/ \E p \in Project : ProjectOpen(s, p)
       PROVE  LockFrame
  BY <1>1, <1>13 DEF OpenStep, SessionCreated, OpenFails, ProjectOpen
<1>14. ASSUME NEW o \in Op, StrayEnds(o) \/ \E s \in Session : ReconcileFailed(o, s)
       PROVE  LockFrame
  BY <1>1, <1>14 DEF StrayEnds, ReconcileFailed
<1>15. ASSUME NEW p \in Project, Configure(p) PROVE LockFrame
  BY <1>1, <1>15 DEF Configure
<1>16. CASE UNCHANGED vars
  BY <1>1, <1>16 DEF vars
<1> QED
  BY <1>2, <1>3, <1>4, <1>6, <1>7, <1>8, <1>9, <1>10, <1>11, <1>12, <1>13, <1>14, <1>15, <1>16
  DEF Next, Request, HandlerStep, ReconcilerStep, Environment

\* The strengthening: what is being reconciled has been started, so no new request changes
\* its project.
ReconcilesStarted ==
  \A r \in Reconciler : recAt[r] # "idle" => recOp[r] \in Op /\ state[recOp[r]] \notin BeforeRun

\* No step takes a reconciled operation back to a state before its body.
LEMMA ReconcilesStartedStep ==
  ASSUME TypeOK, ReconcilesStarted, [Next]_vars
  PROVE  ReconcilesStarted'
<1> USE DEF TypeOK, ReconcilesStarted
<1>1. \A o \in Op : state[o] \notin BeforeRun => state'[o] \notin BeforeRun
  <2>1. ASSUME NEW o \in Op, NEW p \in Project, NEW s \in Session, NEW k \in Kinds,
               Start(o, p, s, k)
        PROVE  \A x \in Op : state[x] \notin BeforeRun => state'[x] \notin BeforeRun
    BY <2>1 DEF Start, Unseen, BeforeRun
  <2>2. ASSUME NEW o \in Op, Run(o)
        PROVE  \A x \in Op : state[x] \notin BeforeRun => state'[x] \notin BeforeRun
    BY <2>2 DEF Run, TransitionFrom, Transition, BeforeRun
  <2>3. Frame => \A x \in Op : state[x] \notin BeforeRun => state'[x] \notin BeforeRun
    BY DEF Frame
  <2> QED
    BY <2>1, <2>2, <2>3, FrameStep
<1>2. CASE LockFrame
  BY <1>1, <1>2 DEF LockFrame
<1>3. ASSUME NEW r \in Reconciler, NEW o \in Op, NEW s \in Session, ReconcileSucceeded(r, o, s)
      PROVE  ReconcilesStarted'
  BY <1>3 DEF ReconcileSucceeded, RecSuspend, BeforeRun
<1>4. ASSUME NEW r \in Reconciler, RecAcquire(r) PROVE ReconcilesStarted'
  BY <1>4 DEF RecAcquire, RecSuspend, RecAnswer
<1>5. ASSUME NEW o \in Op, EnterBody(o) \/ AcquireLock(o) PROVE ReconcilesStarted'
  BY <1>1, <1>5 DEF EnterBody, AcquireLock, recVars
<1> QED
  BY <1>2, <1>3, <1>4, <1>5, LockFrameStep

\* LockExclusion, pair by pair.
Apart ==
  /\ \A o, q \in Op : pc[o] \in Locked /\ pc[q] \in Locked /\ project[o] = project[q]
       /\ project[o] \in Project => o = q
  /\ \A o \in Op, r \in Reconciler : pc[o] \in Locked /\ recAt[r] \in InLock
       /\ project[o] \in Project => project[o] # project[recOp[r]]
  /\ \A r, t \in Reconciler : recAt[r] \in InLock /\ recAt[t] \in InLock
       /\ project[recOp[r]] = project[recOp[t]] /\ project[recOp[r]] \in Project => r = t

\* The three pairs are all that LockExclusion speaks of.
LEMMA ApartIsExclusion == Apart => LockExclusion
BY DEF Apart, LockExclusion, InLock

\* A step that enters no lock and moves no operation, other than one that is in no lock, to
\* another project.
LEMMA ApartStays ==
  ASSUME TypeOK, ReconcilesStarted, Apart, LockFrame,
         \A o \in Op : \/ project'[o] = project[o]
                       \/ pc'[o] \notin Locked /\ state[o] \in BeforeRun
  PROVE  Apart'
<1>1. \A o \in Op : pc'[o] \in Locked => pc[o] \in Locked /\ project'[o] = project[o]
  BY DEF LockFrame
<1>2. \A r \in Reconciler : recAt'[r] \in InLock =>
        /\ recAt[r] \in InLock /\ recOp'[r] = recOp[r] /\ recOp[r] \in Op
        /\ project'[recOp[r]] = project[recOp[r]]
  BY DEF LockFrame, ReconcilesStarted, InLock
<1> QED
  BY <1>1, <1>2 DEF Apart

\* Every step keeps bodies and reconciliations apart.
LEMMA ApartStep ==
  ASSUME TypeOK, ReconcilesStarted, Apart, [Next]_vars
  PROVE  Apart'
<1> USE DEF TypeOK
<1>1. ASSUME NEW o \in Op, NEW p \in Project, NEW s \in Session, NEW k \in Kinds,
             Start(o, p, s, k)
      PROVE  Apart'
  <2>1. LockFrame
    BY <1>1 DEF Start, LockFrame, Continue, Locked, recVars
  <2>2. \A x \in Op : \/ project'[x] = project[x]
                      \/ pc'[x] \notin Locked /\ state[x] \in BeforeRun
    BY <1>1 DEF Start, Unseen, Continue, Locked, BeforeRun
  <2> QED
    BY <2>1, <2>2, ApartStays
<1>2. ASSUME NEW o \in Op, EnterBody(o) \/ AcquireLock(o) PROVE Apart'
  <2>1. /\ UNCHANGED <<project, recAt, recOp>>
        /\ \A x \in Op \ {o} : pc'[x] = pc[x]
        /\ pc'[o] \in Locked => LockFree(project[o])
    BY <1>2 DEF EnterBody, AcquireLock, Suspend, Uncontended, rowVars, recVars, Locked
  <2> QED
    BY <2>1 DEF Apart, LockFree, InLock
<1>3. ASSUME NEW r \in Reconciler, NEW o \in Op, NEW s \in Session, ReconcileSucceeded(r, o, s)
      PROVE  Apart'
  <2>1. /\ UNCHANGED <<project, pc>>
        /\ \A t \in Reconciler \ {r} : recAt'[t] = recAt[t] /\ recOp'[t] = recOp[t]
        /\ recOp'[r] = o /\ (recAt'[r] \in InLock => LockFree(project[o]))
    BY <1>3 DEF ReconcileSucceeded, RecSuspend, Uncontended, rowVars, InLock
  <2> QED
    BY <2>1 DEF Apart, LockFree, InLock
<1>4. ASSUME NEW r \in Reconciler, RecAcquire(r) PROVE Apart'
  <2>1. /\ UNCHANGED <<project, pc>>
        /\ \A t \in Reconciler \ {r} : recAt'[t] = recAt[t] /\ recOp'[t] = recOp[t]
        /\ recAt'[r] \in InLock => recOp'[r] = recOp[r] /\ LockFree(project[recOp[r]])
    BY <1>4 DEF RecAcquire, RecSuspend, RecAnswer, rowVars, InLock
  <2> QED
    BY <2>1 DEF Apart, LockFree, InLock
<1>5. ASSUME NEW o \in Op, Run(o), LockFrame PROVE Apart'
  BY <1>5, ApartStays DEF Run, rowVars
<1>6. CASE LockFrame /\ Frame
  BY <1>6, ApartStays DEF Frame, rowVars
<1> QED
  BY <1>1, <1>2, <1>3, <1>4, <1>5, <1>6, FrameStep, LockFrameStep

\* Inside a project's lock there is one body or one reconciliation, for any number of
\* requests that queue for it, are cancelled in it or find it free.
THEOREM LockExcludes == Spec => []LockExclusion
<1>1. Init => ReconcilesStarted /\ Apart
  BY DEF Init, ReconcilesStarted, Apart, Locked, InLock
<1> QED
  BY <1>1, TypeCorrect, ReconcilesStartedStep, ApartStep, ApartIsExclusion, PTL DEF Spec

-----------------------------------------------------------------------------
(* Approvals agree with the states they open, and nothing is left open. *)

\* The strengthening: an approval is pending only where the operation awaits it or is about
\* to, and an operation awaits approval only if nobody works on it, or Confirm or
\* CancelApproval has just let somebody do so.
Tokens ==
  bridge # "down" => \A o \in Op :
    /\ approval[o] = "pending" =>
         pc[o] = "issued" \/ (pc[o] = "idle" /\ state[o] = "awaiting_approval")
    /\ pc[o] = "issued" => approval[o] = "pending"
    /\ state[o] = "awaiting_approval" =>
         pc[o] \in {"ready", "cancelling"} \/ (pc[o] = "idle" /\ approval[o] = "pending")
    /\ pc[o] = "idle" /\ state[o] \in {"received", "dispatched", "running"} => Confirmed(o)

\* Every step keeps tokens and states together, and answers no request whose operation it
\* leaves under way, other than that of a confirmation.
LEMMA TokensStep ==
  ASSUME TypeOK, Gate, Tokens, [Next]_vars
  PROVE  Tokens'
<1> USE DEF TypeOK, Gate, Tokens, Confirmed, TransitionFrom, Transition, OperationTransitions,
            Continue, Suspend, Answer, RecSuspend, RecAnswer,
            registryVars, sessionVars, rowVars, effectVars, recVars
<1>1. ASSUME UNCHANGED <<bridge, state, rowVars, approval, checkpoint, pc, recVars>> PROVE Tokens'
  BY <1>1
<1>2. CASE RefreshRegistry \/ ShutdownStep \/ UNCHANGED vars
  BY <1>1, <1>2 DEF RefreshRegistry, ShutdownStep, CloseSession, FinishShutdown, vars
<1>3. ASSUME NEW s \in Session, OpenStep(s) \/ \E p \in Project : ProjectOpen(s, p)
      PROVE  Tokens'
  BY <1>1, <1>3 DEF OpenStep, SessionCreated, OpenFails, ProjectOpen
<1>4. ASSUME NEW p \in Project, Configure(p) PROVE Tokens'
  BY <1>1, <1>4 DEF Configure
<1>5. ASSUME NEW o \in Op, StrayEnds(o) PROVE Tokens'
  BY <1>1, <1>5 DEF StrayEnds
<1>6. ASSUME NEW o \in Op, NEW p \in Project, NEW s \in Session, NEW k \in Kinds,
             Start(o, p, s, k)
      PROVE  Tokens'
  BY <1>6 DEF Start, Unseen, Idle
<1>7. ASSUME NEW o \in Op, Validate(o) \/ Authorize(o) \/ AuthorizeFails(o) \/ CheckPasses(o)
                           \/ CheckFails(o)
      PROVE  Tokens'
  BY <1>7 DEF Validate, Authorize, AuthorizeFails, CheckPasses, CheckFails
<1>8. ASSUME NEW o \in Op, IssueApproval(o) \/ AwaitApproval(o) PROVE Tokens'
  BY <1>8 DEF IssueApproval, AwaitApproval
<1>9. ASSUME NEW o \in Op, Confirm(o) \/ CancelApproval(o) \/ CancelOperation(o) PROVE Tokens'
  BY <1>9 DEF Confirm, CancelApproval, CancelOperation, OwnedAwaiting
<1>10. ASSUME NEW o \in Op, Dispatch(o) \/ Run(o) PROVE Tokens'
  BY <1>10 DEF Dispatch, Run
<1>11. ASSUME NEW o \in Op, EnterBody(o) \/ BodyRefused(o) \/ AcquireLock(o) PROVE Tokens'
  BY <1>11 DEF EnterBody, BodyRefused, AcquireLock
<1>12. ASSUME NEW o \in Op, ReadReturns(o) \/ PrecheckFails(o) \/ ActionRefused(o)
                            \/ OutcomeUncertain(o) \/ CommandFails(o) \/ StoreFails(o)
       PROVE  Tokens'
  BY <1>12 DEF ReadReturns, PrecheckFails, ActionRefused, OutcomeUncertain, CommandFails,
     StoreFails, BodyEnds
<1>13. ASSUME NEW o \in Op, TakeCheckpoint(o) \/ Act(o) \/ Finalize(o) PROVE Tokens'
  BY <1>13 DEF TakeCheckpoint, Act, Finalize
<1>14. ASSUME NEW o \in Op, MoveTimesOut(o) \/ Finish(o) PROVE Tokens'
  BY <1>14 DEF MoveTimesOut, Finish
<1>15. ASSUME NEW o \in Op, Cancel(o) PROVE Tokens'
  BY <1>15 DEF Cancel, CancelLeavesState, Suspended
<1>16. ASSUME NEW o \in Op, NEW s \in Session, ReconcileFailed(o, s) PROVE Tokens'
  BY <1>16 DEF ReconcileFailed
<1>17. ASSUME NEW r \in Reconciler, NEW o \in Op, NEW s \in Session, ReconcileSucceeded(r, o, s)
       PROVE  Tokens'
  BY <1>17 DEF ReconcileSucceeded, Evidence
<1>18. ASSUME NEW r \in Reconciler, RecAcquire(r) PROVE Tokens'
  BY <1>18 DEF RecAcquire, Evidence
<1>19. ASSUME NEW r \in Reconciler, RecVerifyFails(r) \/ RecCancel(r) PROVE Tokens'
  BY <1>19 DEF RecVerifyFails, RecCancel
<1>20. ASSUME NEW r \in Reconciler, RecRecord(r) PROVE Tokens'
  BY <1>20 DEF RecRecord
<1>21. ASSUME NEW r \in Reconciler, RecFinish(r) PROVE Tokens'
  BY <1>21 DEF RecFinish
<1>22. CASE BeginShutdown
  BY <1>22 DEF BeginShutdown, Idle
<1>23. CASE Crash
  BY <1>23 DEF Crash
<1>24. CASE BridgeStart
  BY <1>24 DEF BridgeStart, RecoveredState, RecoveredApproval
<1> QED
  BY <1>2, <1>3, <1>4, <1>5, <1>6, <1>7, <1>8, <1>9, <1>10, <1>11, <1>12, <1>13, <1>14, <1>15,
     <1>16, <1>17, <1>18, <1>19, <1>20, <1>21, <1>22, <1>23, <1>24
  DEF Next, Request, HandlerStep, ReconcilerStep, Environment

\* Tokens hold with the gate throughout.
LEMMA TokensAlways == Spec => []Tokens
<1>1. Init => Gate /\ Tokens
  BY DEF Init, Gate, Tokens
<1> QED
  BY <1>1, TypeCorrect, RunsOnceAlways, GateStep, TokensStep, PTL DEF Spec

\* While nobody works on an operation it awaits approval exactly if a token is pending,
\* wherever a request was cancelled and the process has died between two transactions.
THEOREM ApprovalsMatch == Spec => []ApprovalMatchesState
<1>1. Tokens => ApprovalMatchesState
  BY DEF Tokens, ApprovalMatchesState
<1> QED
  BY <1>1, TokensAlways, PTL

\* No operation that its own request runs is left open by what happens to that request.
THEOREM NothingOrphaned == Spec => []NeverOrphaned
<1>1. Tokens => NeverOrphaned
  BY DEF Tokens, NeverOrphaned
<1> QED
  BY <1>1, TokensAlways, PTL

-----------------------------------------------------------------------------
(* Success has its evidence. *)

Evidenced(o) == checkpoint[o] = IF kind[o] = "checkpoint" THEN "created" ELSE "finalized"

\* The strengthening: a body works on a running operation, with its evidence at hand when it
\* reports; a reconciliation works on one that is settled or unknown, and has checked that the
\* mutation checkpoint is what proves it.
Works ==
  /\ \A o \in Op :
       /\ pc[o] \in {"body", "waiting", "reading"} \cup Locked => state[o] = "running"
       /\ pc[o] = "reading" => ~Mutation(kind[o])
       /\ pc[o] \in {"acting", "applied"} => kind[o] # "checkpoint"
       /\ pc[o] = "recorded" => Evidenced(o)
       /\ Mutation(kind[o]) /\ state[o] = "succeeded" => Evidenced(o)
  /\ \A r \in Reconciler : recAt[r] # "idle" =>
       /\ recOp[r] \in Op /\ state[recOp[r]] \in {"unknown", "failed", "succeeded"}
       /\ recAt[r] \in InLock => MutationCheckpoint(kind[recOp[r]])
       /\ recAt[r] = "recorded" => checkpoint[recOp[r]] = "finalized"

\* Every step works on evidence.
LEMMA WorksStep ==
  ASSUME TypeOK, Gate, Works, [Next]_vars
  PROVE  Works'
<1> USE DEF TypeOK, Gate, Works, Evidenced, InLock, Locked, Mutation, MutationCheckpoint,
            TransitionFrom, Transition, OperationTransitions,
            Continue, Suspend, Answer, RecSuspend, RecAnswer,
            registryVars, sessionVars, rowVars, effectVars, recVars
<1>1. ASSUME UNCHANGED <<bridge, state, rowVars, approval, checkpoint, pc, recVars>> PROVE Works'
  BY <1>1
<1>2. CASE RefreshRegistry \/ ShutdownStep \/ UNCHANGED vars
  BY <1>1, <1>2 DEF RefreshRegistry, ShutdownStep, CloseSession, FinishShutdown, vars
<1>3. ASSUME NEW s \in Session, OpenStep(s) \/ \E p \in Project : ProjectOpen(s, p)
      PROVE  Works'
  BY <1>1, <1>3 DEF OpenStep, SessionCreated, OpenFails, ProjectOpen
<1>4. ASSUME NEW p \in Project, Configure(p) PROVE Works'
  BY <1>1, <1>4 DEF Configure
<1>5. ASSUME NEW o \in Op, StrayEnds(o) PROVE Works'
  BY <1>1, <1>5 DEF StrayEnds
<1>6. ASSUME NEW o \in Op, NEW p \in Project, NEW s \in Session, NEW k \in Kinds,
             Start(o, p, s, k)
      PROVE  Works'
  BY <1>6 DEF Start, Unseen, Idle
<1>7. ASSUME NEW o \in Op, Validate(o) \/ Authorize(o) \/ AuthorizeFails(o) \/ CheckPasses(o)
                           \/ CheckFails(o)
      PROVE  Works'
  BY <1>7 DEF Validate, Authorize, AuthorizeFails, CheckPasses, CheckFails
<1>8. ASSUME NEW o \in Op, IssueApproval(o) \/ AwaitApproval(o) PROVE Works'
  BY <1>8 DEF IssueApproval, AwaitApproval
<1>9. ASSUME NEW o \in Op, Confirm(o) \/ CancelApproval(o) \/ CancelOperation(o) PROVE Works'
  BY <1>9 DEF Confirm, CancelApproval, CancelOperation, OwnedAwaiting
<1>10. ASSUME NEW o \in Op, Dispatch(o) \/ Run(o) PROVE Works'
  BY <1>10 DEF Dispatch, Run
<1>11. ASSUME NEW o \in Op, EnterBody(o) \/ BodyRefused(o) \/ AcquireLock(o) PROVE Works'
  BY <1>11 DEF EnterBody, BodyRefused, AcquireLock
<1>12. ASSUME NEW o \in Op, ReadReturns(o) \/ PrecheckFails(o) \/ ActionRefused(o)
                            \/ OutcomeUncertain(o) \/ CommandFails(o) \/ StoreFails(o)
       PROVE  Works'
  BY <1>12 DEF ReadReturns, PrecheckFails, ActionRefused, OutcomeUncertain, CommandFails,
     StoreFails, BodyEnds
<1>13. ASSUME NEW o \in Op, TakeCheckpoint(o) \/ Act(o) \/ Finalize(o) PROVE Works'
  BY <1>13 DEF TakeCheckpoint, Act, Finalize
<1>14. ASSUME NEW o \in Op, MoveTimesOut(o) \/ Finish(o) PROVE Works'
  BY <1>14 DEF MoveTimesOut, Finish
<1>15. ASSUME NEW o \in Op, Cancel(o) PROVE Works'
  BY <1>15 DEF Cancel, CancelLeavesState, Suspended
<1>16. ASSUME NEW o \in Op, NEW s \in Session, ReconcileFailed(o, s) PROVE Works'
  BY <1>16 DEF ReconcileFailed
<1>17. ASSUME NEW r \in Reconciler, NEW o \in Op, NEW s \in Session, ReconcileSucceeded(r, o, s)
       PROVE  Works'
  BY <1>17 DEF ReconcileSucceeded, Evidence
<1>18. ASSUME NEW r \in Reconciler, RecAcquire(r) PROVE Works'
  BY <1>18 DEF RecAcquire, Evidence
<1>19. ASSUME NEW r \in Reconciler, RecVerifyFails(r) \/ RecCancel(r) PROVE Works'
  BY <1>19 DEF RecVerifyFails, RecCancel
<1>20. ASSUME NEW r \in Reconciler, RecRecord(r) PROVE Works'
  BY <1>20 DEF RecRecord
<1>21. ASSUME NEW r \in Reconciler, RecFinish(r) PROVE Works'
  BY <1>21 DEF RecFinish
<1>22. CASE BeginShutdown
  BY <1>22 DEF BeginShutdown, Idle
<1>23. CASE Crash
  BY <1>23 DEF Crash
<1>24. CASE BridgeStart
  BY <1>24 DEF BridgeStart, RecoveredState, RecoveredApproval
<1> QED
  BY <1>2, <1>3, <1>4, <1>5, <1>6, <1>7, <1>8, <1>9, <1>10, <1>11, <1>12, <1>13, <1>14, <1>15,
     <1>16, <1>17, <1>18, <1>19, <1>20, <1>21, <1>22, <1>23, <1>24
  DEF Next, Request, HandlerStep, ReconcilerStep, Environment

\* A mutation is reported as done only with its finalized checkpoint, or the manual checkpoint
\* itself, whether its request reports it or a reconciliation does.
THEOREM SuccessHasEvidence == Spec => []SucceededIsEvidenced
<1>1. Init => Gate /\ Works
  BY DEF Init, Gate, Works, InLock, Locked
<1>2. Works => SucceededIsEvidenced
  BY DEF Works, Evidenced, SucceededIsEvidenced
<1> QED
  BY <1>1, <1>2, TypeCorrect, RunsOnceAlways, GateStep, WorksStep, PTL DEF Spec

-----------------------------------------------------------------------------
(* The refinement of MutationPromise. *)

\* What the mapping needs to know of the rows: a row that is not there says nothing, only
\* mutations await approval, and none is given before it is awaited or after it was withdrawn.
Shape ==
  /\ bridge = "down" => \A r \in Reconciler : recAt[r] = "idle"
  /\ \A o \in Op :
       /\ state[o] = "free" => kind[o] = "read"
       /\ state[o] \in {"free", "received", "validated"} => ~Confirmed(o)
       /\ pc[o] \in {"authorize", "checking", "issue", "issued"} \/ state[o] = "awaiting_approval"
            => Mutation(kind[o])
       /\ pc[o] = "cancelling" => state[o] = "awaiting_approval" /\ ~Confirmed(o)

\* Every step keeps the rows in shape.
LEMMA ShapeStep ==
  ASSUME TypeOK, Gate, Works, Shape, [Next]_vars
  PROVE  Shape'
<1> USE DEF TypeOK, Gate, Works, Shape, Confirmed, Mutation, TransitionFrom, Transition,
            OperationTransitions, Continue, Suspend, Answer, RecSuspend, RecAnswer,
            registryVars, sessionVars, rowVars, effectVars, recVars
<1>1. ASSUME UNCHANGED <<bridge, state, rowVars, approval, checkpoint, pc, recVars>> PROVE Shape'
  BY <1>1
<1>2. CASE RefreshRegistry \/ ShutdownStep \/ UNCHANGED vars
  BY <1>1, <1>2 DEF RefreshRegistry, ShutdownStep, CloseSession, FinishShutdown, Quiet, vars
<1>3. ASSUME NEW s \in Session, OpenStep(s) \/ \E p \in Project : ProjectOpen(s, p)
      PROVE  Shape'
  BY <1>1, <1>3 DEF OpenStep, SessionCreated, OpenFails, ProjectOpen
<1>4. ASSUME NEW p \in Project, Configure(p) PROVE Shape'
  BY <1>1, <1>4 DEF Configure
<1>5. ASSUME NEW o \in Op, StrayEnds(o) PROVE Shape'
  BY <1>1, <1>5 DEF StrayEnds
<1>6. ASSUME NEW o \in Op, NEW p \in Project, NEW s \in Session, NEW k \in Kinds,
             Start(o, p, s, k)
      PROVE  Shape'
  BY <1>6 DEF Start, Unseen, Idle
<1>7. ASSUME NEW o \in Op, Validate(o) \/ Authorize(o) \/ AuthorizeFails(o) \/ CheckPasses(o)
                           \/ CheckFails(o)
      PROVE  Shape'
  BY <1>7 DEF Validate, Authorize, AuthorizeFails, CheckPasses, CheckFails
<1>8. ASSUME NEW o \in Op, IssueApproval(o) \/ AwaitApproval(o) PROVE Shape'
  BY <1>8 DEF IssueApproval, AwaitApproval
<1>9. ASSUME NEW o \in Op, Confirm(o) \/ CancelApproval(o) \/ CancelOperation(o) PROVE Shape'
  BY <1>9 DEF Confirm, CancelApproval, CancelOperation, OwnedAwaiting
<1>10. ASSUME NEW o \in Op, Dispatch(o) \/ Run(o) PROVE Shape'
  BY <1>10 DEF Dispatch, Run
<1>11. ASSUME NEW o \in Op, EnterBody(o) \/ BodyRefused(o) \/ AcquireLock(o) PROVE Shape'
  BY <1>11 DEF EnterBody, BodyRefused, AcquireLock
<1>12. ASSUME NEW o \in Op, ReadReturns(o) \/ PrecheckFails(o) \/ ActionRefused(o)
                            \/ OutcomeUncertain(o) \/ CommandFails(o) \/ StoreFails(o)
       PROVE  Shape'
  BY <1>12 DEF ReadReturns, PrecheckFails, ActionRefused, OutcomeUncertain, CommandFails,
     StoreFails, BodyEnds
<1>13. ASSUME NEW o \in Op, TakeCheckpoint(o) \/ Act(o) \/ Finalize(o) PROVE Shape'
  BY <1>13 DEF TakeCheckpoint, Act, Finalize
<1>14. ASSUME NEW o \in Op, MoveTimesOut(o) \/ Finish(o) PROVE Shape'
  BY <1>14 DEF MoveTimesOut, Finish
<1>15. ASSUME NEW o \in Op, Cancel(o) PROVE Shape'
  BY <1>15 DEF Cancel, CancelLeavesState, Suspended
<1>16. ASSUME NEW o \in Op, NEW s \in Session, ReconcileFailed(o, s) PROVE Shape'
  BY <1>16 DEF ReconcileFailed
<1>17. ASSUME NEW r \in Reconciler, NEW o \in Op, NEW s \in Session, ReconcileSucceeded(r, o, s)
       PROVE  Shape'
  BY <1>17 DEF ReconcileSucceeded, Evidence, Idle
<1>18. ASSUME NEW r \in Reconciler, RecAcquire(r) PROVE Shape'
  BY <1>18 DEF RecAcquire, Evidence
<1>19. ASSUME NEW r \in Reconciler, RecVerifyFails(r) \/ RecCancel(r) PROVE Shape'
  BY <1>19 DEF RecVerifyFails, RecCancel
<1>20. ASSUME NEW r \in Reconciler, RecRecord(r) PROVE Shape'
  BY <1>20 DEF RecRecord
<1>21. ASSUME NEW r \in Reconciler, RecFinish(r) PROVE Shape'
  BY <1>21 DEF RecFinish
<1>22. CASE BeginShutdown
  BY <1>22 DEF BeginShutdown, Idle
<1>23. CASE Crash
  BY <1>23 DEF Crash
<1>24. CASE BridgeStart
  BY <1>24 DEF BridgeStart, RecoveredState, RecoveredApproval
<1> QED
  BY <1>2, <1>3, <1>4, <1>5, <1>6, <1>7, <1>8, <1>9, <1>10, <1>11, <1>12, <1>13, <1>14, <1>15,
     <1>16, <1>17, <1>18, <1>19, <1>20, <1>21, <1>22, <1>23, <1>24
  DEF Next, Request, HandlerStep, ReconcilerStep, Environment

PhaseNow == [o \in Op |-> PhaseOf(o)]
OwnerNow == [o \in Op |-> IF Mutation(kind[o]) THEN project[o] ELSE None]
GuardedNow == [o \in Op |-> kind[o] \in {"checkpoint", "restore"}]
ApprovedNow == [o \in Op |-> Confirmed(o)]
PromiseNow == <<bridge # "down", PhaseNow, OwnerNow, GuardedNow, ApprovedNow>>

\* A step that the promise has, or one that it does not see.
Kept == [Promise!PromiseNext]_PromiseNow

\* Rows and approvals as they were: the promise sees nothing.
LEMMA Unseeing ==
  ASSUME (bridge # "down")' = (bridge # "down"), UNCHANGED <<state, kind, project, approval>>
  PROVE  Kept
BY DEF Kept, PromiseNow, PhaseNow, PhaseOf, OwnerNow, GuardedNow, ApprovedNow, Confirmed

\* The transitions that the handlers make of OPERATION_TRANSITIONS, and what each of them needs.
Permitted(o, to) ==
  \/ to = state[o]
  \/ state[o] = "received" /\ to \in {"validated", "failed"}
  \/ state[o] = "validated" /\ to \in {"awaiting_approval", "failed"}
  \/ state[o] = "validated" /\ to = "dispatched" /\ kind[o] \notin {"checkpoint", "restore"}
  \/ state[o] = "awaiting_approval" /\ to = "dispatched" /\ Confirmed(o)
  \/ state[o] = "awaiting_approval" /\ to = "cancelled" /\ ~Confirmed(o)
  \/ state[o] = "dispatched" /\ to = "running"
  \/ state[o] \in {"dispatched", "running"} /\ to \in {"failed", "unknown"}
  \/ state[o] = "running" /\ to = "succeeded"
  \/ state[o] = "unknown" /\ to \in {"failed", "succeeded"}

\* Each of them is a step of the promise, or none that it sees.
LEMMA TransitionKept ==
  ASSUME TypeOK, NEW o \in Op, NEW to, Permitted(o, to), bridge # "down", bridge' = bridge,
         state' = [state EXCEPT ![o] = to], UNCHANGED <<kind, project, approval>>
  PROVE  Kept
<1>1. UNCHANGED <<OwnerNow, GuardedNow, ApprovedNow>>
  BY DEF OwnerNow, GuardedNow, ApprovedNow, Confirmed
<1>2. \A x \in Op : PhaseNow[x] = PhaseOf(x) /\ (x # o => PhaseOf(x)' = PhaseOf(x))
  BY DEF TypeOK, PhaseNow, PhaseOf
<1>3. PhaseNow' = [PhaseNow EXCEPT ![o] = PhaseOf(o)']
  BY <1>2 DEF PhaseNow
<1>4. CASE PhaseOf(o)' = PhaseOf(o)
  <2>1. PhaseNow' = PhaseNow
    BY <1>3, <1>4 DEF PhaseNow
  <2> QED
    BY <1>1, <2>1 DEF Kept, PromiseNow
<1>5. CASE PhaseOf(o)' # PhaseOf(o)
  <2>1. /\ Mutation(kind[o]) /\ state'[o] = to
        /\ \/ PhaseOf(o) = "pending" /\ PhaseOf(o)' \in {"awaiting", "failed"}
           \/ PhaseOf(o) = "pending" /\ PhaseOf(o)' = "running" /\ ~GuardedNow[o]
           \/ PhaseOf(o) = "awaiting" /\ PhaseOf(o)' = "running" /\ ApprovedNow[o]
           \/ PhaseOf(o) = "awaiting" /\ PhaseOf(o)' = "cancelled" /\ ~ApprovedNow[o]
           \/ PhaseOf(o) = "running" /\ PhaseOf(o)' \in {"failed", "unknown", "succeeded"}
           \/ PhaseOf(o) = "unknown" /\ PhaseOf(o)' \in {"failed", "succeeded"}
    BY <1>5 DEF TypeOK, PhaseOf, Permitted, GuardedNow, ApprovedNow
  <2>2. PICK from, next : from = PhaseOf(o) /\ next = PhaseOf(o)'
    OBVIOUS
  <2>3. Promise!Step(o, {from}, next)
    <3>1. PhaseNow' = [PhaseNow EXCEPT ![o] = next] /\ PhaseNow[o] \in {from}
      BY <1>2, <1>3, <2>2
    <3>2. bridge # "down" /\ bridge' # "down"
      OBVIOUS
    <3> QED
      BY <1>1, <3>1, <3>2
      DEF Promise!Step, Promise!Becomes, PhaseNow, OwnerNow, GuardedNow, ApprovedNow
  <2>4. \/ Promise!Refuse(o) \/ Promise!Hold(o) \/ Promise!Withdraw(o) \/ Promise!Perform(o)
        \/ Promise!PerformApproved(o) \/ Promise!Settle(o) \/ Promise!LoseTrack(o)
        \/ Promise!Decide(o)
    BY <2>1, <2>2, <2>3
    DEF Promise!Refuse, Promise!Hold, Promise!Withdraw, Promise!Perform, Promise!PerformApproved,
        Promise!Settle, Promise!LoseTrack, Promise!Decide, Promise!Step, GuardedNow, ApprovedNow
  <2> QED
    BY <2>4 DEF Kept, Promise!PromiseNext
<1> QED
  BY <1>4, <1>5

\* The transition of an operation that its request, a cancellation or a reconciliation makes.
LEMMA HandlersKeep ==
  ASSUME TypeOK, Gate, Works, Shape, NEW o \in Op,
         \/ HandlerStep(o) \/ Cancel(o) \/ \E s \in Session : ReconcileFailed(o, s)
  PROVE  Kept
<1> USE DEF TypeOK, Gate, Works, Shape, Confirmed, Mutation, Locked,
            registryVars, sessionVars, rowVars, effectVars, recVars
<1>1. ASSUME UNCHANGED <<bridge, state, kind, project, approval>> PROVE Kept
  BY <1>1, Unseeing
<1>2. ASSUME NEW to, Permitted(o, to), bridge # "down", bridge' = bridge,
             state' = [state EXCEPT ![o] = to], UNCHANGED <<kind, project, approval>>
      PROVE  Kept
  BY <1>2, TransitionKept
<1> USE DEF Permitted, TransitionFrom, Transition, Idle
<1>3. CASE Validate(o)
  BY <1>2, <1>3 DEF Validate
<1>4. CASE Authorize(o) \/ CheckPasses(o) \/ EnterBody(o) \/ AcquireLock(o)
  BY <1>1, <1>4 DEF Authorize, CheckPasses, EnterBody, AcquireLock
<1>5. CASE AuthorizeFails(o) \/ CheckFails(o)
  BY <1>2, <1>5 DEF AuthorizeFails, CheckFails
<1>6. CASE IssueApproval(o)
  <2>1. state[o] \in {"free", "received", "validated"} => ~Confirmed(o)
    OBVIOUS
  <2>2. state[o] = "validated"
    BY <1>6 DEF IssueApproval
  <2>3. \A x \in Op : Confirmed(x)' = Confirmed(x)
    BY <1>6, <2>1, <2>2 DEF IssueApproval
  <2> QED
    BY <1>6, <2>3 DEF IssueApproval, Kept, PromiseNow, PhaseNow, PhaseOf, OwnerNow, GuardedNow,
       ApprovedNow
<1>7. CASE AwaitApproval(o)
  BY <1>2, <1>7 DEF AwaitApproval
<1>8. CASE CancelOperation(o)
  BY <1>2, <1>8 DEF CancelOperation
<1>9. CASE Dispatch(o)
  <2>1. kind[o] \in {"checkpoint", "restore"} => Confirmed(o)
    BY <1>9 DEF Dispatch
  <2> QED
    BY <1>2, <1>9, <2>1 DEF Dispatch
<1>10. CASE Run(o)
  BY <1>2, <1>10 DEF Run
<1>11. CASE BodyRefused(o)
  BY <1>2, <1>11 DEF BodyRefused
<1>12. ASSUME NEW point \in {"precheck", "acting", "applied", "reading"},
              NEW to \in {"succeeded", "failed", "unknown"}, BodyEnds(o, point, to)
       PROVE  Kept
  BY <1>2, <1>12 DEF BodyEnds
<1>13. CASE \/ ReadReturns(o) \/ PrecheckFails(o) \/ ActionRefused(o) \/ OutcomeUncertain(o)
            \/ CommandFails(o) \/ StoreFails(o)
  BY <1>12, <1>13 DEF ReadReturns, PrecheckFails, ActionRefused, OutcomeUncertain, CommandFails,
     StoreFails
<1>14. CASE TakeCheckpoint(o) \/ Act(o) \/ Finalize(o)
  BY <1>1, <1>14 DEF TakeCheckpoint, Act, Finalize
<1>15. CASE MoveTimesOut(o) \/ Finish(o)
  BY <1>2, <1>15 DEF MoveTimesOut, Finish
<1>16. CASE Cancel(o)
  <2>1. CASE UNCHANGED state
    BY <1>1, <1>16, <2>1 DEF Cancel
  <2>2. CASE ~CancelLeavesState(o)
    BY <1>2, <1>16, <2>2 DEF Cancel, CancelLeavesState, Cancellable, Suspended
  <2> QED
    BY <1>16, <2>1, <2>2 DEF Cancel
<1>17. ASSUME NEW s \in Session, ReconcileFailed(o, s) PROVE Kept
  BY <1>2, <1>17 DEF ReconcileFailed
<1> QED
  BY <1>3, <1>4, <1>5, <1>6, <1>7, <1>8, <1>9, <1>10, <1>11, <1>13, <1>14, <1>15, <1>16, <1>17
  DEF HandlerStep

\* create_operation asks for a mutation.
LEMMA StartKeeps ==
  ASSUME TypeOK, Shape, NEW o \in Op, NEW p \in Project, NEW s \in Session, NEW k \in Kinds,
         Start(o, p, s, k)
  PROVE  Kept
<1>1. /\ bridge = "up" /\ bridge' = bridge /\ state[o] = "free" /\ kind[o] = "read"
      /\ state' = [state EXCEPT ![o] = "received"] /\ kind' = [kind EXCEPT ![o] = k]
      /\ project' = [project EXCEPT ![o] = p] /\ approval' = approval
      /\ Mutation(k) => ~Blocked(p)
  BY DEF Start, Idle, Unseen, Shape
<1>2. CASE ~Mutation(k)
  <2>1. UNCHANGED <<PhaseNow, OwnerNow, GuardedNow, ApprovedNow>>
    BY <1>1, <1>2 DEF TypeOK, PhaseNow, PhaseOf, OwnerNow, GuardedNow, ApprovedNow, Mutation,
       Confirmed
  <2> QED
    BY <1>1, <2>1 DEF Kept, PromiseNow
<1>3. CASE Mutation(k)
  <2>1. PhaseNow[o] = "none"
    BY <1>1 DEF PhaseNow, PhaseOf
  <2>2. \A q \in Op : OwnerNow[q] = p => PhaseNow[q] \notin Promise!Open
    <3>1. ASSUME NEW q \in Op, OwnerNow[q] = p PROVE PhaseNow[q] \notin Promise!Open
      <4>1. Mutation(kind[q]) /\ project[q] = p
        BY <3>1, RequestsAssumption DEF OwnerNow
      <4>2. state[q] \notin ActiveMutationStates
        BY <1>1, <1>3, <4>1 DEF Blocked
      <4> QED
        BY <4>1, <4>2 DEF TypeOK, OperationState, ActiveMutationStates, PhaseNow, PhaseOf,
           Promise!Open
    <3> QED
      BY <3>1
  <2>3. PhaseNow' = [PhaseNow EXCEPT ![o] = "pending"]
    BY <1>1, <1>3 DEF TypeOK, PhaseNow, PhaseOf, Mutation
  <2>4. OwnerNow' = [OwnerNow EXCEPT ![o] = p]
    BY <1>1, <1>3 DEF TypeOK, OwnerNow
  <2>5. PICK g \in BOOLEAN : g = (k \in {"checkpoint", "restore"})
    <3> WITNESS (k \in {"checkpoint", "restore"}) \in BOOLEAN
    <3> QED
      OBVIOUS
  <2>6. GuardedNow' = [GuardedNow EXCEPT ![o] = g]
    BY <1>1, <2>5 DEF TypeOK, GuardedNow
  <2>7. ApprovedNow' = ApprovedNow
    BY <1>1 DEF ApprovedNow, Confirmed
  <2>8. Promise!Ask(o, p, g)
    BY <1>1, <2>1, <2>2, <2>3, <2>4, <2>6, <2>7
    DEF Promise!Ask, Promise!Becomes, PhaseNow, OwnerNow, GuardedNow, ApprovedNow
  <2> QED
    BY <2>8 DEF Kept, Promise!PromiseNext
<1> QED
  BY <1>2, <1>3

\* consume_approval approves a mutation; a cancelled approval is not seen.
LEMMA ApprovalsKeep ==
  ASSUME TypeOK, Shape, NEW o \in Op, Confirm(o) \/ CancelApproval(o) PROVE Kept
<1>1. /\ bridge = "up" /\ UNCHANGED <<bridge, state, kind, project>>
      /\ state[o] = "awaiting_approval" /\ Mutation(kind[o]) /\ approval[o] = "pending"
  BY DEF Confirm, CancelApproval, OwnedAwaiting, Idle, Shape, rowVars
<1>2. UNCHANGED <<PhaseNow, OwnerNow, GuardedNow>>
  BY <1>1 DEF PhaseNow, PhaseOf, OwnerNow, GuardedNow
<1>3. CASE Confirm(o)
  <2>1. approval' = [approval EXCEPT ![o] = "consumed"]
    BY <1>3 DEF Confirm
  <2>2. ApprovedNow' = [ApprovedNow EXCEPT ![o] = TRUE]
    BY <2>1 DEF TypeOK, ApprovedNow, Confirmed
  <2>3. PhaseNow[o] = "awaiting" /\ ~ApprovedNow[o]
    BY <1>1 DEF PhaseNow, PhaseOf, ApprovedNow, Confirmed
  <2>4. Promise!Approve(o)
    BY <1>1, <1>2, <2>2, <2>3
    DEF Promise!Approve, PhaseNow, OwnerNow, GuardedNow, ApprovedNow
  <2> QED
    BY <2>4 DEF Kept, Promise!PromiseNext
<1>4. CASE CancelApproval(o)
  <2>1. approval' = [approval EXCEPT ![o] = "cancelled"]
    BY <1>4 DEF CancelApproval
  <2>2. ApprovedNow' = ApprovedNow
    BY <1>1, <2>1 DEF TypeOK, ApprovedNow, Confirmed
  <2> QED
    BY <1>1, <1>2, <2>2 DEF Kept, PromiseNow
<1> QED
  BY <1>3, <1>4

\* The end of a process, and recover_after_restart.
LEMMA LifeKeeps ==
  ASSUME TypeOK, Crash \/ FinishShutdown \/ BridgeStart PROVE Kept
<1>1. UNCHANGED <<kind, project>> /\ UNCHANGED <<OwnerNow, GuardedNow>>
  BY DEF Crash, FinishShutdown, BridgeStart, rowVars, OwnerNow, GuardedNow
<1>2. CASE Crash \/ FinishShutdown
  <2>1. bridge # "down" /\ bridge' = "down" /\ UNCHANGED <<state, approval>>
    BY <1>2 DEF Crash, FinishShutdown
  <2>2. UNCHANGED <<PhaseNow, ApprovedNow>>
    BY <1>1, <2>1 DEF PhaseNow, PhaseOf, ApprovedNow, Confirmed
  <2>3. Promise!Stop
    BY <1>1, <2>1, <2>2 DEF Promise!Stop, PhaseNow, OwnerNow, GuardedNow, ApprovedNow
  <2> QED
    BY <2>3 DEF Kept, Promise!PromiseNext
<1>3. CASE BridgeStart
  <2>1. /\ bridge = "down" /\ bridge' = "up"
        /\ state' = [o \in Op |-> RecoveredState(o)]
        /\ approval' = [o \in Op |-> RecoveredApproval(o)]
    BY <1>3 DEF BridgeStart
  <2>2. ApprovedNow' = ApprovedNow
    BY <2>1 DEF TypeOK, ApprovedNow, Confirmed, RecoveredApproval
  <2>3. \A o \in Op : PhaseOf(o)' = Promise!AfterRestart(o)
    BY <1>1, <2>1
    DEF TypeOK, OperationState, PhaseOf, RecoveredState, Promise!AfterRestart, PhaseNow, Mutation
  <2>4. PhaseNow' = [o \in Op |-> Promise!AfterRestart(o)]
    BY <2>3 DEF PhaseNow
  <2>5. Promise!Restart
    BY <1>1, <2>1, <2>2, <2>4
    DEF Promise!Restart, PhaseNow, OwnerNow, GuardedNow, ApprovedNow
  <2> QED
    BY <2>5 DEF Kept, Promise!PromiseNext
<1> QED
  BY <1>2, <1>3

\* Every step is one of the promise, or none that it sees.
LEMMA PromiseStep ==
  ASSUME TypeOK, Gate, Works, Shape, [Next]_vars
  PROVE  Kept
<1> USE DEF registryVars, sessionVars, rowVars, effectVars, recVars
<1>1. ASSUME (bridge # "down")' = (bridge # "down"), UNCHANGED <<state, kind, project, approval>>
      PROVE  Kept
  BY <1>1, Unseeing
<1>2. CASE UNCHANGED vars \/ RefreshRegistry \/ BeginShutdown
  BY <1>1, <1>2 DEF vars, RefreshRegistry, BeginShutdown, Idle
<1>3. ASSUME NEW s \in Session, \/ OpenStep(s) \/ CloseSession(s)
                                \/ \E p \in Project : ProjectOpen(s, p)
      PROVE  Kept
  BY <1>1, <1>3 DEF OpenStep, SessionCreated, OpenFails, CloseSession, ProjectOpen
<1>4. ASSUME NEW p \in Project, Configure(p) PROVE Kept
  BY <1>1, <1>4 DEF Configure
<1>5. ASSUME NEW o \in Op, StrayEnds(o) PROVE Kept
  BY <1>1, <1>5 DEF StrayEnds
<1>6. ASSUME NEW r \in Reconciler, \/ RecAcquire(r) \/ RecVerifyFails(r) \/ RecRecord(r)
                                   \/ RecCancel(r)
                                   \/ \E o \in Op, s \in Session : ReconcileSucceeded(r, o, s)
      PROVE  Kept
  BY <1>1, <1>6 DEF RecAcquire, RecVerifyFails, RecRecord, RecCancel, ReconcileSucceeded
<1>7. ASSUME NEW r \in Reconciler, RecFinish(r) PROVE Kept
  <2>1. PICK o \in Op : o = recOp[r]
    BY <1>7 DEF RecFinish, Works
  <2>2. state[o] \in {"unknown", "failed", "succeeded"} /\ bridge # "down" /\ bridge' = bridge
        /\ UNCHANGED <<kind, project, approval>>
    BY <1>7, <2>1 DEF RecFinish, Works, Shape
  <2>3. CASE UNCHANGED state
    BY <1>1, <2>2, <2>3
  <2>4. CASE Transition(o, "succeeded")
    <3>1. Permitted(o, "succeeded")
      BY <2>2, <2>4 DEF Transition, OperationTransitions, Permitted
    <3> QED
      BY <2>2, <2>4, <3>1, TransitionKept DEF Transition
  <2> QED
    BY <1>7, <2>1, <2>3, <2>4 DEF RecFinish
<1> QED
  BY <1>2, <1>3, <1>4, <1>5, <1>6, <1>7, HandlersKeep, StartKeeps, ApprovalsKeep, LifeKeeps
  DEF Next, Request, ReconcilerStep, ShutdownStep, Environment

\* The handlers of the mutating tools, the approvals and the reconciliations, with everything
\* that can interrupt them, do nothing that MutationPromise does not let the Bridge do.
THEOREM KeepsThePromise == Spec => KeepsPromise
<1>1. Init => Gate /\ Works /\ Shape
  BY DEF Init, Gate, Works, Shape, Confirmed, InLock, Locked, Mutation
<1>2. ASSUME Init PROVE Promise!PromiseInit
  <2>1. bridge # "down"
    BY <1>2 DEF Init
  <2>2. \A o \in Op : kind[o] = "read" /\ state[o] = "free" /\ ~Confirmed(o)
    BY <1>2 DEF Init, Confirmed
  <2>3. [o \in Op |-> PhaseOf(o)] = [o \in Op |-> "none"]
    BY <2>2 DEF PhaseOf
  <2>4. [o \in Op |-> IF Mutation(kind[o]) THEN project[o] ELSE None] = [o \in Op |-> None]
    BY <2>2 DEF Mutation
  <2>5. [o \in Op |-> kind[o] \in {"checkpoint", "restore"}] = [o \in Op |-> FALSE]
    <3>1. \A o \in Op : (kind[o] \in {"checkpoint", "restore"}) = FALSE
      BY <2>2
    <3> QED
      BY <3>1, Zenon
  <2>6. [o \in Op |-> Confirmed(o)] = [o \in Op |-> FALSE]
    <3>1. \A o \in Op : Confirmed(o) = FALSE
      BY <2>2 DEF Confirmed
    <3> QED
      BY <3>1, Zenon
  <2>7. (bridge # "down") = TRUE
    BY <2>1
  <2> QED
    BY <2>3, <2>4, <2>5, <2>6, <2>7 DEF Promise!PromiseInit
<1>3. TypeOK /\ Gate /\ Works /\ Shape /\ [Next]_vars => Kept
  BY PromiseStep
<1>4. Kept <=> [Promise!PromiseNext]_(Promise!promiseVars)
  BY DEF Kept, PromiseNow, PhaseNow, OwnerNow, GuardedNow, ApprovedNow, Promise!promiseVars
<1> QED
  BY <1>1, <1>2, <1>3, <1>4, TypeCorrect, RunsOnceAlways, GateStep, WorksStep, ShapeStep, PTL
  DEF Spec, KeepsPromise, Promise!PromiseSpec

-----------------------------------------------------------------------------
(* Sessions and their words. *)

\* A refresh of the registry ends sessions and revives none.
LEMMA RevokedEnds ==
  ASSUME TypeOK, NEW s \in Session, status[s] \in {"closed", "removed", "restarted"},
         NEW snapshot
  PROVE  Revoked(snapshot)[s] = status[s]
BY DEF Revoked

\* No handler, reconciliation, shutdown, crash or recovery writes the status of a session that
\* ended.
LEMMA EndedStep ==
  ASSUME TypeOK, [Next]_vars, NEW s \in Session,
         status[s] \in {"closed", "removed", "restarted"}
  PROVE  status'[s] = status[s]
<1> USE DEF TypeOK, registryVars, sessionVars
<1>1. ASSUME UNCHANGED status \/ Refresh PROVE status'[s] = status[s]
  BY <1>1, RevokedEnds DEF Refresh
<1>2. CASE UNCHANGED vars \/ RefreshRegistry \/ BeginShutdown
  BY <1>1, <1>2 DEF vars, RefreshRegistry, BeginShutdown
<1>3. ASSUME NEW t \in Session, NEW p \in Project, ProjectOpen(t, p)
      PROVE  status'[s] = status[s]
  <2>1. PICK snapshot : status' = [Revoked(snapshot) EXCEPT ![t] = "opening"]
    BY <1>3 DEF ProjectOpen
  <2>2. s # t /\ Revoked(snapshot) \in [Session -> SessionStatus]
    BY <1>3 DEF ProjectOpen, Revoked, SessionStatus
  <2> QED
    BY <2>1, <2>2, RevokedEnds
<1>4. ASSUME NEW t \in Session, OpenStep(t) \/ CloseSession(t) PROVE status'[s] = status[s]
  BY <1>4 DEF OpenStep, SessionCreated, OpenFails, CloseSession
<1>5. ASSUME NEW o \in Op, NEW p \in Project, NEW t \in Session, NEW k \in Kinds,
             Start(o, p, t, k)
      PROVE  status'[s] = status[s]
  BY <1>1, <1>5 DEF Start
<1>6. ASSUME NEW o \in Op, Confirm(o) \/ CancelApproval(o) \/ \E t \in Session : ReconcileFailed(o, t)
      PROVE  status'[s] = status[s]
  BY <1>1, <1>6 DEF Confirm, CancelApproval, ReconcileFailed, OwnedAwaiting
<1>7. ASSUME NEW r \in Reconciler, \E o \in Op, t \in Session : ReconcileSucceeded(r, o, t)
      PROVE  status'[s] = status[s]
  BY <1>1, <1>7 DEF ReconcileSucceeded
<1>8. ASSUME NEW r \in Reconciler, ReconcilerStep(r) \/ RecCancel(r) PROVE status'[s] = status[s]
  BY <1>8 DEF ReconcilerStep, RecAcquire, RecVerifyFails, RecRecord, RecFinish, RecCancel
<1>9. ASSUME NEW o \in Op, NEW point, NEW to, BodyEnds(o, point, to) PROVE UNCHANGED status
  BY <1>9 DEF BodyEnds
<1>10. ASSUME NEW o \in Op, ReadReturns(o) \/ PrecheckFails(o) \/ ActionRefused(o)
                            \/ OutcomeUncertain(o) \/ CommandFails(o) \/ StoreFails(o)
       PROVE  status'[s] = status[s]
  BY <1>9, <1>10 DEF ReadReturns, PrecheckFails, ActionRefused, OutcomeUncertain, CommandFails,
     StoreFails
<1>11. ASSUME NEW o \in Op, Validate(o) \/ Authorize(o) \/ AuthorizeFails(o) \/ CheckPasses(o)
                            \/ CheckFails(o) \/ IssueApproval(o) \/ AwaitApproval(o)
                            \/ CancelOperation(o) \/ Dispatch(o) \/ Run(o)
       PROVE  status'[s] = status[s]
  BY <1>1, <1>11 DEF Validate, Authorize, AuthorizeFails, CheckPasses, CheckFails, IssueApproval,
     AwaitApproval, CancelOperation, Dispatch, Run
<1>12. ASSUME NEW o \in Op, EnterBody(o) \/ BodyRefused(o) \/ AcquireLock(o)
       PROVE  status'[s] = status[s]
  BY <1>1, <1>12 DEF EnterBody, BodyRefused, AcquireLock
<1>13. ASSUME NEW o \in Op, \/ TakeCheckpoint(o) \/ Act(o) \/ Finalize(o) \/ MoveTimesOut(o)
                            \/ Finish(o) \/ Cancel(o) \/ StrayEnds(o)
       PROVE  status'[s] = status[s]
  BY <1>13 DEF TakeCheckpoint, Act, Finalize, MoveTimesOut, Finish, Cancel, StrayEnds
<1>14. ASSUME NEW p \in Project, Configure(p) PROVE status'[s] = status[s]
  BY <1>14 DEF Configure
<1>15. CASE FinishShutdown \/ Crash \/ BridgeStart
  BY <1>15 DEF FinishShutdown, Crash, BridgeStart, RecoveredSession
<1> QED
  BY <1>2, <1>3, <1>4, <1>5, <1>6, <1>7, <1>8, <1>10, <1>11, <1>12, <1>13, <1>14, <1>15
  DEF Next, Request, HandlerStep, ShutdownStep, Environment

\* A session that was closed, removed or ended by a restart is never in service again, and is
\* never taken for one that ended in another way.
THEOREM EndedForGood == Spec => EndedSessionsStayEnded
<1>1. TypeOK /\ [Next]_vars =>
        [\A s \in Session : status[s] \in {"closed", "removed", "restarted"}
                              => status'[s] = status[s]]_vars
  BY EndedStep
<1> QED
  BY <1>1, TypeCorrect, PTL DEF Spec, EndedSessionsStayEnded

\* Only operation_reconcile(failed) turns an unknown outcome into a failure while the Bridge is
\* up: the transition table has the edge, but no other handler takes it.
LEMMA GivenUpByWord ==
  ASSUME TypeOK, Gate, Works, Shape, [Next]_vars, NEW o \in Op,
         bridge = "up", state[o] = "unknown", state'[o] = "failed"
  PROVE  \E s \in Session : ReconcileFailed(o, s)
<1> USE DEF TypeOK, Gate, Works, Shape, Locked, Mutation, TransitionFrom, Transition,
            rowVars, effectVars, recVars
<1>1. ASSUME UNCHANGED state PROVE FALSE
  BY <1>1
<1>2. ASSUME NEW q \in Op, NEW to, state' = [state EXCEPT ![q] = to]
      PROVE  q = o /\ to = "failed"
  BY <1>2
<1>3. ~UNCHANGED vars /\ ~RefreshRegistry /\ ~BeginShutdown /\ ~ShutdownStep /\ ~Crash /\ ~BridgeStart
  BY <1>1 DEF vars, RefreshRegistry, BeginShutdown, ShutdownStep, CloseSession, FinishShutdown,
     Crash, BridgeStart
<1>4. ASSUME NEW t \in Session, OpenStep(t) \/ \E p \in Project : ProjectOpen(t, p) PROVE FALSE
  BY <1>1, <1>4 DEF OpenStep, SessionCreated, OpenFails, ProjectOpen
<1>5. ASSUME NEW p \in Project, Configure(p) PROVE FALSE
  BY <1>1, <1>5 DEF Configure
<1>6. ASSUME NEW q \in Op, NEW p \in Project, NEW t \in Session, NEW k \in Kinds, Start(q, p, t, k)
      PROVE  FALSE
  BY <1>6 DEF Start, Unseen
<1>7. ASSUME NEW q \in Op, Confirm(q) \/ CancelApproval(q) \/ StrayEnds(q) PROVE FALSE
  BY <1>1, <1>7 DEF Confirm, CancelApproval, StrayEnds
<1>8. ASSUME NEW r \in Reconciler,
             \/ RecAcquire(r) \/ RecVerifyFails(r) \/ RecRecord(r) \/ RecFinish(r) \/ RecCancel(r)
             \/ \E q \in Op, t \in Session : ReconcileSucceeded(r, q, t)
      PROVE  FALSE
  BY <1>1, <1>8 DEF RecAcquire, RecVerifyFails, RecRecord, RecFinish, RecCancel, ReconcileSucceeded
<1>9. ASSUME NEW q \in Op,
             \/ Validate(q) \/ AuthorizeFails(q) \/ CheckFails(q) \/ AwaitApproval(q)
             \/ CancelOperation(q) \/ Dispatch(q) \/ Run(q) \/ BodyRefused(q)
      PROVE  FALSE
  BY <1>9 DEF Validate, AuthorizeFails, CheckFails, AwaitApproval, CancelOperation, Dispatch, Run,
     BodyRefused
<1>10. ASSUME NEW q \in Op,
              \/ Authorize(q) \/ CheckPasses(q) \/ IssueApproval(q) \/ EnterBody(q)
              \/ AcquireLock(q) \/ TakeCheckpoint(q) \/ Act(q) \/ Finalize(q)
       PROVE  FALSE
  BY <1>1, <1>10 DEF Authorize, CheckPasses, IssueApproval, EnterBody, AcquireLock,
     TakeCheckpoint, Act, Finalize
<1>11. ASSUME NEW q \in Op, NEW point \in {"precheck", "acting", "applied", "reading"}, NEW to,
              BodyEnds(q, point, to)
       PROVE  FALSE
  BY <1>11 DEF BodyEnds
<1>12. ASSUME NEW q \in Op,
              \/ ReadReturns(q) \/ PrecheckFails(q) \/ ActionRefused(q) \/ OutcomeUncertain(q)
              \/ CommandFails(q) \/ StoreFails(q)
       PROVE  FALSE
  BY <1>11, <1>12 DEF ReadReturns, PrecheckFails, ActionRefused, OutcomeUncertain, CommandFails,
     StoreFails
<1>13. ASSUME NEW q \in Op, MoveTimesOut(q) \/ Finish(q) PROVE FALSE
  BY <1>13 DEF MoveTimesOut, Finish
<1>14. ASSUME NEW q \in Op, Cancel(q) PROVE FALSE
  BY <1>1, <1>14 DEF Cancel, CancelLeavesState, Suspended
<1>15. ASSUME NEW q \in Op, NEW s \in Session, ReconcileFailed(q, s)
       PROVE  \E t \in Session : ReconcileFailed(o, t)
  <2>1. q = o
    BY <1>2, <1>15 DEF ReconcileFailed
  <2> QED
    BY <1>15, <2>1
<1> QED
  BY <1>3, <1>4, <1>5, <1>6, <1>7, <1>8, <1>9, <1>10, <1>12, <1>13, <1>14, <1>15
  DEF Next, Request, HandlerStep, ReconcilerStep, Environment

\* An unknown outcome is given up as failed only at the word of the operation's own session, or
\* of an active session of its project and identity once the own one was closed or restarted,
\* never when it was revoked (require_operation_for_reconcile).
THEOREM OwnersReconcile == Spec => OnlyOwnersReconcile
<1>1. ASSUME TypeOK, Gate, Works, Shape, [Next]_vars, NEW o \in Op,
             bridge = "up", state[o] = "unknown", state'[o] = "failed"
      PROVE  \E s \in Session :
               /\ status'[s] = "active" /\ home[s] = project[o]
               /\ IdentityOf[s] = IdentityOf[session[o]]
               /\ s # session[o] => status'[session[o]] \notin {"active", "removed"}
  BY <1>1, GivenUpByWord DEF ReconcileFailed, MayReconcile, RequireActive
<1>2. Init => Gate /\ Works /\ Shape
  BY DEF Init, Gate, Works, Shape, Confirmed, InLock, Locked, Mutation
<1>3. TypeOK /\ Gate /\ Works /\ Shape /\ [Next]_vars =>
        [\A o \in Op : bridge = "up" /\ state[o] = "unknown" /\ state'[o] = "failed" =>
           \E s \in Session :
             /\ status'[s] = "active" /\ home[s] = project[o]
             /\ IdentityOf[s] = IdentityOf[session[o]]
             /\ s # session[o] => status'[session[o]] \notin {"active", "removed"}]_vars
  BY <1>1
<1> QED
  BY <1>2, <1>3, TypeCorrect, RunsOnceAlways, GateStep, WorksStep, ShapeStep, PTL
  DEF Spec, OnlyOwnersReconcile

\* The strengthening: a handler between two commits has the event loop to itself, as has a
\* reconciliation that finalizes a checkpoint; so the session of a confirmed command, which its
\* body does not look at again, is still the active one that Confirm has seen.
Turns ==
  /\ \A o \in Op : pc[o] \in Holding => loop = o
  /\ \A r \in Reconciler : recAt[r] = "recorded" => loop = r
  /\ \A o \in Op : pc[o] \in {"ready", "dispatched", "body"} /\ ~Rechecks(o) =>
       session[o] # None /\ status[session[o]] = "active" /\ home[session[o]] = project[o]

\* Every step leaves the turn to whoever has it.
LEMMA TurnsStep ==
  ASSUME TypeOK, Gate, Shape, Turns, [Next]_vars
  PROVE  Turns'
<1> USE RequestsAssumption
    DEF TypeOK, Gate, Shape, Turns, Rechecks, Confirmed, Mutation, Holding, Suspended, Idle,
        TransitionFrom, Transition, Continue, Suspend, Answer, RecSuspend, RecAnswer,
        registryVars, sessionVars, rowVars, effectVars, recVars
<1>1. ASSUME UNCHANGED <<loop, status, home, rowVars, approval, pc, recAt>> PROVE Turns'
  BY <1>1
<1>2. CASE UNCHANGED vars \/ BeginShutdown \/ FinishShutdown
  BY <1>1, <1>2 DEF vars, BeginShutdown, FinishShutdown
<1>3. ASSUME UNCHANGED <<loop, rowVars, approval, pc, recAt>>, loop = None PROVE Turns'
  BY <1>3
<1>4. CASE RefreshRegistry
  BY <1>3, <1>4 DEF RefreshRegistry
<1>5. ASSUME NEW s \in Session, OpenStep(s) \/ \E p \in Project : ProjectOpen(s, p) PROVE Turns'
  BY <1>3, <1>5 DEF OpenStep, SessionCreated, OpenFails, ProjectOpen
<1>6. ASSUME NEW s \in Session, CloseSession(s) PROVE Turns'
  BY <1>6 DEF CloseSession, Quiet
<1>7. ASSUME NEW p \in Project, Configure(p) PROVE Turns'
  BY <1>1, <1>7 DEF Configure
<1>8. ASSUME NEW o \in Op, StrayEnds(o) PROVE Turns'
  BY <1>1, <1>8 DEF StrayEnds
<1>9. ASSUME NEW o \in Op, NEW p \in Project, NEW s \in Session, NEW k \in Kinds,
             Start(o, p, s, k)
      PROVE  Turns'
  BY <1>9 DEF Start
<1>10. ASSUME NEW o \in Op, Confirm(o) PROVE Turns'
  BY <1>10 DEF Confirm, OwnedAwaiting, RequireActive
<1>11. ASSUME NEW o \in Op, CancelApproval(o) PROVE Turns'
  BY <1>11 DEF CancelApproval, OwnedAwaiting
<1>12. ASSUME NEW o \in Op, Validate(o) \/ AuthorizeFails(o) \/ CheckPasses(o) \/ CheckFails(o)
       PROVE  Turns'
  BY <1>12 DEF Validate, AuthorizeFails, CheckPasses, CheckFails
<1>13. ASSUME NEW o \in Op, Authorize(o) PROVE Turns'
  BY <1>13 DEF Authorize
<1>14. ASSUME NEW o \in Op, IssueApproval(o) \/ AwaitApproval(o) \/ CancelOperation(o)
       PROVE  Turns'
  BY <1>14 DEF IssueApproval, AwaitApproval, CancelOperation
<1>15. ASSUME NEW o \in Op, Dispatch(o) \/ Run(o) PROVE Turns'
  BY <1>15 DEF Dispatch, Run
<1>16. ASSUME NEW o \in Op, EnterBody(o) \/ BodyRefused(o) PROVE Turns'
  BY <1>16 DEF EnterBody, BodyRefused
<1>17. ASSUME NEW o \in Op, AcquireLock(o) \/ TakeCheckpoint(o) \/ Act(o) \/ Finalize(o)
       PROVE  Turns'
  BY <1>17 DEF AcquireLock, TakeCheckpoint, Act, Finalize
<1>18. ASSUME NEW o \in Op, NEW point \in {"precheck", "acting", "applied", "reading"}, NEW to,
              BodyEnds(o, point, to)
       PROVE  Turns'
  BY <1>18 DEF BodyEnds
<1>19. ASSUME NEW o \in Op, \/ ReadReturns(o) \/ PrecheckFails(o) \/ ActionRefused(o)
                            \/ OutcomeUncertain(o) \/ CommandFails(o) \/ StoreFails(o)
       PROVE  Turns'
  BY <1>18, <1>19 DEF ReadReturns, PrecheckFails, ActionRefused, OutcomeUncertain, CommandFails,
     StoreFails
<1>20. ASSUME NEW o \in Op, MoveTimesOut(o) \/ Finish(o) \/ Cancel(o) PROVE Turns'
  BY <1>20 DEF MoveTimesOut, Finish, Cancel
<1>21. ASSUME NEW o \in Op, NEW s \in Session, ReconcileFailed(o, s) PROVE Turns'
  BY <1>3, <1>21 DEF ReconcileFailed
<1>22. ASSUME NEW r \in Reconciler, NEW o \in Op, NEW s \in Session, ReconcileSucceeded(r, o, s)
       PROVE  Turns'
  BY <1>22 DEF ReconcileSucceeded
<1>23. ASSUME NEW r \in Reconciler, \/ RecAcquire(r) \/ RecVerifyFails(r) \/ RecRecord(r)
                                    \/ RecFinish(r) \/ RecCancel(r)
       PROVE  Turns'
  BY <1>23 DEF RecAcquire, RecVerifyFails, RecRecord, RecFinish, RecCancel
<1>24. CASE Crash
  BY <1>24 DEF Crash
<1>25. CASE BridgeStart
  BY <1>25 DEF BridgeStart
<1> QED
  BY <1>2, <1>4, <1>5, <1>6, <1>7, <1>8, <1>9, <1>10, <1>11, <1>12, <1>13, <1>14, <1>15, <1>16,
     <1>17, <1>19, <1>20, <1>21, <1>22, <1>23, <1>24, <1>25
  DEF Next, Request, HandlerStep, ReconcilerStep, ShutdownStep, Environment

\* A body goes on to its first suspension through EnterBody alone.
LEMMA BodyEnters ==
  ASSUME TypeOK, [Next]_vars, NEW o \in Op, pc[o] = "body", pc'[o] \in Suspended
  PROVE  EnterBody(o)
<1> USE DEF TypeOK, Suspended, Continue, Suspend, Answer, recVars, rowVars
<1>1. ASSUME NEW q \in Op, NEW point, pc' = [pc EXCEPT ![q] = point]
      PROVE  q = o
  BY <1>1
<1>2. ~UNCHANGED pc
  OBVIOUS
<1>3. CASE UNCHANGED vars \/ RefreshRegistry \/ BeginShutdown \/ ShutdownStep \/ BridgeStart
  BY <1>2, <1>3 DEF vars, RefreshRegistry, BeginShutdown, ShutdownStep, CloseSession,
     FinishShutdown, BridgeStart
<1>4. ~Crash
  BY DEF Crash
<1>5. ASSUME NEW s \in Session, OpenStep(s) \/ \E p \in Project : ProjectOpen(s, p) PROVE FALSE
  BY <1>2, <1>5 DEF OpenStep, SessionCreated, OpenFails, ProjectOpen
<1>6. ASSUME NEW p \in Project, Configure(p) PROVE FALSE
  BY <1>2, <1>6 DEF Configure
<1>7. ASSUME NEW q \in Op, StrayEnds(q) \/ \E s \in Session : ReconcileFailed(q, s) PROVE FALSE
  BY <1>2, <1>7 DEF StrayEnds, ReconcileFailed
<1>8. ASSUME NEW r \in Reconciler,
             \/ RecAcquire(r) \/ RecVerifyFails(r) \/ RecRecord(r) \/ RecFinish(r) \/ RecCancel(r)
             \/ \E q \in Op, t \in Session : ReconcileSucceeded(r, q, t)
      PROVE  FALSE
  BY <1>2, <1>8 DEF RecAcquire, RecVerifyFails, RecRecord, RecFinish, RecCancel, ReconcileSucceeded
<1>9. ASSUME NEW q \in Op,
             \/ \E p \in Project, t \in Session, k \in Kinds : Start(q, p, t, k)
             \/ Confirm(q) \/ CancelApproval(q)
      PROVE  FALSE
  BY <1>9 DEF Start, Confirm, CancelApproval, OwnedAwaiting
<1>10. ASSUME NEW q \in Op,
              \/ Validate(q) \/ Authorize(q) \/ AuthorizeFails(q) \/ CheckPasses(q)
              \/ CheckFails(q) \/ IssueApproval(q) \/ AwaitApproval(q) \/ CancelOperation(q)
              \/ Dispatch(q) \/ Run(q) \/ BodyRefused(q)
       PROVE  FALSE
  BY <1>10 DEF Validate, Authorize, AuthorizeFails, CheckPasses, CheckFails, IssueApproval,
     AwaitApproval, CancelOperation, Dispatch, Run, BodyRefused
<1>11. ASSUME NEW q \in Op, NEW point \in {"precheck", "acting", "applied", "reading"}, NEW to,
              BodyEnds(q, point, to)
       PROVE  FALSE
  BY <1>11 DEF BodyEnds
<1>12. ASSUME NEW q \in Op,
              \/ ReadReturns(q) \/ PrecheckFails(q) \/ ActionRefused(q) \/ OutcomeUncertain(q)
              \/ CommandFails(q) \/ StoreFails(q)
       PROVE  FALSE
  BY <1>11, <1>12 DEF ReadReturns, PrecheckFails, ActionRefused, OutcomeUncertain, CommandFails,
     StoreFails
<1>13. ASSUME NEW q \in Op,
              \/ AcquireLock(q) \/ TakeCheckpoint(q) \/ Act(q) \/ Finalize(q)
              \/ MoveTimesOut(q) \/ Finish(q) \/ Cancel(q)
       PROVE  FALSE
  BY <1>13 DEF AcquireLock, TakeCheckpoint, Act, Finalize, MoveTimesOut, Finish, Cancel
<1>14. ASSUME NEW q \in Op, EnterBody(q) PROVE EnterBody(o)
  BY <1>1, <1>14 DEF EnterBody
<1> QED
  BY <1>3, <1>4, <1>5, <1>6, <1>7, <1>8, <1>9, <1>10, <1>12, <1>13, <1>14
  DEF Next, Request, HandlerStep, ReconcilerStep, Environment

\* The body of a request comes to its first await, the lock's queue included, only with a
\* registered project and an active session of it, whether it checks both (_require_session) or
\* trusts what Confirm has seen.  Nothing is said of its later steps: who has waited for the lock
\* is not checked again, which is why NoTurnForTheRevoked does not hold.
THEOREM BodiesAreCheckedFirst == Spec => BodiesBeginAlive
<1>1. ASSUME TypeOK, Turns, [Next]_vars, NEW o \in Op, pc[o] = "body", pc'[o] \in Suspended
      PROVE  /\ project[o] \in registered' /\ status'[session[o]] = "active"
             /\ home[session[o]] = project[o]
  <2>1. EnterBody(o)
    BY <1>1, BodyEnters
  <2>2. CASE Rechecks(o)
    BY <2>1, <2>2 DEF EnterBody, RequireSession, RequireActive
  <2>3. CASE ~Rechecks(o)
    BY <1>1, <2>1, <2>3 DEF EnterBody, RequireSession, RequireActive, Turns
  <2> QED
    BY <2>2, <2>3
<1>2. Init => Gate /\ Works /\ Shape /\ Turns
  BY DEF Init, Gate, Works, Shape, Turns, Confirmed, InLock, Locked, Mutation, Holding
<1>3. TypeOK /\ Turns /\ [Next]_vars =>
        [\A o \in Op : pc[o] = "body" /\ pc'[o] \in Suspended =>
           /\ project[o] \in registered'
           /\ status'[session[o]] = "active"
           /\ home[session[o]] = project[o]]_vars
  BY <1>1
<1>4. Spec => [](TypeOK /\ Turns)
  BY <1>2, TypeCorrect, RunsOnceAlways, GateStep, WorksStep, ShapeStep, TurnsStep, PTL DEF Spec
<1>5. Spec => [][Next]_vars
  BY PTL DEF Spec
<1> QED
  BY <1>3, <1>4, <1>5, PTL DEF BodiesBeginAlive

\* The strengthening: a body that has not acted yet has changed nothing, and has left no
\* subprocess that could.
Untouched ==
  \A o \in Op : state[o] \in BeforeRun \/ pc[o] \in {"body", "waiting", "precheck", "acting"} =>
    ~effect[o] /\ ~stray[o]

\* Every step keeps the repository untouched before it is acted on.
LEMMA UntouchedStep ==
  ASSUME TypeOK, Gate, Works, Untouched, [Next]_vars
  PROVE  Untouched'
<1> USE DEF TypeOK, Gate, Works, Untouched, BeforeRun, Locked, Mutation, Suspended, Idle,
            TransitionFrom, Transition, OperationTransitions, Continue, Suspend, Answer,
            registryVars, sessionVars, rowVars, effectVars, recVars
<1>1. ASSUME UNCHANGED <<state, effect, stray, pc>> PROVE Untouched'
  BY <1>1
<1>2. CASE UNCHANGED vars \/ RefreshRegistry \/ BeginShutdown \/ ShutdownStep
  BY <1>1, <1>2 DEF vars, RefreshRegistry, BeginShutdown, ShutdownStep, CloseSession,
     FinishShutdown
<1>3. ASSUME NEW s \in Session, OpenStep(s) \/ \E p \in Project : ProjectOpen(s, p)
      PROVE  Untouched'
  BY <1>1, <1>3 DEF OpenStep, SessionCreated, OpenFails, ProjectOpen
<1>4. ASSUME NEW p \in Project, Configure(p) PROVE Untouched'
  BY <1>1, <1>4 DEF Configure
<1>5. ASSUME NEW o \in Op, StrayEnds(o) PROVE Untouched'
  BY <1>5 DEF StrayEnds
<1>6. ASSUME NEW o \in Op, NEW p \in Project, NEW s \in Session, NEW k \in Kinds,
             Start(o, p, s, k)
      PROVE  Untouched'
  BY <1>6 DEF Start, Unseen
<1>7. ASSUME NEW o \in Op, Validate(o) \/ Authorize(o) \/ AuthorizeFails(o) \/ CheckPasses(o)
                           \/ CheckFails(o) \/ IssueApproval(o) \/ AwaitApproval(o)
      PROVE  Untouched'
  BY <1>7 DEF Validate, Authorize, AuthorizeFails, CheckPasses, CheckFails, IssueApproval,
     AwaitApproval
<1>8. ASSUME NEW o \in Op, Confirm(o) \/ CancelApproval(o) \/ CancelOperation(o) PROVE Untouched'
  BY <1>8 DEF Confirm, CancelApproval, CancelOperation, OwnedAwaiting
<1>9. ASSUME NEW o \in Op, Dispatch(o) \/ Run(o) PROVE Untouched'
  BY <1>9 DEF Dispatch, Run
<1>10. ASSUME NEW o \in Op, EnterBody(o) \/ BodyRefused(o) \/ AcquireLock(o) PROVE Untouched'
  BY <1>10 DEF EnterBody, BodyRefused, AcquireLock
<1>11. ASSUME NEW o \in Op, NEW point \in {"precheck", "acting", "applied", "reading"},
              NEW to \in {"succeeded", "failed", "unknown"}, BodyEnds(o, point, to)
       PROVE  Untouched'
  BY <1>11 DEF BodyEnds
<1>12. ASSUME NEW o \in Op, \/ ReadReturns(o) \/ PrecheckFails(o) \/ ActionRefused(o)
                            \/ OutcomeUncertain(o) \/ CommandFails(o) \/ StoreFails(o)
       PROVE  Untouched'
  BY <1>11, <1>12 DEF ReadReturns, PrecheckFails, ActionRefused, OutcomeUncertain, CommandFails,
     StoreFails
<1>13. ASSUME NEW o \in Op, TakeCheckpoint(o) \/ Act(o) \/ Finalize(o) PROVE Untouched'
  BY <1>13 DEF TakeCheckpoint, Act, Finalize
<1>14. ASSUME NEW o \in Op, MoveTimesOut(o) \/ Finish(o) PROVE Untouched'
  BY <1>14 DEF MoveTimesOut, Finish
<1>15. ASSUME NEW o \in Op, Cancel(o) PROVE Untouched'
  BY <1>15 DEF Cancel, CancelLeavesState
<1>16. ASSUME NEW o \in Op, NEW s \in Session, ReconcileFailed(o, s) PROVE Untouched'
  BY <1>16 DEF ReconcileFailed
<1>17. ASSUME NEW r \in Reconciler,
              \/ RecAcquire(r) \/ RecVerifyFails(r) \/ RecRecord(r) \/ RecCancel(r)
              \/ \E o \in Op, s \in Session : ReconcileSucceeded(r, o, s)
       PROVE  Untouched'
  BY <1>1, <1>17 DEF RecAcquire, RecVerifyFails, RecRecord, RecCancel, ReconcileSucceeded
<1>18. ASSUME NEW r \in Reconciler, RecFinish(r) PROVE Untouched'
  BY <1>18 DEF RecFinish
<1>19. CASE Crash
  BY <1>19 DEF Crash
<1>20. CASE BridgeStart
  BY <1>20 DEF BridgeStart, RecoveredState
<1> QED
  BY <1>2, <1>3, <1>4, <1>5, <1>6, <1>7, <1>8, <1>9, <1>10, <1>12, <1>13, <1>14, <1>15, <1>16,
     <1>17, <1>18, <1>19, <1>20
  DEF Next, Request, HandlerStep, ReconcilerStep, Environment

\* Without the two rare faults, only a body that has changed nothing is taken to have failed.
LEMMA FailsUntouched ==
  ASSUME Faults = {}, TypeOK, Gate, Works, Untouched, [Next]_vars, NEW o \in Op,
         Mutation(kind[o]), kind[o] # "command", state[o] = "running", state'[o] = "failed"
  PROVE  ~effect'[o] /\ ~stray'[o]
<1> USE DEF TypeOK, Gate, Works, Untouched, Locked, Mutation, Suspended, Idle,
            TransitionFrom, Transition, Answer, rowVars, effectVars, recVars
<1>1. ~UNCHANGED state
  OBVIOUS
<1>2. ~UNCHANGED vars /\ ~RefreshRegistry /\ ~BeginShutdown /\ ~ShutdownStep /\ ~Crash
  BY <1>1 DEF vars, RefreshRegistry, BeginShutdown, ShutdownStep, CloseSession, FinishShutdown,
     Crash
<1>3. ~BridgeStart
  BY DEF BridgeStart, RecoveredState
<1>4. ASSUME NEW t \in Session, OpenStep(t) \/ \E p \in Project : ProjectOpen(t, p) PROVE FALSE
  BY <1>1, <1>4 DEF OpenStep, SessionCreated, OpenFails, ProjectOpen
<1>5. ASSUME NEW p \in Project, Configure(p) PROVE FALSE
  BY <1>1, <1>5 DEF Configure
<1>6. ASSUME NEW q \in Op, \E p \in Project, t \in Session, k \in Kinds : Start(q, p, t, k)
      PROVE  FALSE
  BY <1>6 DEF Start, Unseen
<1>7. ASSUME NEW q \in Op,
             \/ Confirm(q) \/ CancelApproval(q) \/ StrayEnds(q) \/ Authorize(q) \/ CheckPasses(q)
             \/ IssueApproval(q) \/ EnterBody(q) \/ AcquireLock(q) \/ TakeCheckpoint(q) \/ Act(q)
             \/ Finalize(q)
      PROVE  FALSE
  BY <1>1, <1>7 DEF Confirm, CancelApproval, StrayEnds, Authorize, CheckPasses, IssueApproval,
     EnterBody, AcquireLock, TakeCheckpoint, Act, Finalize
<1>8. ASSUME NEW r \in Reconciler,
             \/ RecAcquire(r) \/ RecVerifyFails(r) \/ RecRecord(r) \/ RecFinish(r) \/ RecCancel(r)
             \/ \E q \in Op, t \in Session : ReconcileSucceeded(r, q, t)
      PROVE  FALSE
  BY <1>1, <1>8 DEF RecAcquire, RecVerifyFails, RecRecord, RecFinish, RecCancel, ReconcileSucceeded
<1>9. ASSUME NEW q \in Op,
             \/ Validate(q) \/ AuthorizeFails(q) \/ CheckFails(q) \/ AwaitApproval(q)
             \/ CancelOperation(q) \/ Dispatch(q) \/ Run(q)
             \/ \E t \in Session : ReconcileFailed(q, t)
      PROVE  FALSE
  BY <1>9 DEF Validate, AuthorizeFails, CheckFails, AwaitApproval, CancelOperation, Dispatch, Run,
     ReconcileFailed
<1>10. ASSUME NEW q \in Op, ReadReturns(q) \/ OutcomeUncertain(q) \/ CommandFails(q) \/ Finish(q)
       PROVE  FALSE
  BY <1>10 DEF ReadReturns, OutcomeUncertain, CommandFails, BodyEnds, Finish
<1>11. ASSUME NEW q \in Op, StoreFails(q) \/ MoveTimesOut(q) PROVE FALSE
  BY <1>11 DEF StoreFails, MoveTimesOut
<1>12. ASSUME NEW q \in Op, Cancel(q) PROVE FALSE
  BY <1>1, <1>12 DEF Cancel
<1>13. ASSUME NEW q \in Op, BodyRefused(q) \/ PrecheckFails(q) \/ ActionRefused(q)
       PROVE  /\ q = o /\ UNCHANGED <<effect, stray>>
              /\ pc[q] \in {"body", "waiting", "precheck", "acting"}
  BY <1>13 DEF BodyRefused, PrecheckFails, ActionRefused, BodyEnds
<1>14. ASSUME NEW q \in Op, BodyRefused(q) \/ PrecheckFails(q) \/ ActionRefused(q)
       PROVE  ~effect'[o] /\ ~stray'[o]
  BY <1>13, <1>14
<1> QED
  BY <1>2, <1>3, <1>4, <1>5, <1>6, <1>7, <1>8, <1>9, <1>10, <1>11, <1>12, <1>14
  DEF Next, Request, HandlerStep, ReconcilerStep, Environment

\* As long as no row fails to be written and no move is killed, a mutation that is recorded as
\* failed while its body ran has no effect and leaves nothing that could still have one.
THEOREM FailureIsNoGuess ==
  ASSUME Faults = {}
  PROVE  Spec => NoGuessedFailure
<1>1. Init => Gate /\ Works /\ Untouched
  BY DEF Init, Gate, Works, Untouched, Confirmed, InLock, Locked, Mutation
<1>2. TypeOK /\ Gate /\ Works /\ Untouched /\ [Next]_vars =>
        [\A o \in Op :
           /\ Mutation(kind[o]) /\ kind[o] # "command"
           /\ state[o] = "running" /\ state'[o] = "failed"
           => ~effect'[o] /\ ~stray'[o]]_vars
  BY FailsUntouched
<1>3. Spec => [](TypeOK /\ Gate /\ Works /\ Untouched)
  BY <1>1, TypeCorrect, RunsOnceAlways, GateStep, WorksStep, UntouchedStep, PTL DEF Spec
<1>4. Spec => [][Next]_vars
  BY PTL DEF Spec
<1> QED
  BY <1>2, <1>3, <1>4, PTL DEF NoGuessedFailure
=============================================================================
