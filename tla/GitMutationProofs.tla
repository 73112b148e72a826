-------------------------- MODULE GitMutationProofs --------------------------
(***************************************************************************)
(* A recorded checkpoint can be restored, and an operation that failed has *)
(* changed nothing: for any number of operations, paths, branches, commits *)
(* and restarts, and wherever other Git processes interfere.               *)
(***************************************************************************)
EXTENDS GitMutation, TLAPS

JobFields == {"at", "op", "seen", "base", "amend", "result"}
RowFields == {"made", "head", "branch", "after", "restored"}

\* Up to here a body has no row of its own.
Rowless == {"policy", "snapshot", "ref", "row", "checkref", "cas"}

\* The shape of the variables as far as the argument needs it.
Shape ==
  /\ DOMAIN row = Op /\ DOMAIN refs = Op /\ DOMAIN state = Op
  /\ DOMAIN job = JobFields
  /\ \A op \in Op : row[op].made \in BOOLEAN
  /\ \A op \in Op : row[op].made => DOMAIN row[op] = RowFields
  /\ \A op \in Op : ~row[op].made => row[op] = NoRow
  /\ job.at # "idle" => job.op \in Op

\* A row is written once, by the body of its operation.
RowsAreFresh ==
  /\ \A op \in Op : state[op] = "free" => ~row[op].made
  /\ job.at \in Rowless => ~row[Mine].made
  /\ job.at # "idle" => state[Mine] # "free"

\* Between update-ref and the transaction the ref is that of the snapshot.
RefIsTaken == job.at = "row" => refs[Mine] = job.base.head

IInv == Shape /\ RowsAreFresh /\ RefIsTaken /\ CheckpointHasRef

-----------------------------------------------------------------------------

LEMMA InitEstablishes == Init => IInv
<1> SUFFICES ASSUME Init PROVE IInv
  OBVIOUS
<1>1. /\ refs = [op \in Op |-> 0] /\ row = [op \in Op |-> NoRow]
      /\ state = [op \in Op |-> "free"] /\ job = NoJob
  BY DEF Init
<1>2. Shape
  BY <1>1 DEF Shape, NoRow, NoJob, JobFields
<1>3. RowsAreFresh /\ RefIsTaken /\ CheckpointHasRef
  BY <1>1 DEF RowsAreFresh, RefIsTaken, CheckpointHasRef, NoRow, NoJob, Rowless
<1> QED BY <1>2, <1>3 DEF IInv

\* A step that leaves refs, rows and states alone and moves the body on within
\* its rowless points, or within the others, or ends it.
LEMMA BodyGoesOn ==
  ASSUME IInv, UNCHANGED <<refs, row, state>>,
         DOMAIN job' = JobFields,
         job'.at # "idle" => job'.op \in Op /\ state[job'.op] # "free",
         job'.at \in Rowless => job'.op = job.op /\ job.at \in Rowless,
         job'.at # "row"
  PROVE  IInv'
<1>1. Shape'
  BY DEF IInv, Shape
<1>2. RowsAreFresh'
  BY DEF IInv, RowsAreFresh, Mine
<1>3. RefIsTaken' /\ CheckpointHasRef'
  BY DEF IInv, RefIsTaken, CheckpointHasRef
<1> QED BY <1>1, <1>2, <1>3 DEF IInv

LEMMA OthersStep ==
  ASSUME IInv, UNCHANGED <<refs, row, state, job>>
  PROVE  IInv'
BY DEF IInv, Shape, RowsAreFresh, RefIsTaken, CheckpointHasRef, Mine

\* A body ends, or a reconciliation or a restart changes states, but never to
\* "free".
LEMMA StatesChange ==
  ASSUME IInv, UNCHANGED <<refs, row>>, DOMAIN state' = Op,
         \A op \in Op : state'[op] = "free" => state[op] = "free",
         job' \in {job, NoJob}
  PROVE  IInv'
<1>1. Shape'
  BY DEF IInv, Shape, NoJob, JobFields
<1>2. RowsAreFresh'
  BY DEF IInv, Shape, RowsAreFresh, Mine, NoJob, Rowless
<1>3. RefIsTaken' /\ CheckpointHasRef'
  BY DEF IInv, RefIsTaken, CheckpointHasRef, Mine, NoJob
<1> QED BY <1>1, <1>2, <1>3 DEF IInv

-----------------------------------------------------------------------------
(* The steps that begin an operation, and that write a ref or a row.       *)

LEMMA BeginStep ==
  ASSUME IInv, NEW op \in Op, NEW request, NEW point \in {"policy", "checkref"},
         Begin(op, request, point), UNCHANGED <<refs, row>>
  PROVE  IInv'
<1>1. Shape'
  BY DEF IInv, Shape, Begin, NoJob, JobFields
<1>2. RowsAreFresh'
  BY DEF IInv, Shape, RowsAreFresh, Begin, Mine, NoJob
<1>3. RefIsTaken' /\ CheckpointHasRef'
  BY DEF IInv, RefIsTaken, CheckpointHasRef, Begin, NoJob
<1> QED BY <1>1, <1>2, <1>3 DEF IInv

LEMMA CreateRefStep == IInv /\ CreateRef => IInv'
<1> SUFFICES ASSUME IInv, CreateRef PROVE IInv'
  OBVIOUS
<1>1. /\ job' = [job EXCEPT !.at = "row", !.seen = NoTip]
      /\ refs' = [refs EXCEPT ![Mine] = job.base.head]
      /\ UNCHANGED <<row, state>> /\ Mine \in Op /\ ~row[Mine].made
      /\ state[Mine] # "free" /\ DOMAIN job = JobFields
  BY DEF IInv, Shape, RowsAreFresh, Rowless, CreateRef, At, GoTo, Mine
<1>2. Mine' = Mine /\ job'.base = job.base /\ job'.at = "row" /\ DOMAIN job' = JobFields
  BY <1>1 DEF Mine, JobFields
<1>3. Shape'
  BY <1>1, <1>2 DEF IInv, Shape, Mine
<1>4. RowsAreFresh' /\ RefIsTaken'
  BY <1>1, <1>2 DEF IInv, Shape, RowsAreFresh, RefIsTaken
<1>5. CheckpointHasRef'
  BY <1>1 DEF IInv, Shape, CheckpointHasRef
<1> QED BY <1>3, <1>4, <1>5 DEF IInv

LEMMA InsertRowStep == IInv /\ InsertRow => IInv'
<1> SUFFICES ASSUME IInv, InsertRow PROVE IInv'
  OBVIOUS
<1> DEFINE new == [made |-> TRUE, head |-> job.base.head, branch |-> job.base.branch,
                   after |-> None, restored |-> FALSE]
<1>1. /\ job' = [job EXCEPT !.at = IF ask[Mine].task = "restore" THEN "reset" ELSE "mode",
                            !.seen = NoTip]
      /\ row' = [row EXCEPT ![Mine] = new]
      /\ UNCHANGED <<refs, state>> /\ Mine \in Op /\ state[Mine] # "free"
      /\ refs[Mine] = job.base.head /\ DOMAIN job = JobFields
  BY DEF IInv, Shape, RowsAreFresh, RefIsTaken, InsertRow, At, GoTo, Mine
<1>2. Mine' = Mine /\ job'.at \in {"reset", "mode"} /\ DOMAIN job' = JobFields
  BY <1>1 DEF Mine, JobFields
<1>3. DOMAIN new = RowFields /\ new.made /\ new.head = job.base.head
  BY DEF RowFields
<1> HIDE DEF new
<1>4. Shape'
  BY <1>1, <1>2, <1>3 DEF IInv, Shape, Mine
<1>5. RowsAreFresh' /\ RefIsTaken'
  BY <1>1, <1>2, <1>3 DEF IInv, Shape, RowsAreFresh, RefIsTaken, Rowless
<1>6. CheckpointHasRef'
  BY <1>1, <1>3 DEF IInv, Shape, CheckpointHasRef
<1> QED BY <1>4, <1>5, <1>6 DEF IInv

LEMMA InsertFailsStep == IInv /\ InsertFails => IInv'
<1> SUFFICES ASSUME IInv, InsertFails PROVE IInv'
  OBVIOUS
<1>1. /\ job' = NoJob /\ refs' = [refs EXCEPT ![Mine] = 0]
      /\ state' = [state EXCEPT ![Mine] = "failed"] /\ UNCHANGED row
      /\ Mine \in Op /\ ~row[Mine].made
  BY DEF IInv, Shape, RowsAreFresh, Rowless, InsertFails, At, EndJob, Mine
<1>2. Shape'
  BY <1>1 DEF IInv, Shape, NoJob, JobFields
<1>3. RowsAreFresh' /\ RefIsTaken'
  BY <1>1 DEF IInv, Shape, RowsAreFresh, RefIsTaken, NoJob, Rowless
<1>4. CheckpointHasRef'
  BY <1>1 DEF IInv, Shape, CheckpointHasRef
<1> QED BY <1>2, <1>3, <1>4 DEF IInv

\* Finalization and restoration write fields of a row that say nothing of the
\* checkpoint itself.
LEMMA RowNoted ==
  ASSUME IInv, NEW op, NEW value,
         \/ row' = [row EXCEPT ![op].after = value]
         \/ row' = [row EXCEPT ![op].restored = value],
         UNCHANGED <<refs, state>>, DOMAIN job' = JobFields, Mine' = Mine,
         job.at # "idle", job'.at \notin Rowless
  PROVE  IInv'
<1>1. /\ DOMAIN row' = Op
      /\ \A o \in Op : o # op => row'[o] = row[o]
  BY DEF IInv, Shape
<1>2. ASSUME op \in Op, row[op].made
      PROVE  /\ DOMAIN row'[op] = RowFields
             /\ row'[op].made = row[op].made /\ row'[op].head = row[op].head
  BY <1>2 DEF IInv, Shape, RowFields
<1>3. ASSUME op \in Op, ~row[op].made PROVE row'[op] = row[op]
  <2>1. row[op] = [made |-> FALSE]
    BY <1>3 DEF IInv, Shape, NoRow
  <2>2. /\ [row[op] EXCEPT !.after = value] = row[op]
        /\ [row[op] EXCEPT !.restored = value] = row[op]
    BY <2>1
  <2> QED BY <2>2, <1>3 DEF IInv, Shape
<1>4. Shape'
  BY <1>1, <1>2, <1>3 DEF IInv, Shape, Mine
<1>5. RowsAreFresh' /\ RefIsTaken'
  BY <1>1, <1>2, <1>3 DEF IInv, Shape, RowsAreFresh, RefIsTaken, Rowless, Mine
<1>6. CheckpointHasRef'
  BY <1>1, <1>2, <1>3 DEF IInv, Shape, CheckpointHasRef
<1> QED BY <1>4, <1>5, <1>6 DEF IInv


-----------------------------------------------------------------------------
(* Every step.                                                             *)

LEMMA BodyStep ==
  ASSUME IInv, Body
  PROVE  IInv'
<1> USE DEF rowVars, GoTo, Rowless
<1>0. DOMAIN job = JobFields /\ (job.at # "idle" => Mine \in Op /\ state[Mine] # "free")
  BY DEF IInv, Shape, RowsAreFresh, Mine
<1>1. CASE Inspect
  <2>1. /\ UNCHANGED <<refs, row, state>>
        /\ DOMAIN job' = JobFields /\ job'.op = job.op
        /\ job.at # "idle" /\ job'.at # "row"
        /\ job'.at \in Rowless => job.at \in Rowless
    BY <1>1, <1>0 DEF Inspect, StatusPoints, JobFields
  <2> QED BY <1>0, <2>1, BodyGoesOn DEF Mine
<1>2. CASE Policy
  <2>1. /\ UNCHANGED <<refs, row, state>>
        /\ DOMAIN job' = JobFields /\ job'.op = job.op
        /\ job.at # "idle" /\ job'.at # "row"
        /\ job'.at \in Rowless => job.at \in Rowless
    BY <1>2, <1>0 DEF Policy, Saw, Goes, JobFields
  <2> QED BY <1>0, <2>1, BodyGoesOn DEF Mine
<1>3. CASE Snapshot
  <2>1. /\ UNCHANGED <<refs, row, state>>
        /\ DOMAIN job' = JobFields /\ job'.op = job.op
        /\ job.at # "idle" /\ job'.at # "row"
        /\ job'.at \in Rowless => job.at \in Rowless
    BY <1>3, <1>0 DEF Snapshot, Saw, JobFields
  <2> QED BY <1>0, <2>1, BodyGoesOn DEF Mine
<1>4. CASE Mode
  <2>1. /\ UNCHANGED <<refs, row, state>>
        /\ DOMAIN job' = JobFields /\ job'.op = job.op
        /\ job.at # "idle" /\ job'.at # "row"
        /\ job'.at \in Rowless => job.at \in Rowless
    BY <1>4, <1>0 DEF Mode, Saw, Goes, JobFields
  <2> QED BY <1>0, <2>1, BodyGoesOn DEF Mine
<1>5. CASE Footer
  <2>1. /\ UNCHANGED <<refs, row, state>>
        /\ DOMAIN job' = JobFields /\ job'.op = job.op
        /\ job.at # "idle" /\ job'.at # "row"
        /\ job'.at \in Rowless => job.at \in Rowless
    BY <1>5, <1>0 DEF Footer, At, Goes, JobFields
  <2> QED BY <1>0, <2>1, BodyGoesOn DEF Mine
<1>6. CASE SharedRefs
  <2>1. /\ UNCHANGED <<refs, row, state>>
        /\ DOMAIN job' = JobFields /\ job'.op = job.op
        /\ job.at # "idle" /\ job'.at # "row"
        /\ job'.at \in Rowless => job.at \in Rowless
    BY <1>6, <1>0 DEF SharedRefs, At, JobFields
  <2> QED BY <1>0, <2>1, BodyGoesOn DEF Mine
<1>7. CASE EvidenceFails
  <2>1. /\ UNCHANGED <<refs, row, state>>
        /\ DOMAIN job' = JobFields /\ job'.op = job.op
        /\ job.at # "idle" /\ job'.at # "row"
        /\ job'.at \in Rowless => job.at \in Rowless
    BY <1>7, <1>0 DEF EvidenceFails, Goes, JobFields
  <2> QED BY <1>0, <2>1, BodyGoesOn DEF Mine
<1>8. CASE Rewrite
  <2>1. /\ UNCHANGED <<refs, row, state>>
        /\ DOMAIN job' = JobFields /\ job'.op = job.op
        /\ job.at # "idle" /\ job'.at # "row"
        /\ job'.at \in Rowless => job.at \in Rowless
    BY <1>8, <1>0 DEF Rewrite, Unchanged, Saw, JobFields
  <2> QED BY <1>0, <2>1, BodyGoesOn DEF Mine
<1>9. CASE NoChange
  <2>1. /\ UNCHANGED <<refs, row, state>>
        /\ DOMAIN job' = JobFields /\ job'.op = job.op
        /\ job.at # "idle" /\ job'.at # "row"
        /\ job'.at \in Rowless => job.at \in Rowless
    BY <1>9, <1>0 DEF NoChange, Unchanged, Saw, JobFields
  <2> QED BY <1>0, <2>1, BodyGoesOn DEF Mine
<1>10. CASE Delete
  <2>1. /\ UNCHANGED <<refs, row, state>>
        /\ DOMAIN job' = JobFields /\ job'.op = job.op
        /\ job.at # "idle" /\ job'.at # "row"
        /\ job'.at \in Rowless => job.at \in Rowless
    BY <1>10, <1>0 DEF Delete, Unchanged, Saw, Goes, JobFields
  <2> QED BY <1>0, <2>1, BodyGoesOn DEF Mine
<1>11. CASE Remove
  <2>1. /\ UNCHANGED <<refs, row, state>>
        /\ DOMAIN job' = JobFields /\ job'.op = job.op
        /\ job.at # "idle" /\ job'.at # "row"
        /\ job'.at \in Rowless => job.at \in Rowless
    BY <1>11, <1>0 DEF Remove, At, JobFields
  <2> QED BY <1>0, <2>1, BodyGoesOn DEF Mine
<1>12. CASE Written
  <2>1. /\ UNCHANGED <<refs, row, state>>
        /\ DOMAIN job' = JobFields /\ job'.op = job.op
        /\ job.at # "idle" /\ job'.at # "row"
        /\ job'.at \in Rowless => job.at \in Rowless
    BY <1>12, <1>0 DEF Written, Saw, JobFields
  <2> QED BY <1>0, <2>1, BodyGoesOn DEF Mine
<1>13. CASE Verify
  <2>1. /\ UNCHANGED <<refs, row, state>>
        /\ DOMAIN job' = JobFields /\ job'.op = job.op
        /\ job.at # "idle" /\ job'.at # "row"
        /\ job'.at \in Rowless => job.at \in Rowless
    BY <1>13, <1>0 DEF Verify, At, Goes, JobFields
  <2> QED BY <1>0, <2>1, BodyGoesOn DEF Mine
<1>14. CASE VerifyShared
  <2>1. /\ UNCHANGED <<refs, row, state>>
        /\ DOMAIN job' = JobFields /\ job'.op = job.op
        /\ job.at # "idle" /\ job'.at # "row"
        /\ job'.at \in Rowless => job.at \in Rowless
    BY <1>14, <1>0 DEF VerifyShared, At, Goes, JobFields
  <2> QED BY <1>0, <2>1, BodyGoesOn DEF Mine
<1>15. CASE Commit
  <2>1. /\ UNCHANGED <<refs, row, state>>
        /\ DOMAIN job' = JobFields /\ job'.op = job.op
        /\ job.at # "idle" /\ job'.at # "row"
        /\ job'.at \in Rowless => job.at \in Rowless
    BY <1>15, <1>0 DEF Commit, At, JobFields
  <2> QED BY <1>0, <2>1, BodyGoesOn DEF Mine
<1>16. CASE Final
  <2>1. /\ UNCHANGED <<refs, row, state>>
        /\ DOMAIN job' = JobFields /\ job'.op = job.op
        /\ job.at # "idle" /\ job'.at # "row"
        /\ job'.at \in Rowless => job.at \in Rowless
    BY <1>16, <1>0 DEF Final, Saw, JobFields
  <2> QED BY <1>0, <2>1, BodyGoesOn DEF Mine
<1>17. CASE After
  <2>1. /\ UNCHANGED <<refs, row, state>>
        /\ DOMAIN job' = JobFields /\ job'.op = job.op
        /\ job.at # "idle" /\ job'.at # "row"
        /\ job'.at \in Rowless => job.at \in Rowless
    BY <1>17, <1>0 DEF After, Saw, Goes, JobFields
  <2> QED BY <1>0, <2>1, BodyGoesOn DEF Mine
<1>18. CASE CheckRef
  <2>1. /\ UNCHANGED <<refs, row, state>>
        /\ DOMAIN job' = JobFields /\ job'.op = job.op
        /\ job.at # "idle" /\ job'.at # "row"
        /\ job'.at \in Rowless => job.at \in Rowless
    BY <1>18, <1>0 DEF CheckRef, At, Goes, JobFields
  <2> QED BY <1>0, <2>1, BodyGoesOn DEF Mine
<1>19. CASE CompareAndSwap
  <2>1. /\ UNCHANGED <<refs, row, state>>
        /\ DOMAIN job' = JobFields /\ job'.op = job.op
        /\ job.at # "idle" /\ job'.at # "row"
        /\ job'.at \in Rowless => job.at \in Rowless
    BY <1>19, <1>0 DEF CompareAndSwap, Saw, Goes, JobFields
  <2> QED BY <1>0, <2>1, BodyGoesOn DEF Mine
<1>20. CASE Reset
  <2>1. /\ UNCHANGED <<refs, row, state>>
        /\ DOMAIN job' = JobFields /\ job'.op = job.op
        /\ job.at # "idle" /\ job'.at # "row"
        /\ job'.at \in Rowless => job.at \in Rowless
    BY <1>20, <1>0 DEF Reset, At, JobFields
  <2> QED BY <1>0, <2>1, BodyGoesOn DEF Mine
<1>21. CASE Restored
  <2>1. /\ UNCHANGED <<refs, row, state>>
        /\ DOMAIN job' = JobFields /\ job'.op = job.op
        /\ job.at # "idle" /\ job'.at # "row"
        /\ job'.at \in Rowless => job.at \in Rowless
    BY <1>21, <1>0 DEF Restored, Saw, JobFields
  <2> QED BY <1>0, <2>1, BodyGoesOn DEF Mine
<1>22. CASE VerifyRef
  <2>1. /\ UNCHANGED <<refs, row, state>>
        /\ DOMAIN job' = JobFields /\ job'.op = job.op
        /\ job.at # "idle" /\ job'.at # "row"
        /\ job'.at \in Rowless => job.at \in Rowless
    BY <1>22, <1>0 DEF VerifyRef, At, Goes, JobFields
  <2> QED BY <1>0, <2>1, BodyGoesOn DEF Mine
<1>23. CASE Finalize
  <2>1. /\ row' = [row EXCEPT ![Mine].after = Outcome(job.seen)]
        /\ UNCHANGED <<refs, state>>
        /\ DOMAIN job' = JobFields /\ Mine' = Mine
        /\ job.at # "idle" /\ job'.at \notin Rowless
    BY <1>23, <1>0 DEF Finalize, Saw, JobFields, Mine
  <2> QED BY <2>1, RowNoted
<1>24. CASE MarkRestored
  <2>1. /\ row' = [row EXCEPT ![ask[Mine].of].restored = TRUE]
        /\ UNCHANGED <<refs, state>>
        /\ DOMAIN job' = JobFields /\ Mine' = Mine
        /\ job.at # "idle" /\ job'.at \notin Rowless
    BY <1>24, <1>0 DEF MarkRestored, At, JobFields, Mine
  <2> QED BY <2>1, RowNoted
<1>25. CASE Evidence
  <2>1. /\ row' = [row EXCEPT ![Mine].after = Outcome(job.seen)]
        /\ UNCHANGED <<refs, state>>
        /\ DOMAIN job' = JobFields /\ Mine' = Mine
        /\ job.at # "idle" /\ job'.at \notin Rowless
    BY <1>25, <1>0 DEF Evidence, Saw, JobFields, Mine
  <2> QED BY <2>1, RowNoted
<1>26. CASE Finish
  <2>1. job.at # "idle"
    BY <1>26 DEF Finish, At
  <2> QED BY <1>26, <2>1, <1>0, StatesChange DEF Finish, At, Ends, EndJob, IInv, Shape
<1>27. CASE Resolve
  <2>1. job.at # "idle"
    BY <1>27 DEF Resolve, At
  <2> QED BY <1>27, <2>1, <1>0, StatesChange DEF Resolve, At, Ends, EndJob, IInv, Shape
<1>28. CASE Refused
  <2>1. job.at # "idle"
    BY <1>28 DEF Refused, Before
  <2> QED BY <1>28, <2>1, <1>0, StatesChange DEF Refused, Before, Ends, EndJob, IInv, Shape
<1>29. CASE Uncertain
  <2>1. job.at # "idle"
    BY <1>29 DEF Uncertain, Later
  <2> QED BY <1>29, <2>1, <1>0, StatesChange DEF Uncertain, Later, Ends, EndJob, IInv, Shape
<1>30. CASE Cancel
  <2>1. job.at # "idle"
    BY <1>30 DEF Cancel, StatusPoints, OtherPoints
  <2> QED BY <1>30, <2>1, <1>0, StatesChange DEF Cancel, StatusPoints, OtherPoints, Ends, EndJob, IInv, Shape
<1>31. CASE ReconcileEnds
  <2>1. job.at # "idle"
    BY <1>31 DEF ReconcileEnds
  <2> QED BY <1>31, <2>1, <1>0, StatesChange DEF ReconcileEnds, Ends, EndJob, IInv, Shape
<1>32. CASE WriteFails
  <2>1. job.at # "idle"
    BY <1>32 DEF WriteFails, Unchanged, Saw
  <2> QED BY <1>32, <2>1, <1>0, StatesChange DEF WriteFails, Ends, EndJob, IInv, Shape
<1> QED
  BY <1>1, <1>2, <1>3, <1>4, <1>5, <1>6, <1>7, <1>8, <1>9, <1>10, <1>11,
     <1>12, <1>13, <1>14, <1>15, <1>16, <1>17, <1>18, <1>19, <1>20, <1>21,
     <1>22, <1>23, <1>24, <1>25, <1>26, <1>27, <1>28, <1>29, <1>30, <1>31,
     <1>32,
     CreateRefStep, InsertRowStep, InsertFailsStep
     DEF Body

LEMMA EveryStep == IInv /\ [Next]_vars => IInv'
<1> SUFFICES ASSUME IInv, [Next]_vars PROVE IInv'
  OBVIOUS
<1>1. ASSUME NEW op \in Op, NEW path \in Path, NEW content \in Content \cup {Absent},
             Mutate(op, path, content)
      PROVE  IInv'
  BY <1>1, BeginStep DEF Mutate
<1>2. ASSUME NEW op \in Op, NEW of \in Op, Restore(op, of) PROVE IInv'
  BY <1>2, BeginStep DEF Restore
<1>3. ASSUME NEW op \in Op, ReconcileFailed(op) PROVE IInv'
  BY <1>3, StatesChange DEF ReconcileFailed, IInv, Shape
<1>4. ASSUME NEW op \in Op, ReconcileSucceeded(op) PROVE IInv'
  <2>1. /\ UNCHANGED <<refs, row, state>>
        /\ DOMAIN job' = JobFields /\ job'.op = op /\ job'.at = "verifyref"
        /\ state[op] # "free"
    BY <1>4 DEF ReconcileSucceeded, NoJob, JobFields, rowVars
  <2> QED BY <2>1, BodyGoesOn DEF Rowless
<1>5. CASE Body
  BY <1>5, BodyStep
<1>6. CASE Restart
  <2>1. /\ UNCHANGED <<refs, row>> /\ job' = NoJob /\ DOMAIN state' = Op
        /\ \A op \in Op : state'[op] = "free" => state[op] = "free"
    BY <1>6 DEF Restart, EndJob
  <2> QED BY <2>1, StatesChange
<1>7. CASE Others
  BY <1>7, OthersStep DEF Others, Edit, CommitAll, Publish, Switch, Interfere, rowVars
<1>8. CASE UNCHANGED vars
  BY <1>8, OthersStep DEF vars, rowVars
<1> QED
  BY <1>1, <1>2, <1>3, <1>4, <1>5, <1>6, <1>7, <1>8 DEF Next, Request

\* CheckpointService.create and what follows keep the promise of rollback: the
\* ref of every recorded checkpoint is its recorded commit.
THEOREM CheckpointsKept == Spec => []CheckpointHasRef
<1>1. IInv => CheckpointHasRef
  BY DEF IInv
<1> QED
  BY InitEstablishes, EveryStep, <1>1, PTL DEF Spec

-----------------------------------------------------------------------------
(* A failed operation has changed nothing.                                 *)

\* Up to here a body has changed neither the work tree nor a branch.
Early == Before \cup {"row", "mode", "footer", "shared"}

UntouchedSoFar ==
  /\ DOMAIN touched = Op
  /\ \A op \in Op : state[op] = "free" => ~touched[op]
  /\ job.at \in Early => ~touched[Mine]

\* The step of FailedUntouched.
FailsUntouched ==
  \A op \in Op : state[op] = "running" /\ state'[op] = "failed" => ~touched[op]

LEMMA UntouchedInit == Init => UntouchedSoFar
<1> SUFFICES ASSUME Init PROVE UntouchedSoFar
  OBVIOUS
<1>1. job = NoJob /\ touched = [op \in Op |-> FALSE]
  BY DEF Init
<1> QED BY <1>1 DEF UntouchedSoFar, NoJob, Early, Before

\* The body goes on, and has changed something if it leaves its early points.
LEMMA UntouchedOnward ==
  ASSUME IInv, UntouchedSoFar, UNCHANGED state, Mine' = Mine,
         job.at # "idle", job'.at \in Early => job.at \in Early,
         \/ UNCHANGED touched
         \/ touched' = [touched EXCEPT ![Mine] = TRUE] /\ job'.at \notin Early
  PROVE  UntouchedSoFar' /\ FailsUntouched
<1>1. Mine \in Op /\ state[Mine] # "free"
  BY DEF IInv, Shape, RowsAreFresh, Mine
<1> QED BY <1>1 DEF UntouchedSoFar, FailsUntouched

\* The body ends, and as failed only from an early point.
LEMMA UntouchedEnds ==
  ASSUME IInv, UntouchedSoFar, UNCHANGED touched, NEW to,
         state' = [state EXCEPT ![Mine] = to], job' = NoJob, job.at # "idle",
         to = "failed" => job.at \in Early \/ state[Mine] = "failed",
         to = "free" => state[Mine] = "free"
  PROVE  UntouchedSoFar' /\ FailsUntouched
<1>1. Mine \in Op /\ DOMAIN state = Op
  BY DEF IInv, Shape, Mine
<1>2. UntouchedSoFar'
  BY <1>1 DEF UntouchedSoFar, NoJob, Early, Before
<1>3. FailsUntouched
  BY <1>1 DEF UntouchedSoFar, FailsUntouched
<1> QED BY <1>2, <1>3

LEMMA UntouchedBody ==
  ASSUME IInv, UntouchedSoFar, Body
  PROVE  UntouchedSoFar' /\ FailsUntouched
<1> USE DEF rowVars, GoTo, Early, Before
<1>0. DOMAIN job = JobFields
  BY DEF IInv, Shape
<1>1. CASE Inspect
  <2>1. /\ UNCHANGED state /\ Mine' = Mine /\ job.at # "idle"
        /\ job'.at \in Early => job.at \in Early
        /\ UNCHANGED touched
    BY <1>1, <1>0 DEF Inspect, StatusPoints, JobFields, Mine
  <2> QED BY <2>1, UntouchedOnward
<1>2. CASE Policy
  <2>1. /\ UNCHANGED state /\ Mine' = Mine /\ job.at # "idle"
        /\ job'.at \in Early => job.at \in Early
        /\ UNCHANGED touched
    BY <1>2, <1>0 DEF Policy, Saw, Goes, JobFields, Mine
  <2> QED BY <2>1, UntouchedOnward
<1>3. CASE Snapshot
  <2>1. /\ UNCHANGED state /\ Mine' = Mine /\ job.at # "idle"
        /\ job'.at \in Early => job.at \in Early
        /\ UNCHANGED touched
    BY <1>3, <1>0 DEF Snapshot, Saw, JobFields, Mine
  <2> QED BY <2>1, UntouchedOnward
<1>4. CASE CreateRef
  <2>1. /\ UNCHANGED state /\ Mine' = Mine /\ job.at # "idle"
        /\ job'.at \in Early => job.at \in Early
        /\ UNCHANGED touched
    BY <1>4, <1>0 DEF CreateRef, At, JobFields, Mine
  <2> QED BY <2>1, UntouchedOnward
<1>5. CASE InsertRow
  <2>1. /\ UNCHANGED state /\ Mine' = Mine /\ job.at # "idle"
        /\ job'.at \in Early => job.at \in Early
        /\ UNCHANGED touched
    BY <1>5, <1>0 DEF InsertRow, At, JobFields, Mine
  <2> QED BY <2>1, UntouchedOnward
<1>6. CASE Mode
  <2>1. /\ UNCHANGED state /\ Mine' = Mine /\ job.at # "idle"
        /\ job'.at \in Early => job.at \in Early
        /\ UNCHANGED touched
    BY <1>6, <1>0 DEF Mode, Saw, Goes, JobFields, Mine
  <2> QED BY <2>1, UntouchedOnward
<1>7. CASE Footer
  <2>1. /\ UNCHANGED state /\ Mine' = Mine /\ job.at # "idle"
        /\ job'.at \in Early => job.at \in Early
        /\ UNCHANGED touched
    BY <1>7, <1>0 DEF Footer, At, Goes, JobFields, Mine
  <2> QED BY <2>1, UntouchedOnward
<1>8. CASE SharedRefs
  <2>1. /\ UNCHANGED state /\ Mine' = Mine /\ job.at # "idle"
        /\ job'.at \in Early => job.at \in Early
        /\ UNCHANGED touched
    BY <1>8, <1>0 DEF SharedRefs, At, JobFields, Mine
  <2> QED BY <2>1, UntouchedOnward
<1>9. CASE EvidenceFails
  <2>1. /\ UNCHANGED state /\ Mine' = Mine /\ job.at # "idle"
        /\ job'.at \in Early => job.at \in Early
        /\ UNCHANGED touched
    BY <1>9, <1>0 DEF EvidenceFails, Goes, JobFields, Mine
  <2> QED BY <2>1, UntouchedOnward
<1>10. CASE NoChange
  <2>1. /\ UNCHANGED state /\ Mine' = Mine /\ job.at # "idle"
        /\ job'.at \in Early => job.at \in Early
        /\ UNCHANGED touched
    BY <1>10, <1>0 DEF NoChange, Unchanged, Saw, JobFields, Mine
  <2> QED BY <2>1, UntouchedOnward
<1>11. CASE Delete
  <2>1. /\ UNCHANGED state /\ Mine' = Mine /\ job.at # "idle"
        /\ job'.at \in Early => job.at \in Early
        /\ UNCHANGED touched
    BY <1>11, <1>0 DEF Delete, Unchanged, Saw, Goes, JobFields, Mine
  <2> QED BY <2>1, UntouchedOnward
<1>12. CASE Written
  <2>1. /\ UNCHANGED state /\ Mine' = Mine /\ job.at # "idle"
        /\ job'.at \in Early => job.at \in Early
        /\ UNCHANGED touched
    BY <1>12, <1>0 DEF Written, Saw, JobFields, Mine
  <2> QED BY <2>1, UntouchedOnward
<1>13. CASE Verify
  <2>1. /\ UNCHANGED state /\ Mine' = Mine /\ job.at # "idle"
        /\ job'.at \in Early => job.at \in Early
        /\ UNCHANGED touched
    BY <1>13, <1>0 DEF Verify, At, Goes, JobFields, Mine
  <2> QED BY <2>1, UntouchedOnward
<1>14. CASE VerifyShared
  <2>1. /\ UNCHANGED state /\ Mine' = Mine /\ job.at # "idle"
        /\ job'.at \in Early => job.at \in Early
        /\ UNCHANGED touched
    BY <1>14, <1>0 DEF VerifyShared, At, Goes, JobFields, Mine
  <2> QED BY <2>1, UntouchedOnward
<1>15. CASE Final
  <2>1. /\ UNCHANGED state /\ Mine' = Mine /\ job.at # "idle"
        /\ job'.at \in Early => job.at \in Early
        /\ UNCHANGED touched
    BY <1>15, <1>0 DEF Final, Saw, JobFields, Mine
  <2> QED BY <2>1, UntouchedOnward
<1>16. CASE After
  <2>1. /\ UNCHANGED state /\ Mine' = Mine /\ job.at # "idle"
        /\ job'.at \in Early => job.at \in Early
        /\ UNCHANGED touched
    BY <1>16, <1>0 DEF After, Saw, Goes, JobFields, Mine
  <2> QED BY <2>1, UntouchedOnward
<1>17. CASE Finalize
  <2>1. /\ UNCHANGED state /\ Mine' = Mine /\ job.at # "idle"
        /\ job'.at \in Early => job.at \in Early
        /\ UNCHANGED touched
    BY <1>17, <1>0 DEF Finalize, Saw, JobFields, Mine
  <2> QED BY <2>1, UntouchedOnward
<1>18. CASE MarkRestored
  <2>1. /\ UNCHANGED state /\ Mine' = Mine /\ job.at # "idle"
        /\ job'.at \in Early => job.at \in Early
        /\ UNCHANGED touched
    BY <1>18, <1>0 DEF MarkRestored, At, JobFields, Mine
  <2> QED BY <2>1, UntouchedOnward
<1>19. CASE CheckRef
  <2>1. /\ UNCHANGED state /\ Mine' = Mine /\ job.at # "idle"
        /\ job'.at \in Early => job.at \in Early
        /\ UNCHANGED touched
    BY <1>19, <1>0 DEF CheckRef, At, Goes, JobFields, Mine
  <2> QED BY <2>1, UntouchedOnward
<1>20. CASE CompareAndSwap
  <2>1. /\ UNCHANGED state /\ Mine' = Mine /\ job.at # "idle"
        /\ job'.at \in Early => job.at \in Early
        /\ UNCHANGED touched
    BY <1>20, <1>0 DEF CompareAndSwap, Saw, Goes, JobFields, Mine
  <2> QED BY <2>1, UntouchedOnward
<1>21. CASE Restored
  <2>1. /\ UNCHANGED state /\ Mine' = Mine /\ job.at # "idle"
        /\ job'.at \in Early => job.at \in Early
        /\ UNCHANGED touched
    BY <1>21, <1>0 DEF Restored, Saw, JobFields, Mine
  <2> QED BY <2>1, UntouchedOnward
<1>22. CASE VerifyRef
  <2>1. /\ UNCHANGED state /\ Mine' = Mine /\ job.at # "idle"
        /\ job'.at \in Early => job.at \in Early
        /\ UNCHANGED touched
    BY <1>22, <1>0 DEF VerifyRef, At, Goes, JobFields, Mine
  <2> QED BY <2>1, UntouchedOnward
<1>23. CASE Evidence
  <2>1. /\ UNCHANGED state /\ Mine' = Mine /\ job.at # "idle"
        /\ job'.at \in Early => job.at \in Early
        /\ UNCHANGED touched
    BY <1>23, <1>0 DEF Evidence, Saw, JobFields, Mine
  <2> QED BY <2>1, UntouchedOnward
<1>24. CASE Rewrite
  <2>1. /\ UNCHANGED state /\ Mine' = Mine /\ job.at # "idle"
        /\ job'.at \in Early => job.at \in Early
        /\ touched' = [touched EXCEPT ![Mine] = TRUE] /\ job'.at \notin Early
    BY <1>24, <1>0 DEF Rewrite, Unchanged, Saw, JobFields, Mine
  <2> QED BY <2>1, UntouchedOnward
<1>25. CASE Remove
  <2>1. /\ UNCHANGED state /\ Mine' = Mine /\ job.at # "idle"
        /\ job'.at \in Early => job.at \in Early
        /\ touched' = [touched EXCEPT ![Mine] = TRUE] /\ job'.at \notin Early
    BY <1>25, <1>0 DEF Remove, At, JobFields, Mine
  <2> QED BY <2>1, UntouchedOnward
<1>26. CASE Commit
  <2>1. /\ UNCHANGED state /\ Mine' = Mine /\ job.at # "idle"
        /\ job'.at \in Early => job.at \in Early
        /\ touched' = [touched EXCEPT ![Mine] = TRUE] /\ job'.at \notin Early
    BY <1>26, <1>0 DEF Commit, At, JobFields, Mine
  <2> QED BY <2>1, UntouchedOnward
<1>27. CASE Reset
  <2>1. /\ UNCHANGED state /\ Mine' = Mine /\ job.at # "idle"
        /\ job'.at \in Early => job.at \in Early
        /\ touched' = [touched EXCEPT ![Mine] = TRUE] /\ job'.at \notin Early
    BY <1>27, <1>0 DEF Reset, At, JobFields, Mine
  <2> QED BY <2>1, UntouchedOnward
<1>28. CASE InsertFails
  <2> DEFINE to == "failed"
  <2>1. /\ state' = [state EXCEPT ![Mine] = to] /\ UNCHANGED touched
        /\ job' = NoJob /\ job.at # "idle"
    BY <1>28 DEF InsertFails, At, EndJob
  <2>2. /\ to = "failed" => job.at \in Early \/ state[Mine] = "failed"
        /\ to = "free" => state[Mine] = "free"
    BY <1>28 DEF InsertFails, At
  <2> HIDE DEF to
  <2> QED BY <2>1, <2>2, UntouchedEnds
<1>29. CASE WriteFails
  <2> DEFINE to == "unknown"
  <2>1. /\ state' = [state EXCEPT ![Mine] = to] /\ UNCHANGED touched
        /\ job' = NoJob /\ job.at # "idle"
    BY <1>29 DEF WriteFails, Unchanged, Saw, Ends, EndJob
  <2>2. /\ to = "failed" => job.at \in Early \/ state[Mine] = "failed"
        /\ to = "free" => state[Mine] = "free"
    BY <1>29 DEF WriteFails
  <2> HIDE DEF to
  <2> QED BY <2>1, <2>2, UntouchedEnds
<1>30. CASE Finish
  <2> DEFINE to == "succeeded"
  <2>1. /\ state' = [state EXCEPT ![Mine] = to] /\ UNCHANGED touched
        /\ job' = NoJob /\ job.at # "idle"
    BY <1>30 DEF Finish, At, Ends, EndJob
  <2>2. /\ to = "failed" => job.at \in Early \/ state[Mine] = "failed"
        /\ to = "free" => state[Mine] = "free"
    BY <1>30 DEF Finish, At
  <2> HIDE DEF to
  <2> QED BY <2>1, <2>2, UntouchedEnds
<1>31. CASE Resolve
  <2> DEFINE to == IF state[Mine] = "unknown" THEN "succeeded" ELSE state[Mine]
  <2>1. /\ state' = [state EXCEPT ![Mine] = to] /\ UNCHANGED touched
        /\ job' = NoJob /\ job.at # "idle"
    BY <1>31 DEF Resolve, At, Ends, EndJob
  <2>2. /\ to = "failed" => job.at \in Early \/ state[Mine] = "failed"
        /\ to = "free" => state[Mine] = "free"
    BY <1>31 DEF Resolve, At
  <2> HIDE DEF to
  <2> QED BY <2>1, <2>2, UntouchedEnds
<1>32. CASE Refused
  <2> DEFINE to == "failed"
  <2>1. /\ state' = [state EXCEPT ![Mine] = to] /\ UNCHANGED touched
        /\ job' = NoJob /\ job.at # "idle"
    BY <1>32 DEF Refused, Ends, EndJob
  <2>2. /\ to = "failed" => job.at \in Early \/ state[Mine] = "failed"
        /\ to = "free" => state[Mine] = "free"
    BY <1>32 DEF Refused
  <2> HIDE DEF to
  <2> QED BY <2>1, <2>2, UntouchedEnds
<1>33. CASE Uncertain
  <2> DEFINE to == "unknown"
  <2>1. /\ state' = [state EXCEPT ![Mine] = to] /\ UNCHANGED touched
        /\ job' = NoJob /\ job.at # "idle"
    BY <1>33 DEF Uncertain, Later, Ends, EndJob
  <2>2. /\ to = "failed" => job.at \in Early \/ state[Mine] = "failed"
        /\ to = "free" => state[Mine] = "free"
    BY <1>33 DEF Uncertain
  <2> HIDE DEF to
  <2> QED BY <2>1, <2>2, UntouchedEnds
<1>34. CASE Cancel
  <2> DEFINE to == IF Restores THEN "running" ELSE "unknown"
  <2>1. /\ state' = [state EXCEPT ![Mine] = to] /\ UNCHANGED touched
        /\ job' = NoJob /\ job.at # "idle"
    BY <1>34 DEF Cancel, StatusPoints, OtherPoints, Ends, EndJob
  <2>2. /\ to = "failed" => job.at \in Early \/ state[Mine] = "failed"
        /\ to = "free" => state[Mine] = "free"
    BY <1>34 DEF Cancel
  <2> HIDE DEF to
  <2> QED BY <2>1, <2>2, UntouchedEnds
<1>35. CASE ReconcileEnds
  <2> DEFINE to == state[Mine]
  <2>1. /\ state' = [state EXCEPT ![Mine] = to] /\ UNCHANGED touched
        /\ job' = NoJob /\ job.at # "idle"
    BY <1>35 DEF ReconcileEnds, Ends, EndJob
  <2>2. /\ to = "failed" => job.at \in Early \/ state[Mine] = "failed"
        /\ to = "free" => state[Mine] = "free"
    BY <1>35 DEF ReconcileEnds
  <2> HIDE DEF to
  <2> QED BY <2>1, <2>2, UntouchedEnds
<1> QED
  BY <1>1, <1>2, <1>3, <1>4, <1>5, <1>6, <1>7, <1>8, <1>9, <1>10, <1>11,
     <1>12, <1>13, <1>14, <1>15, <1>16, <1>17, <1>18, <1>19, <1>20, <1>21,
     <1>22, <1>23, <1>24, <1>25, <1>26, <1>27, <1>28, <1>29, <1>30, <1>31,
     <1>32, <1>33, <1>34, <1>35
     DEF Body

LEMMA UntouchedStep ==
  ASSUME IInv, UntouchedSoFar, [Next]_vars
  PROVE  UntouchedSoFar' /\ FailsUntouched
<1>0. DOMAIN state = Op
  BY DEF IInv, Shape
<1>1. ASSUME NEW op \in Op, NEW request, NEW point, Begin(op, request, point),
             UNCHANGED touched
      PROVE  UntouchedSoFar' /\ FailsUntouched
  BY <1>0, <1>1 DEF Begin, UntouchedSoFar, FailsUntouched, NoJob, Mine
<1>2. ASSUME NEW op \in Op, NEW path \in Path, NEW content \in Content \cup {Absent},
             Mutate(op, path, content)
      PROVE  UntouchedSoFar' /\ FailsUntouched
  BY <1>1, <1>2 DEF Mutate
<1>3. ASSUME NEW op \in Op, NEW of \in Op, Restore(op, of)
      PROVE  UntouchedSoFar' /\ FailsUntouched
  BY <1>1, <1>3 DEF Restore
<1>4. ASSUME NEW op \in Op, ReconcileFailed(op) PROVE UntouchedSoFar' /\ FailsUntouched
  BY <1>0, <1>4 DEF ReconcileFailed, UntouchedSoFar, FailsUntouched, Mine
<1>5. ASSUME NEW op \in Op, ReconcileSucceeded(op) PROVE UntouchedSoFar' /\ FailsUntouched
  BY <1>5 DEF ReconcileSucceeded, UntouchedSoFar, FailsUntouched, rowVars, NoJob,
              Early, Before
<1>6. CASE Body
  BY <1>6, UntouchedBody
<1>7. CASE Restart
  BY <1>7 DEF Restart, EndJob, UntouchedSoFar, FailsUntouched, NoJob, Early, Before
<1>8. CASE Others
  BY <1>8 DEF Others, Edit, CommitAll, Publish, Switch, Interfere, rowVars,
              UntouchedSoFar, FailsUntouched, Mine
<1>9. CASE UNCHANGED vars
  BY <1>9 DEF vars, rowVars, UntouchedSoFar, FailsUntouched, Mine
<1> QED
  BY <1>2, <1>3, <1>4, <1>5, <1>6, <1>7, <1>8, <1>9 DEF Next, Request

\* An operation whose body declares it failed has changed neither the work tree
\* nor a branch, wherever in the body the failure was and whoever interfered.
THEOREM FailuresAreClean == Spec => FailedUntouched
<1>1. IInv /\ UntouchedSoFar /\ [Next]_vars
        => (\A op \in Op : state[op] = "running" /\ state'[op] = "failed" => ~touched[op])
  BY UntouchedStep DEF FailsUntouched
<1>2. IInv /\ UntouchedSoFar /\ [Next]_vars => UntouchedSoFar'
  BY UntouchedStep
<1> QED
  BY InitEstablishes, UntouchedInit, EveryStep, <1>1, <1>2, PTL
     DEF Spec, FailedUntouched
=============================================================================
