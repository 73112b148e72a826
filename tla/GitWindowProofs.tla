--------------------------- MODULE GitWindowProofs ---------------------------
(***************************************************************************)
(* What GitMutation promises to the other users of the repository holds if *)
(* they stay out of the windows that no check can close: between the last  *)
(* look and the Git call that relies on it.  For any number of operations, *)
(* paths, branches, commits, sessions and steps of others.                 *)
(***************************************************************************)
EXTENDS GitTypeProofs, WellFoundedInduction

AmendWindow == {"verifyShared", "commit"}
ResetWindow == {"cas", "snapshot", "ref", "row", "reset"}

\* What every body step is about.
LEMMA JobIs == ASSUME TInv PROVE job \in Job
BY DEF TInv, Typed

\* A body that ends is nowhere.
LEMMA BodyIsOver ==
  ASSUME TInv,
         \/ InsertFails \/ WriteFails \/ Finish \/ Resolve \/ Refused \/ Uncertain \/ Cancel
         \/ ReconcileEnds \/ Restart
  PROVE  job'.at = "idle"
BY DEF InsertFails, WriteFails, Finish, Resolve, Refused, Uncertain, Cancel, ReconcileEnds, Restart,
       Ends, EndJob, NoJob

-----------------------------------------------------------------------------
(* Rollbacks.                                                              *)

\* From the compare-and-swap check to the reset the repository is the one that
\* the client confirmed.
Confirmed ==
  /\ job.at = "cas" /\ job.seen # NoTip => job.seen = [branch |-> branch, head |-> HeadCommit]
  /\ job.at \in {"snapshot", "ref", "row", "reset"} /\ Restores =>
       HeadCommit = ask[Mine].head /\ branch = row[ask[Mine].of].branch /\ Clean

\* The steps that lead out of the window, or not into it.
LEMMA OutsideTheWindow ==
  ASSUME TInv,
         \/ Mode \/ Footer \/ SharedRefs \/ EvidenceFails
         \/ Rewrite \/ NoChange \/ Delete \/ Remove \/ Written
         \/ Verify \/ VerifyShared \/ Commit \/ Final
         \/ After \/ Finalize \/ MarkRestored
         \/ Reset \/ Restored \/ VerifyRef \/ Evidence
  PROVE  job'.at \notin ResetWindow
<1>0. job \in Job
  BY JobIs
<1>1. CASE Mode \/ Footer \/ EvidenceFails \/ Delete
  BY <1>0, <1>1 DEF Mode, Footer, EvidenceFails, Delete, Goes, GoTo, Job, ResetWindow
<1>2. CASE Verify \/ VerifyShared \/ After \/ VerifyRef
  BY <1>0, <1>2 DEF Verify, VerifyShared, After, VerifyRef, Goes, GoTo, Job, ResetWindow
<1>3. CASE SharedRefs \/ NoChange \/ Final \/ Restored
  BY <1>0, <1>3 DEF SharedRefs, NoChange, Final, Restored, Job, ResetWindow
<1>4. CASE Written
  BY <1>0, <1>4 DEF Written, Job, ResetWindow
<1>5. CASE Rewrite \/ Remove \/ Commit \/ Reset
  BY <1>0, <1>5 DEF Rewrite, Remove, Commit, Reset, GoTo, Job, ResetWindow
<1>6. CASE Finalize \/ MarkRestored \/ Evidence
  BY <1>0, <1>6 DEF Finalize, MarkRestored, Evidence, GoTo, Job, ResetWindow
<1> QED
  BY <1>1, <1>2, <1>3, <1>4, <1>5, <1>6

\* Nobody else acts in the window.
LEMMA ConfirmedBody ==
  ASSUME TInv, RowsAreFresh, Confirmed, Body
  PROVE  Confirmed'
<1>0. /\ job \in Job
      /\ job'.at \notin ResetWindow => Confirmed'
  BY JobIs DEF Confirmed, ResetWindow
<1>1. CASE Inspect
  <2>1. /\ job'.at = job.at /\ job'.op = job.op
        /\ job'.seen = [branch |-> branch, head |-> HeadCommit]
        /\ UNCHANGED <<repoVars, rowVars>>
    BY <1>0, <1>1 DEF Inspect, Job
  <2> QED
    BY <2>1 DEF Confirmed, Restores, Mine, HeadCommit, Clean, Changed, repoVars, rowVars
<1>2. CASE Policy
  <2>1. job'.at = "snapshot" /\ job'.op = job.op /\ UNCHANGED rowVars
    BY <1>0, <1>2 DEF Policy, Goes, GoTo, Job
  <2>2. ask[Mine].task = "change"
    BY <1>2 DEF Policy, Saw, TInv, Roles, ChangePoints
  <2> QED
    BY <2>1, <2>2 DEF Confirmed, Restores, Mine, rowVars
<1>3. CASE CompareAndSwap
  <2>1. job'.at = "snapshot" /\ job'.op = job.op /\ UNCHANGED <<repoVars, rowVars>>
    BY <1>0, <1>3 DEF CompareAndSwap, Goes, GoTo, Job
  <2>2. HeadCommit = ask[Mine].head /\ branch = row[ask[Mine].of].branch /\ Clean
    BY <1>3 DEF CompareAndSwap, Saw, Confirmed
  <2> QED
    BY <2>1, <2>2 DEF Confirmed, Restores, Mine, HeadCommit, Clean, Changed, repoVars, rowVars
<1>4. CASE Snapshot \/ CreateRef
  <2>1. /\ job.at \in {"snapshot", "ref"} /\ job'.at \in {"ref", "row"} /\ job'.op = job.op
        /\ UNCHANGED <<repoVars, row, ask>>
    BY <1>0, <1>4 DEF Snapshot, CreateRef, GoTo, Saw, At, Job, rowVars
  <2> QED
    BY <2>1 DEF Confirmed, Restores, Mine, HeadCommit, Clean, Changed, repoVars
<1>5. CASE InsertRow
  <2>1. /\ job.at = "row" /\ job'.op = job.op /\ UNCHANGED <<repoVars, ask>>
        /\ job'.at \in {"reset", "mode"} /\ (job'.at = "reset" => Restores)
    BY <1>0, <1>5 DEF InsertRow, GoTo, At, Job, Restores
  <2>2. CASE job'.at = "reset"
    <3>1. Restores /\ ask[Mine].of \in Op /\ row[ask[Mine].of].made /\ ~row[Mine].made
      BY <2>1, <2>2, InBody DEF Restores, Undo, TInv, Roles, RowsAreFresh, Rowless
    <3>2. row'[ask[Mine].of] = row[ask[Mine].of]
      BY <1>5, <3>1 DEF InsertRow, TInv, Typed
    <3> QED
      BY <2>1, <2>2, <3>1, <3>2 DEF Confirmed, Restores, Mine, HeadCommit, Clean, Changed, repoVars
  <2> QED
    BY <1>0, <2>1, <2>2 DEF ResetWindow
<1>6. CASE CheckRef
  <2>1. job'.at = "cas" /\ job'.seen = NoTip
    BY <1>0, <1>6 DEF CheckRef, Goes, GoTo, Job
  <2> QED
    BY <2>1 DEF Confirmed
<1>7. CASE job'.at \notin ResetWindow
  BY <1>0, <1>7
<1> QED
  BY <1>1, <1>2, <1>3, <1>4, <1>5, <1>6, <1>7, BodyIsOver, OutsideTheWindow DEF Body, ResetWindow

\* No step of anybody disturbs what the client confirmed.
LEMMA ConfirmedStep ==
  ASSUME TInv, RowsAreFresh, Confirmed, [Next]_vars,
         \A point \in ResetWindow : <<"restore", point>> \notin Outside
  PROVE  Confirmed'
<1>1. CASE Body
  BY <1>1, ConfirmedBody
<1>2. CASE Restart
  BY <1>2, BodyIsOver DEF Confirmed
<1>3. CASE Others
  <2>1. UNCHANGED <<rowVars, job>> /\ MayAct
    BY <1>3 DEF Others, Edit, CommitAll, Publish, Switch, Interfere
  <2>2. CASE job.at \notin ResetWindow
    BY <2>1, <2>2 DEF Confirmed, ResetWindow
  <2>3. CASE job.at \in ResetWindow
    <3>1. ask[Mine].task # "restore"
      BY <2>1, <2>3 DEF MayAct, At, ResetWindow
    <3>2. job.at # "cas"
      BY <3>1 DEF TInv, Roles, RestorePoints
    <3> QED
      BY <2>1, <3>1, <3>2 DEF Confirmed, Restores, Mine, rowVars
  <2> QED
    BY <2>2, <2>3
<1>4. ASSUME NEW op \in Op, NEW request, NEW point \in {"policy", "checkref"},
             Begin(op, request, point)
      PROVE  Confirmed'
  BY <1>4 DEF Begin, NoJob, Confirmed
<1>5. CASE Request
  <2>1. ASSUME NEW op \in Op, ReconcileFailed(op) PROVE Confirmed'
    BY <2>1 DEF ReconcileFailed, Confirmed, Restores, Mine, HeadCommit, Clean, Changed, repoVars
  <2>2. ASSUME NEW op \in Op, ReconcileSucceeded(op) PROVE Confirmed'
    BY <2>2 DEF ReconcileSucceeded, NoJob, Confirmed
  <2> QED
    BY <1>4, <1>5, <2>1, <2>2 DEF Request, Mutate, Restore
<1>6. CASE UNCHANGED vars
  BY <1>6 DEF Confirmed, Restores, Mine, HeadCommit, Clean, Changed, repoVars, rowVars, vars
<1> QED
  BY <1>1, <1>2, <1>3, <1>5, <1>6 DEF Next

-----------------------------------------------------------------------------
(* Amends.                                                                 *)

\* Where a body still writes, and may go on to commit.
Writing == {"before", "rm", "written", "verify", "verifyShared", "commit"}
\* Where it has not decided to amend.
Undecided == {"policy", "checkref", "cas", "snapshot", "ref", "row", "mode", "footer", "shared"}

Amending == job.at \in Writing /\ job.amend

\* What a body relies on when it amends: it found the evidence before it decided,
\* and looked at HEAD and at the other refs again before it commits.
AmendIsEvidenced ==
  /\ job.at \in Undecided => ~job.amend
  /\ job.at \in {"verify", "verifyShared"} => job.amend
  /\ job.at \in {"footer", "shared"} \/ Amending => job.base # NoTip /\ WipEvidence(job.base)
  /\ job.at = "shared" \/ Amending => log[job.base.head].footer = ask[Mine].session
  /\ job.at = "verifyShared" \/ (job.at = "commit" /\ job.amend) =>
       [branch |-> branch, head |-> HeadCommit] = job.base
  /\ job.at = "commit" /\ job.amend => ~Shared(job.base.head, job.base.branch)

\* Evidence lasts: rows are as they were, and what succeeded has succeeded.
LEMMA EvidenceStays ==
  ASSUME NEW tip0, UNCHANGED <<row, ask>>, job'.op = job.op,
         \A op \in Op : state[op] = "succeeded" => state'[op] = "succeeded",
         WipEvidence(tip0)
  PROVE  \E op \in Op :
           /\ state'[op] = "succeeded"
           /\ ask'[op].task = "change" /\ ask'[op].session = ask'[Mine'].session
           /\ ~row'[op].restored
           /\ row'[op].after = [branch |-> tip0.branch, head |-> tip0.head, dirty |-> FALSE]
           /\ row'[op].branch = tip0.branch /\ row'[op].head # tip0.head
BY DEF WipEvidence, Mine

\* Neither what is under way nor what it relies on is disturbed.
LEMMA AmendStays ==
  ASSUME TInv, AmendIsEvidenced, UNCHANGED <<row, ask, branch, published, tip>>,
         job'.at = job.at, job'.op = job.op, job'.base = job.base, job'.amend = job.amend,
         UNCHANGED log,
         \A op \in Op : state[op] = "succeeded" => state'[op] = "succeeded"
  PROVE  AmendIsEvidenced'
<1>1. job.at \in {"footer", "shared"} \/ Amending => WipEvidence(job.base)'
  BY EvidenceStays DEF AmendIsEvidenced, WipEvidence
<1>2. HeadCommit' = HeadCommit /\ (Amending <=> Amending') /\ Mine' = Mine
  BY DEF HeadCommit, Amending, Mine
<1>3. Shared(job.base.head, job.base.branch)' = Shared(job.base.head, job.base.branch)
  BY DEF Shared, Reach
<1> QED
  BY <1>1, <1>2, <1>3 DEF AmendIsEvidenced

\* Nothing is under way any more.
LEMMA AmendElsewhere == job'.at \notin Undecided \cup Writing => AmendIsEvidenced'
BY DEF AmendIsEvidenced, Undecided, Writing, Amending

\* The steps that end what is under way.
LEMMA NoLongerWriting ==
  ASSUME TInv,
         \/ NoChange \/ Commit \/ Final \/ After \/ Finalize \/ MarkRestored
         \/ Reset \/ Restored \/ VerifyRef \/ Evidence
  PROVE  job'.at \notin Undecided \cup Writing
<1>0. job \in Job
  BY JobIs
<1>1. CASE After \/ VerifyRef
  BY <1>0, <1>1 DEF After, VerifyRef, Goes, GoTo, Job, Undecided, Writing
<1>2. CASE NoChange \/ Final \/ Restored
  BY <1>0, <1>2 DEF NoChange, Final, Restored, Job, Undecided, Writing
<1>3. CASE Commit \/ Reset
  BY <1>0, <1>3 DEF Commit, Reset, GoTo, Job, Undecided, Writing
<1>4. CASE Finalize \/ MarkRestored \/ Evidence
  BY <1>0, <1>4 DEF Finalize, MarkRestored, Evidence, GoTo, Job, Undecided, Writing
<1> QED
  BY <1>1, <1>2, <1>3, <1>4

\* The body decides on evidence and looks again before it commits.
LEMMA AmendBody ==
  ASSUME TInv, AmendIsEvidenced, Body
  PROVE  AmendIsEvidenced'
<1>0. job \in Job
  BY JobIs
<1>1. CASE Inspect
  <2>1. /\ job'.at = job.at /\ job'.op = job.op /\ job'.base = job.base /\ job'.amend = job.amend
        /\ UNCHANGED <<repoVars, rowVars>>
    BY <1>0, <1>1 DEF Inspect, Job
  <2> QED
    BY <2>1, AmendStays DEF repoVars, rowVars
<1>2. CASE Policy \/ CheckRef \/ CompareAndSwap \/ Snapshot \/ CreateRef \/ InsertRow
  <2>1. CASE Policy \/ CheckRef \/ CompareAndSwap
    <3>1. job.at \in Undecided /\ job'.at \in {"snapshot", "cas"} /\ job'.amend = job.amend
      BY <1>0, <2>1 DEF Policy, CheckRef, CompareAndSwap, At, Saw, Goes, GoTo, Job, Undecided
    <3> QED
      BY <3>1 DEF AmendIsEvidenced, Amending, Writing, Undecided
  <2>2. CASE Snapshot \/ CreateRef \/ InsertRow
    <3>1. /\ job.at \in Undecided /\ job'.at \in {"ref", "row", "mode", "reset"}
          /\ job'.amend = job.amend
      BY <1>0, <2>2 DEF Snapshot, CreateRef, InsertRow, At, Saw, GoTo, Job, Undecided
    <3> QED
      BY <3>1 DEF AmendIsEvidenced, Amending, Writing, Undecided
  <2> QED
    BY <1>2, <2>1, <2>2
<1>3. CASE Mode \/ Footer \/ EvidenceFails
  <2>1. /\ job.at \in {"mode", "footer", "shared"} /\ job'.at \in {"footer", "shared", "before"}
        /\ job'.op = job.op /\ job'.base = job.base /\ job'.amend = job.amend
        /\ UNCHANGED <<repoVars, rowVars>>
    BY <1>0, <1>3 DEF Mode, Footer, EvidenceFails, At, Saw, Goes, GoTo, Job
  <2>2. ~job.amend
    BY <2>1 DEF AmendIsEvidenced, Undecided
  <2>3. CASE job'.at = "footer"
    <3>1. job.seen # NoTip /\ job.seen = job.base /\ WipEvidence(job.base)
      BY <1>0, <1>3, <2>3 DEF Mode, Footer, EvidenceFails, At, Saw, Goes, GoTo, Job
    <3>2. WipEvidence(job.base)'
      BY <2>1, <3>1, EvidenceStays DEF WipEvidence, rowVars
    <3> QED
      BY <2>1, <2>2, <2>3, <3>1, <3>2 DEF AmendIsEvidenced, Amending, Writing
  <2>4. CASE job'.at = "shared"
    <3>1. job.at = "footer" /\ log[job.base.head].footer = ask[Mine].session
      BY <1>0, <1>3, <2>4 DEF Mode, Footer, EvidenceFails, At, Saw, Goes, GoTo, Job
    <3>2. job.base # NoTip /\ WipEvidence(job.base)
      BY <3>1 DEF AmendIsEvidenced
    <3>3. WipEvidence(job.base)'
      BY <2>1, <3>2, EvidenceStays DEF WipEvidence, rowVars
    <3> QED
      BY <2>1, <2>2, <2>4, <3>1, <3>2, <3>3
         DEF AmendIsEvidenced, Amending, Writing, Mine, repoVars, rowVars
  <2>5. CASE job'.at = "before"
    BY <2>1, <2>2, <2>5 DEF AmendIsEvidenced, Amending, Undecided
  <2> QED
    BY <2>1, <2>3, <2>4, <2>5
<1>4. CASE SharedRefs
  <2>1. /\ job.at = "shared" /\ job'.at = "before" /\ job'.op = job.op /\ job'.base = job.base
        /\ UNCHANGED <<repoVars, rowVars>>
    BY <1>0, <1>4 DEF SharedRefs, At, Job
  <2>2. /\ job.base # NoTip /\ WipEvidence(job.base)
        /\ log[job.base.head].footer = ask[Mine].session
    BY <2>1 DEF AmendIsEvidenced
  <2>3. WipEvidence(job.base)'
    BY <2>1, <2>2, EvidenceStays DEF WipEvidence, rowVars
  <2> QED
    BY <2>1, <2>2, <2>3 DEF AmendIsEvidenced, Mine, Undecided, repoVars, rowVars
<1>5. CASE Rewrite \/ Delete \/ Remove \/ Written \/ Verify \/ VerifyShared
  <2>1. CASE Rewrite \/ Delete \/ Remove
    <3>1. /\ job.at \in {"before", "rm"} /\ job'.at \in {"rm", "written"} /\ job'.op = job.op
          /\ job'.base = job.base /\ job'.amend = job.amend
          /\ UNCHANGED <<log, rowVars>>
      BY <1>0, <2>1 DEF Rewrite, Delete, Remove, Unchanged, At, Saw, Goes, GoTo, Job, repoVars
    <3>2. Amending' => Amending
      BY <3>1 DEF Amending, Writing
    <3>3. Amending => WipEvidence(job.base)'
      BY <3>1, EvidenceStays DEF WipEvidence, rowVars, AmendIsEvidenced
    <3> QED
      BY <3>1, <3>2, <3>3 DEF AmendIsEvidenced, Mine, Undecided, rowVars
  <2>2. CASE Written
    <3>1. /\ job.at = "written" /\ job'.at \in {"after", "verify", "commit"} /\ job'.op = job.op
          /\ job'.base = job.base /\ job'.amend = job.amend
          /\ (job'.at = "verify" => job.amend) /\ (job'.at = "commit" => ~job.amend)
          /\ UNCHANGED <<repoVars, rowVars>>
      BY <1>0, <2>2 DEF Written, Saw, Job
    <3>2. Amending' => Amending
      BY <3>1 DEF Amending, Writing
    <3>3. Amending => WipEvidence(job.base)'
      BY <3>1, EvidenceStays DEF WipEvidence, rowVars, AmendIsEvidenced
    <3> QED
      BY <3>1, <3>2, <3>3 DEF AmendIsEvidenced, Mine, Undecided, repoVars, rowVars
  <2>3. CASE Verify \/ VerifyShared
    <3>1. /\ job.at \in {"verify", "verifyShared"} /\ job'.at \in {"verifyShared", "commit"}
          /\ job'.op = job.op /\ job'.base = job.base /\ job'.amend = job.amend
          /\ UNCHANGED <<repoVars, rowVars>>
      BY <1>0, <2>3 DEF Verify, VerifyShared, At, Goes, GoTo, Job
    <3>2. Amending /\ job.amend
      BY <3>1 DEF Amending, Writing, AmendIsEvidenced
    <3>3. WipEvidence(job.base)'
      BY <3>1, <3>2, EvidenceStays DEF WipEvidence, rowVars, AmendIsEvidenced
    <3>4. [branch |-> branch, head |-> HeadCommit] = job.base
      <4>1. CASE Verify
        <5>1. job.base \in Tip
          BY <3>1, <3>2, InBody DEF AmendIsEvidenced
        <5> QED
          BY <4>1, <5>1 DEF Verify, Tip
      <4>2. CASE VerifyShared
        BY <4>2 DEF VerifyShared, At, AmendIsEvidenced
      <4> QED
        BY <2>3, <4>1, <4>2
    <3>5. job'.at = "commit" => ~Shared(job.base.head, job.base.branch)
      BY <1>0, <2>3 DEF Verify, VerifyShared, At, Goes, GoTo, Job
    <3>6. Shared(job.base.head, job.base.branch)' = Shared(job.base.head, job.base.branch)
      BY <3>1 DEF Shared, Reach, repoVars
    <3> QED
      BY <3>1, <3>2, <3>3, <3>4, <3>5, <3>6
         DEF AmendIsEvidenced, Mine, HeadCommit, Undecided, repoVars, rowVars
  <2> QED
    BY <1>5, <2>1, <2>2, <2>3
<1>6. CASE job'.at \notin Undecided \cup Writing
  BY <1>6, AmendElsewhere
<1> QED
  BY <1>1, <1>2, <1>3, <1>4, <1>5, <1>6, BodyIsOver, NoLongerWriting DEF Body, Undecided, Writing

\* Other processes add commits and change none; in the window they do not act.
LEMMA AmendOthers ==
  ASSUME TInv, AmendIsEvidenced, Others,
         \A point \in AmendWindow : <<"change", point>> \notin Outside
  PROVE  AmendIsEvidenced'
<1>1. UNCHANGED <<rowVars, job>> /\ MayAct
  BY DEF Others, Edit, CommitAll, Publish, Switch, Interfere
<1>2. \A c \in Commits : log'[c] = log[c]
  <2>1. log' = log \/ \E new : log' = Append(log, new)
    BY DEF Others, Edit, CommitAll, Publish, Switch
  <2> QED
    BY <2>1 DEF TInv, Typed, Commits
<1>3. job.at \notin AmendWindow
  BY <1>1 DEF MayAct, At, AmendWindow, TInv, Roles, ChangePoints
<1>4. job.at \in {"footer", "shared"} \/ Amending => WipEvidence(job.base)'
  BY <1>1, EvidenceStays DEF AmendIsEvidenced, WipEvidence, rowVars
<1>5. job.at = "shared" \/ Amending => (log[job.base.head].footer = ask[Mine].session)'
  <2>1. SUFFICES ASSUME job.at = "shared" \/ Amending
                 PROVE  (log[job.base.head].footer = ask[Mine].session)'
    OBVIOUS
  <2>2. job.at # "idle"
    BY <2>1 DEF Amending, Writing
  <2>3. job.base.head \in Commits /\ log[job.base.head].footer = ask[Mine].session
    BY <2>1, <2>2, InBody DEF AmendIsEvidenced, Tip
  <2>4. log'[job.base.head] = log[job.base.head]
    BY <1>2, <2>3
  <2> QED
    BY <1>1, <2>3, <2>4 DEF Mine, rowVars
<1> QED
  BY <1>1, <1>3, <1>4, <1>5 DEF AmendIsEvidenced, Amending, AmendWindow

\* No step of anybody disturbs what an amend relies on.
LEMMA AmendStep ==
  ASSUME TInv, AmendIsEvidenced, [Next]_vars,
         \A point \in AmendWindow : <<"change", point>> \notin Outside
  PROVE  AmendIsEvidenced'
<1>1. ASSUME NEW op \in Op, NEW request, NEW point \in {"policy", "checkref"},
             Begin(op, request, point)
      PROVE  AmendIsEvidenced'
  BY <1>1 DEF Begin, NoJob, AmendIsEvidenced, Amending, Writing
<1>2. CASE Request
  <2>1. ASSUME NEW op \in Op, ReconcileFailed(op) PROVE AmendIsEvidenced'
    <3>1. \A other \in Op : state[other] = "succeeded" => state'[other] = "succeeded"
      BY <2>1 DEF ReconcileFailed, TInv, Typed
    <3> QED
      BY <2>1, <3>1, AmendStays DEF ReconcileFailed, repoVars
  <2>2. ASSUME NEW op \in Op, ReconcileSucceeded(op) PROVE AmendIsEvidenced'
    BY <2>2, AmendElsewhere DEF ReconcileSucceeded, NoJob, Undecided, Writing
  <2> QED
    BY <1>1, <1>2, <2>1, <2>2 DEF Request, Mutate, Restore
<1>3. CASE Restart
  BY <1>3, BodyIsOver, AmendElsewhere DEF Undecided, Writing
<1>4. CASE UNCHANGED vars
  BY <1>4, AmendStays DEF vars, repoVars, rowVars
<1> QED
  BY <1>2, <1>3, <1>4, AmendBody, AmendOthers DEF Next

\* An amend replaces a WIP commit of the asking session that nothing else names, if
\* nobody acts between the look at HEAD in _verify_amend_target and `git commit --amend`;
\* anywhere else in any body others may commit, switch, tag and push.
THEOREM AmendsAreOwn ==
  ASSUME \A point \in AmendWindow : <<"change", point>> \notin Outside
  PROVE  Spec => AmendsOnlyOwnWip
<1>1. Init => AmendIsEvidenced
  BY DEF Init, NoJob, AmendIsEvidenced, Amending, Writing
<1>2. TInv /\ AmendIsEvidenced /\ [Next]_vars => AmendIsEvidenced'
  BY AmendStep
<1>3. TInv /\ AmendIsEvidenced /\ [Next]_vars =>
        (At("commit") /\ job'.at = "final" /\ job.amend =>
           /\ [branch |-> branch, head |-> HeadCommit] = job.base
           /\ log[HeadCommit].footer = ask[Mine].session
           /\ WipEvidence(job.base)
           /\ ~Shared(HeadCommit, branch))
  <2> SUFFICES ASSUME AmendIsEvidenced, job.at = "commit", job.amend
               PROVE  /\ [branch |-> branch, head |-> HeadCommit] = job.base
                      /\ log[HeadCommit].footer = ask[Mine].session
                      /\ WipEvidence(job.base)
                      /\ ~Shared(HeadCommit, branch)
    BY DEF At
  <2>1. Amending /\ [branch |-> branch, head |-> HeadCommit] = job.base
    BY DEF Amending, Writing, AmendIsEvidenced
  <2>2. job.base.head = HeadCommit /\ job.base.branch = branch
    BY <2>1
  <2> QED
    BY <2>1, <2>2 DEF AmendIsEvidenced
<1> QED
  BY TypedInit, StepTyped, InitEstablishes, EveryStep, <1>1, <1>2, <1>3, PTL
     DEF Spec, AmendsOnlyOwnWip, IInv

-----------------------------------------------------------------------------
(* What a commit reaches.                                                  *)

\* A set of numbers that is not empty has a least one.
LEMMA LeastNumber == \A T \in SUBSET Nat : T # {} => \E n \in T : \A m \in T : n <= m
<1> SUFFICES ASSUME NEW T \in SUBSET Nat, T # {} PROVE \E n \in T : \A m \in T : n <= m
  OBVIOUS
<1> DEFINE R == OpToRel(<, Nat)
<1>1. IsWellFoundedOn(R, Nat)
  BY NatLessThanWellFounded
<1> HIDE DEF R
<1>2. PICK n \in T : \A m \in T : <<m, n>> \notin R
  BY <1>1, WFMin
<1>3. \A m \in T : ~(m < n)
  BY <1>2 DEF R, OpToRel
<1> QED
  BY <1>2, <1>3

\* A history: every commit has an earlier parent, or none.
Rooted(h) == Len(h) \in Nat /\ \A c \in 1 .. Len(h) : h[c].parent \in 0 .. c - 1

\* f has for every commit up to n what it reaches.
Collects(f, h, n) == f = [d \in 0 .. n |-> IF d = 0 THEN {} ELSE {d} \cup f[h[d].parent]]
Reached(h, n) == (CHOOSE f : Collects(f, h, n))[n]

\* The recursive function of Reach collects, in this state and in the next one.
LEMMA ReachIs == ASSUME NEW c PROVE Reach(c) = Reached(log, c) /\ Reach(c)' = Reached(log', c)
BY DEF Reach, Reached, Collects

\* There is such a function for every commit: a least one without could be given one.
LEMMA CollectsSome ==
  ASSUME NEW h, Rooted(h)
  PROVE  \A n \in 0 .. Len(h) : \E f : Collects(f, h, n)
<1> DEFINE T == {n \in 0 .. Len(h) : ~ \E f : Collects(f, h, n)}
<1> SUFFICES ASSUME T # {} PROVE FALSE
  OBVIOUS
<1>1. T \in SUBSET Nat
  BY DEF Rooted
<1>2. PICK n \in T : \A e \in T : n <= e
  BY <1>1, LeastNumber
<1>3. n \in 0 .. Len(h) /\ ~ \E f : Collects(f, h, n)
  BY <1>2
<1>4. CASE n = 0
  <2> DEFINE f == [d \in 0 .. 0 |-> {}]
  <2>1. Collects(f, h, 0)
    BY DEF Collects
  <2> QED
    BY <1>3, <1>4, <2>1
<1>5. CASE n # 0
  <2>1. n - 1 \in 0 .. Len(h) /\ n - 1 \notin T
    BY <1>2, <1>3, <1>5 DEF Rooted
  <2>2. PICK f : Collects(f, h, n - 1)
    BY <2>1
  <2> DEFINE p == h[n].parent
             g == [d \in 0 .. n |-> IF d = n THEN {n} \cup f[p] ELSE f[d]]
  <2>3. \A d \in 0 .. n : d # 0 => h[d].parent \in 0 .. d - 1
    BY <1>3 DEF Rooted
  <2>4. ASSUME NEW d \in 0 .. n PROVE g[d] = IF d = 0 THEN {} ELSE {d} \cup g[h[d].parent]
    <3>1. CASE d = n
      <4>1. p \in 0 .. n - 1 /\ g[p] = f[p]
        BY <1>3, <1>5, <2>3
      <4> QED
        BY <1>5, <3>1, <4>1
    <3>2. CASE d # n
      <4>1. d \in 0 .. n - 1 /\ g[d] = f[d]
        BY <1>3, <3>2
      <4>2. d # 0 => h[d].parent \in 0 .. n - 1 /\ h[d].parent # n /\ h[d].parent \in 0 .. n
        BY <1>3, <2>3, <4>1
      <4>3. d # 0 => g[h[d].parent] = f[h[d].parent]
        BY <4>2
      <4>4. f[d] = IF d = 0 THEN {} ELSE {d} \cup f[h[d].parent]
        BY <2>2, <4>1 DEF Collects
      <4> HIDE DEF g
      <4> QED
        BY <4>1, <4>3, <4>4
    <3> QED
      BY <3>1, <3>2
  <2>5. Collects(g, h, n)
    BY <2>4 DEF Collects
  <2> QED
    BY <1>3, <2>5
<1> QED
  BY <1>4, <1>5

\* Two such functions agree where both are defined, and if they are about histories that do:
\* there is no least commit where they differ.
LEMMA CollectsOnce ==
  ASSUME NEW h, NEW i, Rooted(h), NEW n \in 0 .. Len(h), NEW m \in 0 .. n,
         \A c \in 1 .. m : i[c] = h[c],
         NEW f, NEW g, Collects(f, h, n), Collects(g, i, m)
  PROVE  \A d \in 0 .. m : f[d] = g[d]
<1> DEFINE T == {d \in 0 .. m : f[d] # g[d]}
<1> SUFFICES ASSUME T # {} PROVE FALSE
  OBVIOUS
<1>1. T \in SUBSET Nat
  OBVIOUS
<1>2. PICK d \in T : \A e \in T : d <= e
  BY <1>1, LeastNumber
<1>3. /\ d \in 0 .. m /\ d \in 0 .. n /\ d \in 0 .. Len(h)
      /\ f[d] # g[d] /\ \A e \in 0 .. m : e < d => f[e] = g[e]
  BY <1>2 DEF Rooted
<1>4. d # 0
  BY <1>3 DEF Collects
<1>5. h[d].parent \in 0 .. d - 1 /\ i[d] = h[d]
  BY <1>3, <1>4 DEF Rooted
<1>6. f[d] = {d} \cup f[h[d].parent]
  BY <1>3, <1>4 DEF Collects
<1>7. g[d] = {d} \cup g[h[d].parent]
  BY <1>3, <1>4, <1>5 DEF Collects
<1>8. f[h[d].parent] = g[h[d].parent]
  BY <1>3, <1>4, <1>5
<1> QED
  BY <1>3, <1>6, <1>7, <1>8

\* A commit reaches itself and what its parent reaches.
LEMMA ReachedStep ==
  ASSUME NEW h, Rooted(h), NEW c \in 1 .. Len(h)
  PROVE  Reached(h, c) = {c} \cup Reached(h, h[c].parent)
<1> DEFINE F(n) == CHOOSE f : Collects(f, h, n)
           p == h[c].parent
<1>1. \A n \in 0 .. Len(h) : Collects(F(n), h, n)
  BY CollectsSome
<1>2. \A n : Reached(h, n) = F(n)[n]
  BY DEF Reached
<1> HIDE DEF F
<1>3. p \in 0 .. c /\ p \in 0 .. Len(h) /\ c \in 0 .. Len(h)
  BY DEF Rooted
<1>4. F(c)[c] = {c} \cup F(c)[p]
  BY <1>1, <1>3 DEF Collects
<1>5. F(c)[p] = F(p)[p]
  BY <1>1, <1>3, CollectsOnce DEF Rooted
<1> QED
  BY <1>2, <1>4, <1>5

\* What a commit reaches never changes.
LEMMA ReachedLasts ==
  ASSUME NEW h, NEW i, Rooted(h), Rooted(i), Len(h) <= Len(i), \A c \in 1 .. Len(h) : i[c] = h[c],
         NEW c \in 0 .. Len(h)
  PROVE  Reached(i, c) = Reached(h, c)
<1>1. PICK f : f = (CHOOSE x : Collects(x, h, c)) /\ Collects(f, h, c)
  BY CollectsSome
<1>2. PICK g : g = (CHOOSE x : Collects(x, i, c)) /\ Collects(g, i, c)
  BY CollectsSome DEF Rooted
<1>3. c \in 0 .. c /\ \A d \in 1 .. c : i[d] = h[d]
  BY DEF Rooted
<1>4. f[c] = g[c]
  BY <1>1, <1>2, <1>3, CollectsOnce
<1> QED
  BY <1>1, <1>2, <1>4 DEF Reached

-----------------------------------------------------------------------------
(* What a body takes from a branch is kept.                                *)

\* From the look that the safety checkpoint of a rollback takes to the reset.
CoverWindow == {"snapshot", "ref", "row", "reset"}

\* Where a body relies on the checkpoint that it has recorded.
Backed == {"mode", "footer", "shared", "before", "rm", "written", "verify", "verifyShared",
           "commit", "reset"}

\* The checkpoint of a rollback covers HEAD, that of a change the commit that it looked at.
Covered ==
  /\ job.at \in Backed => row[Mine].made /\ row[Mine].head = job.base.head
  /\ Restores =>
       /\ job.at = "snapshot" /\ job.seen # NoTip => job.seen.head = HeadCommit
       /\ job.at \in {"ref", "row", "reset"} => job.base.head = HeadCommit

\* The body takes the checkpoint and relies on it while HEAD stays.
LEMMA CoveredBody ==
  ASSUME TInv, Covered, Body
  PROVE  Covered'
<1>0. /\ job \in Job
      /\ job'.at \notin CoverWindow \cup Backed => Covered'
  BY JobIs DEF Covered, CoverWindow, Backed
<1>1. CASE Inspect
  <2>1. /\ job'.at = job.at /\ job'.op = job.op /\ job'.base = job.base
        /\ job'.seen = [branch |-> branch, head |-> HeadCommit]
        /\ UNCHANGED <<repoVars, rowVars>>
    BY <1>0, <1>1 DEF Inspect, Job
  <2> QED
    BY <2>1 DEF Covered, Restores, Mine, HeadCommit, Backed, repoVars, rowVars
<1>2. CASE Policy \/ CompareAndSwap
  <2>1. job'.at = "snapshot" /\ job'.seen = NoTip
    BY <1>0, <1>2 DEF Policy, CompareAndSwap, Goes, GoTo, Job
  <2> QED
    BY <2>1 DEF Covered, Backed
<1>3. CASE Snapshot
  <2>1. /\ job.at = "snapshot" /\ job'.at = "ref" /\ job'.op = job.op
        /\ job.seen # NoTip /\ job'.base = job.seen /\ UNCHANGED <<repoVars, rowVars>>
    BY <1>0, <1>3 DEF Snapshot, Saw, Job
  <2> QED
    BY <2>1 DEF Covered, Restores, Mine, HeadCommit, Backed, repoVars, rowVars
<1>4. CASE CreateRef
  <2>1. /\ job.at = "ref" /\ job'.at = "row" /\ job'.op = job.op /\ job'.base = job.base
        /\ UNCHANGED <<repoVars, ask>>
    BY <1>0, <1>4 DEF CreateRef, GoTo, At, Job
  <2> QED
    BY <2>1 DEF Covered, Restores, Mine, HeadCommit, Backed, repoVars
<1>5. CASE InsertRow
  <2>1. /\ job.at = "row" /\ job'.at \in {"reset", "mode"} /\ job'.op = job.op
        /\ job'.base = job.base /\ UNCHANGED <<repoVars, ask>> /\ Mine \in Op
    BY <1>0, <1>5, InBody DEF InsertRow, GoTo, At, Job
  <2>2. row'[Mine].made /\ row'[Mine].head = job.base.head
    BY <1>5, <2>1 DEF InsertRow, TInv, Typed
  <2> QED
    BY <2>1, <2>2 DEF Covered, Restores, Mine, HeadCommit, repoVars
<1>6. CASE CheckRef
  <2>1. job'.at = "cas"
    BY <1>0, <1>6 DEF CheckRef, Goes, GoTo, Job
  <2> QED
    BY <1>0, <2>1 DEF CoverWindow, Backed
<1>7. CASE \/ Mode \/ Footer \/ SharedRefs \/ EvidenceFails \/ Rewrite \/ Delete \/ Remove
           \/ Written \/ Verify \/ VerifyShared
  <2>1. CASE Mode \/ Footer \/ SharedRefs \/ EvidenceFails
    <3>1. /\ job.at \in Backed /\ job'.op = job.op /\ job'.base = job.base /\ UNCHANGED row
      BY <1>0, <2>1 DEF Mode, Footer, SharedRefs, EvidenceFails, Saw, At, Goes, GoTo, Job, Backed,
                        rowVars
    <3> QED
      BY <1>0, <2>1, <3>1, OutsideTheWindow DEF Covered, Mine, ResetWindow
  <2>2. CASE Rewrite \/ Delete \/ Remove \/ Written \/ Verify \/ VerifyShared
    <3>1. /\ job.at \in Backed /\ job'.op = job.op /\ job'.base = job.base /\ UNCHANGED row
      BY <1>0, <2>2 DEF Rewrite, Delete, Remove, Written, Verify, VerifyShared, Unchanged, Saw, At,
                        Goes, GoTo, Job, Backed, rowVars
    <3> QED
      BY <1>0, <2>2, <3>1, OutsideTheWindow DEF Covered, Mine, ResetWindow
  <2> QED
    BY <1>7, <2>1, <2>2
<1>8. CASE \/ NoChange \/ Commit \/ Final \/ After \/ Finalize \/ MarkRestored
           \/ Reset \/ Restored \/ VerifyRef \/ Evidence
  <2>1. job'.at \notin Undecided \cup Writing \cup ResetWindow
    BY <1>8, NoLongerWriting, OutsideTheWindow
  <2> QED
    BY <1>0, <2>1 DEF Undecided, Writing, ResetWindow, CoverWindow, Backed
<1> QED
  BY <1>0, <1>1, <1>2, <1>3, <1>4, <1>5, <1>6, <1>7, <1>8, BodyIsOver
     DEF Body, CoverWindow, Backed

\* No step of anybody moves HEAD away from the safety checkpoint of a rollback.
LEMMA CoveredStep ==
  ASSUME TInv, Covered, [Next]_vars,
         \A point \in CoverWindow : <<"restore", point>> \notin Outside
  PROVE  Covered'
<1>1. CASE Restart
  BY <1>1, BodyIsOver DEF Covered, Backed
<1>2. CASE Others
  <2>1. UNCHANGED <<rowVars, job>> /\ MayAct
    BY <1>2 DEF Others, Edit, CommitAll, Publish, Switch, Interfere
  <2>2. CASE job.at \notin CoverWindow
    BY <2>1, <2>2 DEF Covered, CoverWindow, Mine, rowVars
  <2>3. CASE job.at \in CoverWindow
    <3>1. ask[Mine].task # "restore"
      BY <2>1, <2>3 DEF MayAct, At, CoverWindow
    <3> QED
      BY <2>1, <3>1 DEF Covered, Restores, Mine, rowVars
  <2> QED
    BY <2>2, <2>3
<1>3. ASSUME NEW op \in Op, NEW request, NEW point \in {"policy", "checkref"},
             Begin(op, request, point)
      PROVE  Covered'
  BY <1>3 DEF Begin, NoJob, Covered, Backed
<1>4. CASE Request
  <2>1. ASSUME NEW op \in Op, ReconcileFailed(op) PROVE Covered'
    BY <2>1 DEF ReconcileFailed, Covered, Restores, Mine, HeadCommit, repoVars
  <2>2. ASSUME NEW op \in Op, ReconcileSucceeded(op) PROVE Covered'
    BY <2>2 DEF ReconcileSucceeded, NoJob, Covered, Backed
  <2> QED
    BY <1>3, <1>4, <2>1, <2>2 DEF Request, Mutate, Restore
<1>5. CASE UNCHANGED vars
  BY <1>5 DEF Covered, Restores, Mine, HeadCommit, repoVars, rowVars, vars
<1> QED
  BY <1>1, <1>2, <1>4, <1>5, CoveredBody DEF Next

\* A commit stays what it is.
LEMMA LogLasts ==
  ASSUME TInv, [Next]_vars
  PROVE  \A c \in Commits : c \in Commits' /\ log'[c] = log[c]
<1>1. CASE log' = log
  BY <1>1 DEF Commits
<1>2. CASE \E new : log' = Append(log, new)
  BY <1>2 DEF TInv, Typed, Commits
<1>3. log' = log \/ \E new : log' = Append(log, new)
  <2>1. CASE Body
    <3>1. CASE Commit
      BY <3>1 DEF Commit
    <3>2. CASE \/ Inspect \/ Policy \/ Snapshot \/ CreateRef \/ InsertRow \/ InsertFails
               \/ Mode \/ Footer \/ SharedRefs \/ EvidenceFails
      BY <3>2 DEF Inspect, Policy, Snapshot, CreateRef, InsertRow, InsertFails, Mode, Footer,
                  SharedRefs, EvidenceFails, Goes, repoVars
    <3>3. CASE \/ Rewrite \/ WriteFails \/ NoChange \/ Delete \/ Remove \/ Written
               \/ Verify \/ VerifyShared \/ Final \/ After \/ Finalize
      BY <3>3 DEF Rewrite, WriteFails, NoChange, Delete, Remove, Written, Verify, VerifyShared,
                  Final, After, Finalize, Goes, Ends, repoVars
    <3>4. CASE \/ MarkRestored \/ Finish \/ CheckRef \/ CompareAndSwap \/ Reset \/ Restored
               \/ VerifyRef \/ Evidence
      BY <3>4 DEF MarkRestored, Finish, CheckRef, CompareAndSwap, Reset, Restored, VerifyRef,
                  Evidence, Goes, Ends, repoVars
    <3>5. CASE Resolve \/ Refused \/ Uncertain \/ Cancel \/ ReconcileEnds
      BY <3>5 DEF Resolve, Refused, Uncertain, Cancel, ReconcileEnds, Ends, repoVars
    <3> QED
      BY <2>1, <3>1, <3>2, <3>3, <3>4, <3>5 DEF Body
  <2>2. CASE Request
    BY <2>2 DEF Request, Mutate, Restore, ReconcileFailed, ReconcileSucceeded, repoVars
  <2>3. CASE Restart \/ UNCHANGED vars
    BY <2>3 DEF Restart, repoVars, vars
  <2>4. CASE Others
    BY <2>4 DEF Others, Edit, CommitAll, Publish, Switch
  <2> QED
    BY <2>1, <2>2, <2>3, <2>4 DEF Next
<1> QED
  BY <1>1, <1>2, <1>3

\* What branches, tags, remotes and recorded checkpoints name.
Named == {tip[b] : b \in Branch} \cup published \cup {refs[op] : op \in {o \in Op : row[o].made}}

\* A repository names commits that it has.
LEMMA NamedAreCommits == ASSUME TInv PROVE Named \subseteq 0 .. Len(log) /\ Rooted(log)
<1>1. Len(log) \in Nat
  BY DEF TInv, Typed
<1>2. \A c \in Commits : c \in 0 .. Len(log)
  BY <1>1 DEF Commits
<1>3. Named \subseteq Commits \cup {0}
  BY DEF TInv, Known, Named
<1> QED
  BY <1>1, <1>2, <1>3 DEF TInv, Known, Rooted, Commits

\* So does the next state.
LEMMA NextIsRooted == ASSUME TInv' PROVE Rooted(log')
<1>1. Len(log') \in Nat
  BY DEF TInv, Typed
<1> QED
  BY <1>1 DEF TInv, Known, Rooted, Commits

\* No step changes what a commit reaches.
LEMMA ReachLasts ==
  ASSUME TInv, TInv', [Next]_vars, NEW c \in 0 .. Len(log)
  PROVE  Reach(c)' = Reach(c)
<1>1. Rooted(log) /\ Rooted(log')
  BY NamedAreCommits, NextIsRooted
<1>2. \A d \in 1 .. Len(log) : d \in 1 .. Len(log') /\ log'[d] = log[d]
  BY LogLasts DEF Commits
<1>3. Len(log) \in Nat /\ Len(log') \in Nat
  BY <1>1 DEF Rooted
<1>4. Len(log) <= Len(log')
  BY <1>2, <1>3
<1>5. Reached(log', c) = Reached(log, c)
  BY <1>1, <1>2, <1>4, ReachedLasts
<1> QED
  BY <1>5, ReachIs

\* Nothing is lost if what was named is still named, or reached from what is.
LEMMA Keeps ==
  ASSUME TInv, TInv', [Next]_vars,
         \A c \in Named : c \in Named' \/ \E d \in Named' : Reach(c) \subseteq Reach(d)'
  PROVE  Kept \subseteq Kept'
<1>1. Kept = UNION {Reach(c) : c \in Named} /\ Kept' = UNION {Reach(c)' : c \in Named'}
  BY DEF Kept, Named
<1>2. \A c \in Named : Reach(c)' = Reach(c)
  BY NamedAreCommits, ReachLasts
<1>3. ASSUME NEW x \in Kept PROVE x \in Kept'
  <2>1. PICK c \in Named : x \in Reach(c)
    BY <1>1
  <2>2. \E d \in Named' : x \in Reach(d)'
    BY <1>2, <2>1
  <2> QED
    BY <1>1, <2>2
<1> QED
  BY <1>3

\* Steps that move no branch and forget no checkpoint.
LEMMA NamedStays ==
  ASSUME TInv, UNCHANGED <<tip, published>>,
         \A op \in Op : row[op].made => row'[op].made /\ refs'[op] = refs[op]
  PROVE  Named \subseteq Named'
<1>1. ASSUME NEW op \in Op, row[op].made PROVE refs[op] \in Named'
  BY <1>1 DEF Named
<1> QED
  BY <1>1 DEF Named

\* A commit keeps the one before it, an amend that of the checkpoint.
LEMMA CommitKeeps ==
  ASSUME TInv, TInv', IInv, AmendIsEvidenced, Covered, Commit
  PROVE  \A c \in Named : c \in Named' \/ \E d \in Named' : Reach(c) \subseteq Reach(d)'
<1>0. job.at = "commit" /\ job \in Job /\ [Next]_vars
  BY JobIs DEF Commit, At, Next, Body
<1>1. PICK old : old = HeadCommit
  OBVIOUS
<1>2. PICK new : new = Len(log) + 1
  OBVIOUS
<1>3. /\ Mine \in Op /\ old \in Commits /\ tip[branch] = old /\ branch \in Branch
      /\ Len(log) \in Nat /\ tip \in [Branch -> Nat]
  BY <1>0, <1>1, InBody DEF HeadCommit, TInv, Typed
<1>4. tip' = [tip EXCEPT ![branch] = new] /\ UNCHANGED <<published, refs, row>>
  BY <1>2 DEF Commit, rowVars
<1>5. \A c \in Named : c \in Named' \/ c = old
  BY <1>3, <1>4 DEF Named
<1>6. CASE job.amend
  <2>1. job.base.head = old
    BY <1>0, <1>1, <1>6 DEF AmendIsEvidenced
  <2>2. row[Mine].made /\ row[Mine].head = job.base.head
    BY <1>0 DEF Covered, Backed
  <2>3. refs[Mine] = old
    BY <1>3, <2>1, <2>2 DEF IInv, CheckpointHasRef
  <2>4. old \in Named'
    BY <1>3, <1>4, <2>2, <2>3 DEF Named
  <2> QED
    BY <1>5, <2>4
<1>7. CASE ~job.amend
  <2>1. new \in Named'
    BY <1>3, <1>4 DEF Named
  <2>2. new \in 1 .. Len(log') /\ log'[new].parent = old
    BY <1>1, <1>2, <1>3, <1>7 DEF Commit, TInv, Typed
  <2>3. Reached(log', new) = {new} \cup Reached(log', old)
    BY <2>2, NextIsRooted, ReachedStep
  <2>4. old \in 0 .. Len(log)
    BY <1>3 DEF Commits
  <2>5. Reach(old)' = Reach(old)
    BY <1>0, <2>4, ReachLasts
  <2>6. Reach(old) \subseteq Reach(new)'
    BY <2>3, <2>5, ReachIs
  <2> QED
    BY <1>5, <2>1, <2>6
<1> QED
  BY <1>6, <1>7

\* What a reset takes from the branch is what the safety checkpoint keeps.
LEMMA ResetKeeps ==
  ASSUME TInv, IInv, Covered, Reset
  PROVE  Named \subseteq Named'
<1>1. job.at = "reset" /\ Restores
  BY DEF Reset, At, TInv, Roles, RestorePoints, Restores
<1>2. Mine \in Op /\ tip[branch] = HeadCommit /\ branch \in Branch /\ tip \in [Branch -> Nat]
  BY <1>1, InBody DEF HeadCommit, TInv, Typed
<1>3. row[Mine].made /\ refs[Mine] = HeadCommit
  BY <1>1, <1>2 DEF Covered, Backed, IInv, CheckpointHasRef
<1>4. /\ \A b \in Branch \ {branch} : tip'[b] = tip[b]
      /\ UNCHANGED <<published, refs, row>>
  BY <1>2 DEF Reset, rowVars
<1> QED
  BY <1>2, <1>3, <1>4 DEF Named

\* The other steps of a body leave the branches and the recorded checkpoints.
LEMMA BodyKeeps ==
  ASSUME TInv, IInv, Body, ~Commit, ~Reset
  PROVE  Named \subseteq Named'
<1>1. ASSUME UNCHANGED <<tip, published, refs, row>> PROVE Named \subseteq Named'
  BY <1>1 DEF Named
<1>2. CASE CreateRef \/ InsertRow \/ InsertFails
  <2>1. Mine \in Op /\ ~row[Mine].made /\ UNCHANGED <<tip, published>>
    BY <1>2, InBody DEF CreateRef, InsertRow, InsertFails, At, IInv, RowsAreFresh, Rowless, repoVars
  <2>2. \A op \in Op : row[op].made => row'[op].made /\ refs'[op] = refs[op]
    BY <1>2, <2>1 DEF CreateRef, InsertRow, InsertFails, TInv, Typed
  <2> QED
    BY <2>1, <2>2, NamedStays
<1>3. CASE Finalize \/ MarkRestored \/ Evidence
  <2>1. UNCHANGED <<tip, published, refs>>
    BY <1>3 DEF Finalize, MarkRestored, Evidence, repoVars
  <2>2. ASSUME NEW op \in Op, row[op].made PROVE row'[op].made
    <3>1. row[op] \in Row /\ DOMAIN row = Op
      BY <2>2 DEF TInv, Typed, NoRow
    <3>2. ASSUME NEW o, NEW value, row' = [row EXCEPT ![o].after = value] PROVE row'[op].made
      BY <2>2, <3>1, <3>2 DEF Row
    <3>3. ASSUME NEW o, row' = [row EXCEPT ![o].restored = TRUE] PROVE row'[op].made
      BY <2>2, <3>1, <3>3 DEF Row
    <3> QED
      BY <1>3, <3>2, <3>3 DEF Finalize, MarkRestored, Evidence
  <2> QED
    BY <2>1, <2>2, NamedStays
<1>4. CASE \/ Inspect \/ Policy \/ Snapshot \/ Mode \/ Footer \/ SharedRefs \/ EvidenceFails
           \/ Rewrite \/ WriteFails \/ NoChange \/ Delete \/ Remove \/ Written
  BY <1>1, <1>4 DEF Inspect, Policy, Snapshot, Mode, Footer, SharedRefs, EvidenceFails, Rewrite,
     WriteFails, NoChange, Delete, Remove, Written, Goes, Ends, repoVars, rowVars
<1>5. CASE \/ Verify \/ VerifyShared \/ Final \/ After \/ Finish \/ CheckRef \/ CompareAndSwap
           \/ Restored \/ VerifyRef \/ Resolve \/ Refused \/ Uncertain \/ Cancel \/ ReconcileEnds
  BY <1>1, <1>5 DEF Verify, VerifyShared, Final, After, Finish, CheckRef, CompareAndSwap,
     Restored, VerifyRef, Resolve, Refused, Uncertain, Cancel, ReconcileEnds, Goes, Ends, repoVars,
     rowVars
<1> QED
  BY <1>2, <1>3, <1>4, <1>5 DEF Body

\* No step of a body, of a request or of a restart loses a commit.
LEMMA NothingLostStep ==
  ASSUME TInv, TInv', IInv, AmendIsEvidenced, Covered, [Next]_vars, job'.at # job.at
  PROVE  Kept \subseteq Kept'
<1>1. CASE Body
  BY <1>1, CommitKeeps, ResetKeeps, BodyKeeps, Keeps
<1>2. CASE Request \/ Restart
  <2>1. UNCHANGED <<tip, published, refs, row>>
    BY <1>2 DEF Request, Mutate, Restore, ReconcileFailed, ReconcileSucceeded, Restart, repoVars,
                rowVars
  <2>2. Named' = Named
    BY <2>1 DEF Named
  <2> QED
    BY <2>2, Keeps
<1>3. CASE Others \/ UNCHANGED vars
  <2>1. job' = job
    BY <1>3 DEF Others, Edit, CommitAll, Publish, Switch, Interfere, vars
  <2> QED
    BY <2>1
<1> QED
  BY <1>1, <1>2, <1>3 DEF Next

\* No body makes a commit unreachable: what an amend or a `git reset --hard` takes from the branch
\* is kept by the ref of the checkpoint that was taken before it, if nobody moves HEAD between the
\* last look of _verify_amend_target, or of the safety checkpoint, and the call that relies on it;
\* anywhere else in any body others may commit, amend, switch and tag.
THEOREM CommitsAreKept ==
  ASSUME \A point \in AmendWindow : <<"change", point>> \notin Outside,
         \A point \in CoverWindow : <<"restore", point>> \notin Outside
  PROVE  Spec => NothingLost
<1>1. Init => AmendIsEvidenced /\ Covered
  BY DEF Init, NoJob, AmendIsEvidenced, Amending, Writing, Covered, Backed
<1>2. TInv /\ AmendIsEvidenced /\ [Next]_vars => AmendIsEvidenced'
  BY AmendStep
<1>3. TInv /\ Covered /\ [Next]_vars => Covered'
  BY CoveredStep
<1>4. /\ TInv /\ TInv' /\ IInv /\ AmendIsEvidenced /\ Covered /\ [Next]_vars
      => (job'.at # job.at => Kept \subseteq Kept')
  BY NothingLostStep
<1> QED
  BY TypedInit, StepTyped, InitEstablishes, EveryStep, <1>1, <1>2, <1>3, <1>4, PTL
     DEF Spec, NothingLost, IInv
=============================================================================
