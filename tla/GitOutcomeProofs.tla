--------------------------- MODULE GitOutcomeProofs ---------------------------
(***************************************************************************)
(* What the row of a succeeded operation says is what its body did: for    *)
(* any number of operations, paths, branches, commits, sessions and, where *)
(* they leave the body alone, steps of other Git processes.                *)
(***************************************************************************)
EXTENDS GitWindowProofs

-----------------------------------------------------------------------------
(* A change records its own commit.                                        *)

\* Where the checkpoint of a change is recorded.
Recorded == {"mode", "footer", "shared", "before", "rm", "written", "verify", "verifyShared",
             "commit", "final", "after", "confirm", "finish"}

\* The commit is one that the session made.
Own(c) == c \in Commits /\ log[c].footer = ask[Mine].session

RecordIsOwn ==
  ask[Mine].task = "change" =>
    /\ job.at \in Recorded => row[Mine].made /\ row[Mine].head = job.base.head
    /\ job.at = "final" => Own(HeadCommit) /\ (job.seen # NoTip => job.seen.head = HeadCommit)
    /\ job.at \in {"after", "confirm"} => job.result = job.base.head \/ Own(job.result)
    /\ job.at = "finish" =>
         row[Mine].after.head = row[Mine].head \/ Own(row[Mine].after.head)

\* Steps that leave the operation's request and row alone.
LEMMA RecordStays ==
  ASSUME TInv, RecordIsOwn, [Next]_vars, UNCHANGED <<row, ask>>, job.at # "idle",
         job'.op = job.op, job'.base = job.base,
         job'.at \in Recorded => job.at \in Recorded,
         job'.at \notin {"final", "after", "confirm", "finish"}
  PROVE  RecordIsOwn'
BY DEF RecordIsOwn, Mine

\* The body carries what it knows of its commit to the row.
LEMMA RecordBody ==
  ASSUME TInv, AmendIsEvidenced, RecordIsOwn, Body
  PROVE  RecordIsOwn'
<1>0. /\ job \in Job
      /\ Body => [Next]_vars
      /\ job'.at \notin Recorded => RecordIsOwn'
  BY JobIs DEF RecordIsOwn, Recorded, Next
<1>1. CASE Inspect
  <2>1. /\ job'.at = job.at /\ job'.op = job.op /\ job'.base = job.base /\ job'.result = job.result
        /\ job'.seen = [branch |-> branch, head |-> HeadCommit]
        /\ UNCHANGED <<repoVars, rowVars>>
    BY <1>0, <1>1 DEF Inspect, Job
  <2> QED
    BY <2>1 DEF RecordIsOwn, Own, Mine, Commits, HeadCommit, repoVars, rowVars
<1>2. CASE InsertRow
  <2>1. /\ row' = [row EXCEPT ![Mine] =
             [made |-> TRUE, head |-> job.base.head, branch |-> job.base.branch,
              after |-> None, restored |-> FALSE]]
        /\ job'.at \in {"reset", "mode"} /\ job'.op = job.op /\ job'.base = job.base
    BY <1>0, <1>2 DEF InsertRow, GoTo, Job
  <2>2. Mine \in Op /\ row \in [Op -> Row \cup {NoRow}]
    BY <1>2, InBody DEF InsertRow, At, TInv, Typed
  <2>3. row'[Mine].made /\ row'[Mine].head = job.base.head
    BY <2>1, <2>2
  <2> QED
    BY <2>1, <2>3 DEF RecordIsOwn, Mine
<1>3. CASE Mode \/ Footer \/ SharedRefs \/ EvidenceFails \/ Rewrite \/ Delete \/ Remove
           \/ Verify \/ VerifyShared
  <2>1. CASE Mode \/ Footer \/ SharedRefs \/ EvidenceFails
    <3>1. /\ job'.at \in {"footer", "before", "shared"} /\ job.at \in Recorded
          /\ job'.op = job.op /\ job'.base = job.base /\ UNCHANGED rowVars
      BY <1>0, <2>1 DEF Mode, Footer, SharedRefs, EvidenceFails, At, Saw, Goes, GoTo, Job, Recorded
    <3> QED
      BY <1>0, <3>1, RecordStays DEF rowVars, Recorded
  <2>2. CASE Rewrite \/ Delete \/ Remove
    <3>1. /\ job'.at \in {"rm", "written"} /\ job.at \in Recorded
          /\ job'.op = job.op /\ job'.base = job.base /\ UNCHANGED rowVars
      BY <1>0, <2>2 DEF Rewrite, Delete, Remove, Unchanged, At, Saw, Goes, GoTo, Job, Recorded
    <3> QED
      BY <1>0, <3>1, RecordStays DEF rowVars, Recorded
  <2>3. CASE Verify \/ VerifyShared
    <3>1. /\ job'.at \in {"verifyShared", "commit"} /\ job.at \in Recorded
          /\ job'.op = job.op /\ job'.base = job.base /\ UNCHANGED rowVars
      BY <1>0, <2>3 DEF Verify, VerifyShared, At, Goes, GoTo, Job, Recorded
    <3> QED
      BY <1>0, <3>1, RecordStays DEF rowVars, Recorded
  <2> QED
    BY <1>3, <2>1, <2>2, <2>3
<1>4. CASE NoChange \/ Written
  <2>1. /\ job.at \in {"before", "written"} /\ job.seen.head = job.base.head
        /\ job'.at \in {"after", "verify", "commit"} /\ job'.op = job.op /\ job'.base = job.base
        /\ (job'.at = "after" => job'.result = job.seen.head)
        /\ UNCHANGED rowVars
    BY <1>0, <1>4 DEF NoChange, Written, Unchanged, Isolated, Saw, Job
  <2> QED
    BY <2>1 DEF RecordIsOwn, Mine, Recorded, rowVars
<1>5. CASE Commit
  <2>1. /\ job.at = "commit" /\ job'.at = "final" /\ job'.op = job.op /\ job'.base = job.base
        /\ job'.seen = NoTip /\ UNCHANGED <<branch, rowVars>>
        /\ tip' = [tip EXCEPT ![branch] = Len(log) + 1]
    BY <1>0, <1>5 DEF Commit, GoTo, At, Job
  <2>2. PICK new : /\ log' = Append(log, new)
                   /\ new.footer = IF job.amend THEN log[HeadCommit].footer ELSE ask[Mine].session
    BY <1>5 DEF Commit
  <2>3. job.amend => log[HeadCommit].footer = ask[Mine].session
    <3>1. SUFFICES ASSUME job.amend PROVE log[HeadCommit].footer = ask[Mine].session
      OBVIOUS
    <3>2. [branch |-> branch, head |-> HeadCommit] = job.base
          /\ log[job.base.head].footer = ask[Mine].session
      BY <2>1, <3>1 DEF AmendIsEvidenced, Amending, Writing
    <3>3. job.base.head = HeadCommit
      BY <3>2
    <3> QED
      BY <3>2, <3>3
  <2>4. Len(log') = Len(log) + 1 /\ log'[Len(log) + 1] = new /\ Len(log) \in Nat
    BY <2>2 DEF TInv, Typed
  <2>5. HeadCommit' = Len(log) + 1
    BY <2>1 DEF TInv, Typed, HeadCommit
  <2>6. Own(HeadCommit)'
    BY <2>1, <2>2, <2>3, <2>4, <2>5 DEF Own, Commits, Mine, rowVars
  <2> QED
    BY <2>1, <2>6 DEF RecordIsOwn, Recorded, Mine, rowVars
<1>6. CASE Final \/ After \/ Restored
  <2>1. /\ job.at \in {"final", "after", "restored"} /\ job'.at \in {"after", "confirm"}
        /\ job'.op = job.op /\ job'.base = job.base
        /\ (job.at = "final" => job'.result = job.seen.head /\ job.seen # NoTip)
        /\ (job.at = "after" => job'.result = job.result)
        /\ UNCHANGED <<repoVars, rowVars>>
    BY <1>0, <1>6 DEF Final, After, Restored, Saw, Goes, GoTo, Job
  <2>2. job.at = "restored" => ask[Mine].task # "change"
    BY DEF TInv, Roles, RestorePoints
  <2> QED
    BY <2>1, <2>2 DEF RecordIsOwn, Recorded, Own, Commits, Mine, repoVars, rowVars
<1>7. CASE Finalize
  <2>1. /\ job.at = "confirm" /\ job'.at \in {"mark", "finish"} /\ job'.op = job.op
        /\ job'.base = job.base /\ job.seen.head = job.result
        /\ row' = [row EXCEPT ![Mine].after = Outcome(job.seen)]
        /\ UNCHANGED <<repoVars, ask>>
    BY <1>0, <1>7 DEF Finalize, AsExpected, Saw, GoTo, Job
  <2>2. CASE ask[Mine].task = "change"
    <3>1. /\ Mine \in Op /\ row[Mine].made /\ row[Mine].head = job.base.head
          /\ row \in [Op -> Row \cup {NoRow}]
      BY <2>1, <2>2, InBody DEF RecordIsOwn, Recorded, TInv, Typed
    <3>2. row[Mine] \in Row
      BY <3>1 DEF NoRow
    <3>3. /\ row'[Mine].made /\ row'[Mine].head = row[Mine].head
          /\ row'[Mine].after.head = job.result
      BY <2>1, <3>1, <3>2 DEF Row, Outcome
    <3> QED
      BY <2>1, <2>2, <3>1, <3>3 DEF RecordIsOwn, Own, Commits, Mine, repoVars
  <2>3. CASE ask[Mine].task # "change"
    BY <2>1, <2>3 DEF RecordIsOwn, Mine
  <2> QED
    BY <2>2, <2>3
<1>8. CASE MarkRestored
  BY <1>0, <1>8 DEF MarkRestored, GoTo, At, Job, TInv, Roles, RestorePoints, RecordIsOwn, Mine
<1>9. CASE Policy \/ Snapshot \/ CreateRef \/ CheckRef \/ CompareAndSwap \/ Reset \/ VerifyRef
           \/ Evidence
  <2>1. CASE Policy \/ CheckRef \/ CompareAndSwap \/ VerifyRef
    BY <1>0, <2>1 DEF Policy, CheckRef, CompareAndSwap, VerifyRef, Goes, GoTo, Job, Recorded
  <2>2. CASE Snapshot \/ CreateRef \/ Reset \/ Evidence
    BY <1>0, <2>2 DEF Snapshot, CreateRef, Reset, Evidence, GoTo, Job, Recorded
  <2> QED
    BY <1>9, <2>1, <2>2
<1>10. CASE job'.at = "idle"
  BY <1>0, <1>10 DEF Recorded
<1> QED
  BY <1>1, <1>2, <1>3, <1>4, <1>5, <1>6, <1>7, <1>8, <1>9, <1>10, BodyIsOver DEF Body

\* Others may move HEAD, except between the commit and the look at it.
LEMMA RecordStep ==
  ASSUME TInv, AmendIsEvidenced, RecordIsOwn, [Next]_vars, <<"change", "final">> \notin Outside
  PROVE  RecordIsOwn'
<1>1. CASE Body
  BY <1>1, RecordBody
<1>2. CASE Restart
  BY <1>2, BodyIsOver DEF RecordIsOwn, Recorded
<1>3. CASE Others
  <2>1. UNCHANGED <<rowVars, job>> /\ MayAct
    BY <1>3 DEF Others, Edit, CommitAll, Publish, Switch, Interfere
  <2>2. ask[Mine].task = "change" => job.at # "final"
    BY <2>1 DEF MayAct, At
  <2>3. \A c : Own(c) => Own(c)'
    BY <1>3, <2>1, LogLasts DEF Own, Mine, rowVars, Next
  <2> QED
    BY <2>1, <2>2, <2>3 DEF RecordIsOwn, Mine, rowVars
<1>4. ASSUME NEW op \in Op, NEW request, NEW point \in {"policy", "checkref"},
             Begin(op, request, point)
      PROVE  RecordIsOwn'
  BY <1>4 DEF Begin, NoJob, RecordIsOwn, Recorded
<1>5. CASE Request
  <2>1. ASSUME NEW op \in Op, ReconcileFailed(op) PROVE RecordIsOwn'
    BY <2>1 DEF ReconcileFailed, RecordIsOwn, Own, Mine, HeadCommit, Commits, repoVars
  <2>2. ASSUME NEW op \in Op, ReconcileSucceeded(op) PROVE RecordIsOwn'
    BY <2>2 DEF ReconcileSucceeded, NoJob, RecordIsOwn, Recorded
  <2> QED
    BY <1>4, <1>5, <2>1, <2>2 DEF Request, Mutate, Restore
<1>6. CASE UNCHANGED vars
  BY <1>6 DEF RecordIsOwn, Own, Mine, HeadCommit, Commits, repoVars, rowVars, vars
<1> QED
  BY <1>1, <1>2, <1>3, <1>5, <1>6 DEF Next

-----------------------------------------------------------------------------
(* What succeeded is done, when nobody else uses the repository.           *)

Here == [branch |-> branch, head |-> HeadCommit]

\* What a change is to leave in the work tree.
Wanted == [log[job.base.head].tree EXCEPT ![Target] = ask[Mine].content]
Changes == ask[Mine].task = "change"
Rolled == HeadCommit = row[ask[Mine].of].head /\ branch = row[ask[Mine].of].branch /\ Clean

\* From its first look to its last a body knows where the repository is.
AsAsked ==
  /\ job.seen # NoTip => job.seen = Here
  /\ job.at \in {"ref", "row", "mode", "footer", "shared", "before", "rm"} => job.base = Here /\ Clean
  /\ job.at = "rm" => Deletes
  /\ job.at \in {"written", "verify", "verifyShared", "commit"} => job.base = Here /\ work = Wanted
  /\ job.at \in {"final", "after", "confirm", "finish"} /\ Changes => work = Wanted /\ Clean
  /\ job.at \in {"reset", "restored", "after", "confirm"} /\ Restores => row[Mine].made
  /\ job.at \in {"restored", "after", "confirm", "mark", "finish"} /\ Restores => Rolled
  /\ job.at \in {"mark", "finish"} => HeadCommit = row[Mine].after.head

\* `git status` is empty if and only if the work tree is that of HEAD.
LEMMA CleanMeans ==
  ASSUME TInv
  PROVE  Clean <=> work = log[HeadCommit].tree
<1>1. HeadCommit \in Commits
  BY DEF TInv, Typed, Known, HeadCommit
<1>2. work \in Tree /\ log[HeadCommit].tree \in Tree
  BY <1>1, TreeOf DEF TInv, Typed
<1> QED
  BY <1>2 DEF Clean, Changed, Tree

\* Nothing that the invariant is about is disturbed.
LEMMA AskedStays ==
  ASSUME AsAsked, UNCHANGED <<repoVars, row, ask>>,
         job'.op = job.op, job'.base = job.base, job'.seen \in {job.seen, NoTip, Here},
         job'.at = job.at
  PROVE  AsAsked'
<1>1. Here' = Here /\ (Clean' <=> Clean) /\ Mine' = Mine /\ Wanted' = Wanted /\ (Changes' <=> Changes)
      /\ (Restores' <=> Restores) /\ (Rolled' <=> Rolled) /\ (Deletes' <=> Deletes)
      /\ HeadCommit' = HeadCommit /\ work' = work
  BY DEF Here, HeadCommit, Clean, Changed, Mine, Wanted, Changes, Restores, Rolled, Target, Deletes,
         repoVars
<1> QED
  BY <1>1 DEF AsAsked

\* A body goes on and leaves repository and rows as they are.
LEMMA AskedGoesOn ==
  ASSUME TInv, AsAsked, UNCHANGED <<repoVars, row, ask>>, job.at # "idle",
         job'.op = job.op, job'.seen \in {job.seen, NoTip},
         job'.base = job.base \/ job'.at \in {"ref", "snapshot", "cas", "evidence"},
         job'.at \notin {"reset", "restored", "mark", "finish", "idle"},
         job'.at \in {"ref", "row", "mode", "footer", "shared", "before", "rm"} =>
           job'.base = Here /\ Clean,
         job'.at = "rm" => Deletes,
         job'.at \in {"written", "verify", "verifyShared", "commit"} => job.base = Here /\ work = Wanted,
         job'.at \in {"final", "after", "confirm"} /\ Changes => work = Wanted /\ Clean,
         job'.at \in {"after", "confirm"} /\ Restores => Rolled /\ row[Mine].made
  PROVE  AsAsked'
<1>1. Here' = Here /\ (Clean' <=> Clean) /\ Mine' = Mine /\ (Changes' <=> Changes)
      /\ (Restores' <=> Restores) /\ (Rolled' <=> Rolled) /\ (Deletes' <=> Deletes)
      /\ HeadCommit' = HeadCommit /\ work' = work
      /\ (job'.base = job.base => Wanted' = Wanted)
  BY DEF Here, HeadCommit, Clean, Changed, Mine, Wanted, Changes, Restores, Rolled, Target, Deletes,
         repoVars
<1> QED
  BY <1>1 DEF AsAsked

\* The steps of a change before it writes, and the checks of either body.
LEMMA AskedBefore ==
  ASSUME TInv, AsAsked,
         \/ Policy \/ CheckRef \/ CompareAndSwap \/ VerifyRef \/ Snapshot \/ CreateRef
         \/ Mode \/ Footer \/ SharedRefs \/ EvidenceFails \/ Delete
  PROVE  AsAsked'
<1>0. job \in Job
  BY JobIs
<1>1. CASE Policy \/ CheckRef \/ CompareAndSwap \/ VerifyRef
  <2>1. /\ job'.at \in {"snapshot", "cas", "evidence"} /\ job.at # "idle" /\ job'.op = job.op
        /\ job'.seen = NoTip /\ UNCHANGED <<repoVars, rowVars>>
    BY <1>0, <1>1 DEF Policy, CheckRef, CompareAndSwap, VerifyRef, At, Saw, Goes, GoTo, Job
  <2> QED
    BY <2>1, AskedGoesOn DEF rowVars
<1>2. CASE Snapshot
  <2>1. /\ job.at = "snapshot" /\ job'.at = "ref" /\ job'.op = job.op /\ job'.seen = NoTip
        /\ job'.base = job.seen /\ job.seen # NoTip /\ Clean /\ UNCHANGED <<repoVars, rowVars>>
    BY <1>0, <1>2 DEF Snapshot, Saw, Job
  <2>2. job.seen = Here
    BY <2>1 DEF AsAsked
  <2> QED
    BY <2>1, <2>2, AskedGoesOn DEF rowVars
<1>3. CASE CreateRef
  <2>1. /\ job.at = "ref" /\ job'.at = "row" /\ job'.op = job.op /\ job'.seen = NoTip
        /\ job'.base = job.base /\ UNCHANGED <<repoVars, row, ask>>
    BY <1>0, <1>3 DEF CreateRef, At, GoTo, Job
  <2>2. job.base = Here /\ Clean
    BY <2>1 DEF AsAsked
  <2> QED
    BY <2>1, <2>2, AskedGoesOn
<1>4. CASE Mode \/ Footer \/ SharedRefs \/ EvidenceFails \/ Delete
  <2>1. /\ job.at \in {"mode", "footer", "shared", "before"}
        /\ job'.at \in {"footer", "shared", "before", "rm"} /\ job'.op = job.op
        /\ job'.seen \in {job.seen, NoTip} /\ job'.base = job.base
        /\ UNCHANGED <<repoVars, rowVars>> /\ (job'.at = "rm" => Deletes)
    BY <1>0, <1>4 DEF Mode, Footer, SharedRefs, EvidenceFails, Delete, Unchanged, At, Saw, Goes,
                      GoTo, Job
  <2>2. job.base = Here /\ Clean
    BY <2>1 DEF AsAsked
  <2> QED
    BY <2>1, <2>2, AskedGoesOn DEF rowVars
<1> QED
  BY <1>1, <1>2, <1>3, <1>4

\* The steps of a body that has written, to where it compares what it sees.
LEMMA AskedAfter ==
  ASSUME TInv, AsAsked,
         NoChange \/ Written \/ Verify \/ VerifyShared \/ Final \/ Restored \/ After
  PROVE  AsAsked'
<1>0. job \in Job
  BY JobIs
<1>1. CASE NoChange
  <2>1. /\ job.at = "before" /\ job'.at = "after" /\ job'.op = job.op /\ job'.seen = NoTip
        /\ job'.base = job.base /\ work[Target] = ask[Mine].content
        /\ UNCHANGED <<repoVars, rowVars>>
    BY <1>0, <1>1 DEF NoChange, Unchanged, Saw, AlreadyThere, Job
  <2>2. job.base = Here /\ Clean /\ ask[Mine].task = "change"
    BY <2>1 DEF AsAsked, TInv, Roles, ChangePoints
  <2>3. work = log[job.base.head].tree /\ work \in Tree
    BY <2>2, CleanMeans DEF Here, TInv, Typed
  <2>4. work = Wanted
    BY <2>1, <2>3 DEF Wanted, Tree
  <2>5. ~Restores
    BY <2>2 DEF Restores
  <2> QED
    BY <2>1, <2>2, <2>4, <2>5, AskedGoesOn DEF rowVars
<1>2. CASE Written
  <2>1. /\ job.at = "written" /\ job'.at \in {"after", "verify", "commit"} /\ job'.op = job.op
        /\ job'.seen = NoTip /\ job'.base = job.base /\ (job'.at = "after" => Clean)
        /\ UNCHANGED <<repoVars, rowVars>>
    BY <1>0, <1>2 DEF Written, Saw, Job
  <2>2. job.base = Here /\ work = Wanted /\ ask[Mine].task = "change"
    BY <2>1 DEF AsAsked, TInv, Roles, ChangePoints
  <2>3. ~Restores
    BY <2>2 DEF Restores
  <2> QED
    BY <2>1, <2>2, <2>3, AskedGoesOn DEF rowVars
<1>3. CASE Verify \/ VerifyShared
  <2>1. /\ job.at \in {"verify", "verifyShared"} /\ job'.at \in {"verifyShared", "commit"}
        /\ job'.op = job.op /\ job'.seen = NoTip /\ job'.base = job.base
        /\ UNCHANGED <<repoVars, rowVars>>
    BY <1>0, <1>3 DEF Verify, VerifyShared, At, Goes, GoTo, Job
  <2>2. job.base = Here /\ work = Wanted
    BY <2>1 DEF AsAsked
  <2> QED
    BY <2>1, <2>2, AskedGoesOn DEF rowVars
<1>4. CASE Final \/ Restored \/ After
  <2>1. /\ job.at \in {"final", "restored", "after"} /\ job'.at \in {"after", "confirm"}
        /\ job'.op = job.op /\ job'.seen = NoTip /\ job'.base = job.base
        /\ UNCHANGED <<repoVars, rowVars>>
    BY <1>0, <1>4 DEF Final, Restored, After, Saw, Goes, GoTo, Job
  <2>2. /\ job.at = "final" => ~Restores
        /\ job.at = "restored" => ~Changes
    BY DEF TInv, Roles, ChangePoints, RestorePoints, Restores, Changes
  <2>3. /\ Changes => work = Wanted /\ Clean
        /\ Restores => Rolled /\ row[Mine].made
    BY <2>1, <2>2 DEF AsAsked
  <2> QED
    BY <2>1, <2>3, AskedGoesOn DEF rowVars
<1> QED
  BY <1>1, <1>2, <1>3, <1>4

\* The file is written or removed.
LEMMA AskedWrites == TInv /\ AsAsked /\ (Rewrite \/ Remove) => AsAsked'
<1> SUFFICES ASSUME TInv, AsAsked, Rewrite \/ Remove PROVE AsAsked'
  OBVIOUS
<1>0. job \in Job
  BY JobIs
<1>1. /\ job.at \in {"before", "rm"} /\ job'.at = "written" /\ job'.op = job.op
      /\ job'.seen = NoTip /\ job'.base = job.base
      /\ UNCHANGED <<log, tip, branch, rowVars>>
  BY <1>0 DEF Rewrite, Remove, Unchanged, At, Saw, GoTo, Job
<1>2. job.base = Here /\ Clean
  BY <1>1 DEF AsAsked
<1>3. work' = [work EXCEPT ![Target] = ask[Mine].content]
  BY DEF Rewrite, Remove, At, AsAsked, Deletes
<1>4. work = log[job.base.head].tree
  BY <1>2, CleanMeans DEF Here
<1>5. work' = Wanted' /\ Here' = Here
  BY <1>1, <1>3, <1>4 DEF Wanted, Target, Mine, Here, HeadCommit, rowVars
<1> QED
  BY <1>1, <1>2, <1>5 DEF AsAsked

\* The commit has the tree that was wanted.
LEMMA AskedCommits == TInv /\ AsAsked /\ Commit => AsAsked'
<1> SUFFICES ASSUME TInv, AsAsked, Commit PROVE AsAsked'
  OBVIOUS
<1>0. job \in Job
  BY JobIs
<1>1. /\ job.at = "commit" /\ job'.at = "final" /\ job'.op = job.op
      /\ job'.seen = NoTip /\ job'.base = job.base
      /\ tip' = [tip EXCEPT ![branch] = Len(log) + 1]
      /\ UNCHANGED <<branch, work, rowVars>>
  BY <1>0 DEF Commit, At, GoTo, Job
<1>2. PICK new : /\ log' = Append(log, new)
                 /\ new.tree = [log[HeadCommit].tree EXCEPT ![Target] = work[Target]]
  BY DEF Commit
<1>3. job.base = Here /\ work = Wanted /\ HeadCommit \in Commits
  BY <1>1, InBody DEF AsAsked
<1>4. Target \in Path /\ log[HeadCommit].tree \in Tree
  BY <1>1, <1>3, InBody, TreeOf DEF Target, Change, TInv, Roles, ChangePoints
<1>5. new.tree = work
  <2>1. job.base.head = HeadCommit
    BY <1>3 DEF Here
  <2>2. work = [log[HeadCommit].tree EXCEPT ![Target] = ask[Mine].content]
    BY <1>3, <2>1 DEF Wanted
  <2>3. work[Target] = ask[Mine].content
    BY <1>4, <2>2 DEF Tree
  <2> QED
    BY <1>2, <2>2, <2>3
<1>6. /\ Len(log) \in Nat /\ log'[Len(log) + 1] = new
      /\ log'[HeadCommit] = log[HeadCommit]
  BY <1>2, <1>3 DEF TInv, Typed, Commits
<1>7. HeadCommit' = Len(log) + 1
  BY <1>1 DEF TInv, Typed, HeadCommit
<1>8. Clean'
  BY <1>1, <1>5, <1>6, <1>7 DEF Clean, Changed
<1>9. work' = Wanted'
  <2>1. job.base.head = HeadCommit
    BY <1>3 DEF Here
  <2> QED
    BY <1>1, <1>3, <1>6, <2>1 DEF Wanted, Target, Mine, rowVars
<1> QED
  BY <1>1, <1>8, <1>9 DEF AsAsked

\* The branch and the work tree are those of the checkpoint.
LEMMA AskedResets ==
  ASSUME TInv, CheckpointHasRef, Confirmed, AsAsked, Reset
  PROVE  AsAsked'
<1>0. job \in Job
  BY JobIs
<1>1. /\ job.at = "reset" /\ job'.at = "restored" /\ job'.op = job.op /\ job'.seen = NoTip
      /\ tip' = [tip EXCEPT ![branch] = refs[ask[Mine].of]]
      /\ work' = log[refs[ask[Mine].of]].tree
      /\ UNCHANGED <<log, branch, rowVars>>
  BY <1>0 DEF Reset, At, GoTo, Job
<1>2. Restores /\ row[Mine].made /\ branch = row[ask[Mine].of].branch
  BY <1>1 DEF TInv, Roles, RestorePoints, Restores, AsAsked, Confirmed
<1>3. ask[Mine].of \in Op /\ refs[ask[Mine].of] = row[ask[Mine].of].head
  BY <1>1, <1>2, InBody DEF Restores, Undo, TInv, Roles, CheckpointHasRef
<1>4. HeadCommit' = refs[ask[Mine].of]
  BY <1>1 DEF HeadCommit, TInv, Typed
<1>5. Clean'
  BY <1>1, <1>4 DEF Clean, Changed
<1>6. Rolled'
  BY <1>1, <1>2, <1>3, <1>4, <1>5 DEF Rolled, Mine, rowVars
<1> QED
  BY <1>1, <1>2, <1>6 DEF AsAsked, Changes, Restores, Mine, rowVars

\* The row says what is there.
LEMMA AskedRows ==
  ASSUME TInv, RecordIsOwn, AsAsked, InsertRow \/ Finalize \/ MarkRestored \/ Evidence
  PROVE  AsAsked'
<1>0. job \in Job
  BY JobIs
<1>1. /\ job.at # "idle" /\ job'.op = job.op /\ job'.base = job.base /\ job'.seen = NoTip
      /\ UNCHANGED <<repoVars, ask>>
  BY <1>0 DEF InsertRow, Finalize, MarkRestored, Evidence, At, Saw, GoTo, Job
<1>2. /\ Mine \in Op /\ row \in [Op -> Row \cup {NoRow}] /\ (Restores => ask[Mine].of \in Op)
      /\ Mine' = Mine /\ (Restores' <=> Restores) /\ (Changes' <=> Changes) /\ Here' = Here
      /\ (Restores => ~Changes)
      /\ (Clean' <=> Clean) /\ Wanted' = Wanted /\ HeadCommit' = HeadCommit /\ work' = work
  BY <1>1, InBody DEF TInv, Typed, Mine, Restores, Changes, Here, Clean, Changed, Wanted, Target,
                      HeadCommit, Undo, repoVars
<1>3. CASE InsertRow
  <2>1. /\ job.at = "row" /\ job'.at \in {"reset", "mode"}
        /\ row' = [row EXCEPT ![Mine] =
             [made |-> TRUE, head |-> job.base.head, branch |-> job.base.branch,
              after |-> None, restored |-> FALSE]]
    BY <1>0, <1>3 DEF InsertRow, At, GoTo, Job
  <2>2. row'[Mine].made /\ job.base = Here /\ Clean
    BY <1>2, <2>1 DEF AsAsked
  <2> QED
    BY <1>1, <1>2, <2>1, <2>2 DEF AsAsked
<1>4. CASE Finalize
  <2>1. /\ job.at = "confirm" /\ job'.at = (IF Restores THEN "mark" ELSE "finish")
        /\ job.seen # NoTip
        /\ row' = [row EXCEPT ![Mine].after = Outcome(job.seen)]
    BY <1>0, <1>4 DEF Finalize, Saw, GoTo, Job
  <2>2. row[Mine].made
    <3>1. Changes \/ Restores
      BY <1>1, InBody DEF Changes, Restores, Change, Undo
    <3> QED
      BY <2>1, <3>1 DEF AsAsked, RecordIsOwn, Recorded, Changes
  <2>3. row[Mine] \in Row
    BY <1>2, <2>2 DEF NoRow
  <2>4. row'[Mine].after.head = HeadCommit
    <3>1. row'[Mine].after.head = job.seen.head
      BY <1>2, <2>1, <2>3 DEF Row, Outcome
    <3>2. job.seen = Here
      BY <2>1 DEF AsAsked
    <3> QED
      BY <3>1, <3>2 DEF Here
  <2>5. \A op \in Op : row[op].made => row'[op].head = row[op].head /\ row'[op].branch = row[op].branch
    BY <1>2, <2>1, <2>3 DEF Row
  <2>6. Restores => Rolled'
    BY <1>1, <1>2, <2>1, <2>5 DEF Rolled, AsAsked, TInv, Roles, Restores, repoVars
  <2> QED
    BY <1>1, <1>2, <2>1, <2>4, <2>6 DEF AsAsked
<1>5. CASE MarkRestored
  <2>1. /\ job.at = "mark" /\ job'.at = "finish"
        /\ row' = [row EXCEPT ![ask[Mine].of].restored = TRUE]
    BY <1>0, <1>5 DEF MarkRestored, At, GoTo, Job
  <2>2. Restores /\ row[ask[Mine].of].made /\ row[ask[Mine].of] \in Row
    BY <1>1, <1>2, <2>1, InBody DEF TInv, Roles, RestorePoints, Restores
  <2>3. row'[Mine].after = row[Mine].after
        /\ row'[ask[Mine].of].head = row[ask[Mine].of].head
        /\ row'[ask[Mine].of].branch = row[ask[Mine].of].branch
    BY <1>2, <2>1, <2>2 DEF Row
  <2>4. Rolled'
    BY <1>1, <1>2, <2>1, <2>2, <2>3 DEF Rolled, AsAsked, repoVars
  <2> QED
    BY <1>1, <1>2, <2>1, <2>2, <2>3, <2>4 DEF AsAsked
<1>6. CASE Evidence
  <2>1. job'.at = "resolve"
    BY <1>0, <1>6 DEF Evidence, GoTo, Job
  <2> QED
    BY <1>1, <2>1 DEF AsAsked
<1> QED
  BY <1>3, <1>4, <1>5, <1>6

\* No step disturbs it, if others act between the bodies only.
LEMMA AskedStep ==
  ASSUME TInv, CheckpointHasRef, Confirmed, RecordIsOwn, AsAsked, [Next]_vars, Outside = {}
  PROVE  AsAsked'
<1>0. job \in Job
  BY JobIs
<1>1. CASE Inspect
  <2>1. /\ job'.at = job.at /\ job'.op = job.op /\ job'.base = job.base /\ job'.seen = Here
        /\ UNCHANGED <<repoVars, rowVars>>
    BY <1>0, <1>1 DEF Inspect, Job, Here
  <2> QED
    BY <2>1, AskedStays DEF rowVars
<1>2. ASSUME job' = NoJob PROVE AsAsked'
  BY <1>2 DEF NoJob, AsAsked
<1>3. CASE \/ InsertFails \/ WriteFails \/ Finish \/ Resolve \/ Refused \/ Uncertain \/ Cancel
           \/ ReconcileEnds \/ Restart
  BY <1>2, <1>3 DEF InsertFails, WriteFails, Finish, Resolve, Refused, Uncertain, Cancel,
                    ReconcileEnds, Restart, Ends, EndJob
<1>4. CASE Body
  BY <1>1, <1>3, <1>4, AskedBefore, AskedAfter, AskedWrites, AskedCommits, AskedResets, AskedRows
     DEF Body
<1>5. CASE Others
  <2>1. UNCHANGED <<rowVars, job>> /\ job.at = "idle"
    BY <1>5 DEF Others, Edit, CommitAll, Publish, Switch, Interfere, MayAct, At
  <2>2. job' = NoJob
    BY <2>1 DEF TInv, Roles
  <2> QED
    BY <1>2, <2>2
<1>6. ASSUME NEW op \in Op, NEW request, NEW point \in {"policy", "checkref"},
             Begin(op, request, point)
      PROVE  AsAsked'
  BY <1>6 DEF Begin, NoJob, AsAsked
<1>7. CASE Request
  <2>1. ASSUME NEW op \in Op, ReconcileFailed(op) PROVE AsAsked'
    BY <2>1, AskedStays DEF ReconcileFailed
  <2>2. ASSUME NEW op \in Op, ReconcileSucceeded(op) PROVE AsAsked'
    BY <2>2 DEF ReconcileSucceeded, NoJob, AsAsked
  <2> QED
    BY <1>6, <1>7, <2>1, <2>2 DEF Request, Mutate, Restore
<1>8. CASE UNCHANGED vars
  BY <1>8, AskedStays DEF vars, rowVars
<1> QED
  BY <1>3, <1>4, <1>5, <1>7, <1>8 DEF Next

\* A change or a rollback that is recorded as succeeded is done: the commit, the work
\* tree and HEAD are what was asked for, and the row says so.
THEOREM DoneIsDone == Spec => SucceededMeansDone
<1>1. Init => Confirmed /\ AmendIsEvidenced /\ RecordIsOwn /\ AsAsked
  BY DEF Init, NoJob, Confirmed, AmendIsEvidenced, Amending, Writing, RecordIsOwn, Recorded, AsAsked
<1>2. ASSUME Outside = {}
      PROVE  TInv /\ IInv /\ Confirmed /\ AmendIsEvidenced /\ RecordIsOwn /\ AsAsked /\ [Next]_vars
               => Confirmed' /\ AmendIsEvidenced' /\ RecordIsOwn' /\ AsAsked'
  BY <1>2, ConfirmedStep, AmendStep, RecordStep, AskedStep DEF IInv
<1>3. ASSUME Outside = {}
      PROVE  Spec => [](TInv /\ Confirmed /\ AmendIsEvidenced /\ RecordIsOwn /\ AsAsked)
  BY TypedInit, StepTyped, InitEstablishes, EveryStep, <1>1, <1>2, <1>3, PTL DEF Spec, IInv
<1>4. TInv /\ RecordIsOwn /\ AsAsked /\ [Next]_vars =>
        (At("finish") /\ state'[Mine] = "succeeded" =>
           /\ Clean
           /\ HeadCommit = row[Mine].after.head
           /\ IF Restores
              THEN HeadCommit = row[ask[Mine].of].head /\ branch = row[ask[Mine].of].branch
              ELSE work = [log[row[Mine].head].tree EXCEPT ![Target] = ask[Mine].content])
  <2> SUFFICES ASSUME TInv, RecordIsOwn, AsAsked, job.at = "finish"
               PROVE  /\ Clean
                      /\ HeadCommit = row[Mine].after.head
                      /\ IF Restores
                         THEN HeadCommit = row[ask[Mine].of].head /\ branch = row[ask[Mine].of].branch
                         ELSE work = [log[row[Mine].head].tree EXCEPT ![Target] = ask[Mine].content]
    BY DEF At
  <2>1. HeadCommit = row[Mine].after.head
    BY DEF AsAsked
  <2>2. CASE Restores
    BY <2>1, <2>2 DEF AsAsked, Rolled
  <2>3. CASE ~Restores
    <3>1. Changes
      BY <2>3, InBody DEF Restores, Changes, Change, Undo
    <3>2. row[Mine].head = job.base.head
      BY <3>1 DEF RecordIsOwn, Recorded, Changes
    <3> QED
      BY <2>1, <2>3, <3>1, <3>2 DEF AsAsked, Wanted
  <2> QED
    BY <2>2, <2>3
<1>5. CASE Outside = {}
  BY <1>3, <1>4, <1>5, PTL DEF Spec, SucceededMeansDone
<1>6. CASE Outside # {}
  <2>1. [Next]_vars => ~(Outside = {} /\ At("finish") /\ state'[Mine] = "succeeded")
    BY <1>6
  <2> QED
    BY <2>1, PTL DEF Spec, SucceededMeansDone
<1> QED
  BY <1>5, <1>6
=============================================================================
