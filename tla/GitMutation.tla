----------------------------- MODULE GitMutation -----------------------------
(***************************************************************************)
(* The bodies of codemcp-remote's file mutations and rollbacks over a Git  *)
(* repository that other Git processes use at the same time                *)
(* (git_guard.py, checkpoint_service.py, and the bodies in mcp_server.py). *)
(*                                                                         *)
(* GRAIN.  One action for each Git call of a body with the code up to the  *)
(* next call.  The mutation lock and the active-operation check admit one  *)
(* body at a time (BridgeService), so `job` is that body.  GitGuard.status *)
(* is two actions, because it asks for branch and HEAD before it asks what *)
(* changed.  An interrupted call has had its effect or not; a subprocess   *)
(* that outlives its caller is a matter of BridgeService.                  *)
(*                                                                         *)
(* DATA.  A tree gives each path its content, Absent if there is no file.  *)
(* The index is not told apart from the work tree.  A file edit, create or *)
(* write puts a content at a path; delete stands for move as well, which   *)
(* takes the same steps around `git mv`.                                   *)
(***************************************************************************)
EXTENDS Naturals, Sequences

CONSTANTS
  Op,          \* replay identities
  Path, Content, Absent,
  Branch,
  MaxCommit,   \* bound: commits in the repository
  MaxSession,  \* bound: sessions, each one ended by a restart of the Bridge
  MaxOutside,  \* bound: steps of other Git processes
  Outside,     \* <<task, point>>: where in a body other Git processes may act
  None

ASSUME ContentAssumption == Absent \notin Content
ASSUME NoneAssumption == None \notin {"change", "restore"}
ASSUME BoundsAssumption == MaxCommit \in Nat \ {0} /\ MaxSession \in Nat \ {0}
                              /\ MaxOutside \in Nat

VARIABLES
  log,        \* the commits: their parent (0: none), tree and session footer
  tip,        \* refs/heads; 0: no such branch
  branch,     \* what HEAD names
  published,  \* commits that tags and remote-tracking refs name
  work,       \* the work tree
  refs,       \* refs/codemcp-remote/checkpoints; 0: no such ref
  row,        \* the operation's row in checkpoints
  state,      \* operations.state, as far as a body tells it apart
  ask,        \* what the operation was asked to do
  session,    \* the active session
  job,        \* the body inside the project's mutation lock
  touched,    \* has the operation changed the work tree or a branch?
  outsiders   \* steps of other Git processes so far

repoVars == <<log, tip, branch, published, work>>
rowVars  == <<refs, row, state, ask, session>>
vars == <<repoVars, rowVars, job, touched, outsiders>>

Tree == [Path -> Content \cup {Absent}]
Commits == 1 .. Len(log)

\* What Git says about the repository.
HeadCommit == tip[branch]
Changed == {p \in Path : work[p] # log[HeadCommit].tree[p]}
Clean == Changed = {}
Reach(c) ==
  LET reach[d \in 0 .. c] == IF d = 0 THEN {} ELSE {d} \cup reach[log[d].parent]
  IN  reach[c]

\* shared_refs_containing_head: another branch, a tag or a remote-tracking ref
\* contains the commit.  Checkpoint refs do not count.
Shared(c, b) ==
  \/ \E d \in published : c \in Reach(d)
  \/ \E other \in Branch \ {b} : c \in Reach(tip[other])

(***************************************************************************)
(* Points of a body: the Git call it awaits next.  At a StatusPoint that   *)
(* is GitGuard.status, whose answer about branch and HEAD is job.seen.     *)
(***************************************************************************)
StatusPoints == {"policy", "snapshot", "mode", "before", "written", "final",
                 "cas", "restored", "after", "confirm", "evidence"}
OtherPoints  == {"ref", "footer", "shared", "rm", "verify", "verifyShared",
                 "commit", "checkref", "reset", "verifyref"}
\* Not suspended: between two transactions.
HeldPoints   == {"row", "mark", "finish", "resolve"}
Reconciling  == {"verifyref", "evidence", "resolve"}

NoRow == [made |-> FALSE]
NoTip == [branch |-> None, head |-> 0]
NoJob == [at |-> "idle", op |-> None, seen |-> NoTip, base |-> NoTip,
          amend |-> FALSE, result |-> 0]
NoAsk == [task |-> None]

At(point) == job.at = point
Saw(point) == job.at = point /\ job.seen # NoTip
Mine == job.op   \* the operation the body works for
GoTo(point) == job' = [job EXCEPT !.at = point, !.seen = NoTip]
EndJob == job' = NoJob

Begin(op, request, point) ==
  /\ At("idle")
  /\ state[op] = "free"
  /\ \A other \in Op : state[other] \notin {"running", "unknown"}
  /\ state' = [state EXCEPT ![op] = "running"]
  /\ ask' = [ask EXCEPT ![op] = request]
  /\ job' = [NoJob EXCEPT !.at = point, !.op = op]

\* The body raises a BridgeError that says what became of the operation.
Ends(to) ==
  /\ state' = [state EXCEPT ![Mine] = to]
  /\ EndJob
  /\ UNCHANGED <<repoVars, refs, row, ask, session, touched, outsiders>>
Goes(point) == GoTo(point) /\ UNCHANGED <<repoVars, rowVars, touched, outsiders>>

Init ==
  \E tree \in Tree, main \in Branch :
    /\ log = << [parent |-> 0, tree |-> tree, footer |-> None] >>
    /\ tip = [b \in Branch |-> IF b = main THEN 1 ELSE 0]
    /\ branch = main
    /\ published = {}
    /\ work = tree
    /\ refs = [op \in Op |-> 0]
    /\ row = [op \in Op |-> NoRow]
    /\ state = [op \in Op |-> "free"]
    /\ ask = [op \in Op |-> NoAsk]
    /\ session = 1
    /\ job = NoJob
    /\ touched = [op \in Op |-> FALSE]
    /\ outsiders = 0

-----------------------------------------------------------------------------
(* GitGuard.status: `rev-parse` for branch and HEAD, then `status`.        *)

Inspect ==
  /\ job.at \in StatusPoints /\ job.seen = NoTip
  /\ job' = [job EXCEPT !.seen = [branch |-> branch, head |-> HeadCommit]]
  /\ UNCHANGED <<repoVars, rowVars, touched, outsiders>>

-----------------------------------------------------------------------------
(* _begin_mutation: preconditions, checkpoint, commit mode.                *)

Mutate(op, path, content) ==
  /\ Begin(op, [task |-> "change", path |-> path, content |-> content,
                session |-> session], "policy")
  /\ UNCHANGED <<repoVars, refs, row, session, touched, outsiders>>

Policy == Saw("policy") /\ Clean /\ Goes("snapshot")

\* CheckpointService.create: what it saw becomes the baseline.
Snapshot ==
  /\ Saw("snapshot") /\ Clean
  /\ job' = [job EXCEPT !.at = "ref", !.seen = NoTip, !.base = job.seen]
  /\ UNCHANGED <<repoVars, rowVars, touched, outsiders>>

CreateRefOfHead == \* a mutant: the ref names HEAD, not the snapshot's commit
  /\ At("ref")
  /\ refs' = [refs EXCEPT ![Mine] = HeadCommit]
  /\ GoTo("row")
  /\ UNCHANGED <<repoVars, row, state, ask, session, touched, outsiders>>
CreateRef ==
  /\ At("ref")
  /\ refs' = [refs EXCEPT ![Mine] = job.base.head]
  /\ GoTo("row")
  /\ UNCHANGED <<repoVars, row, state, ask, session, touched, outsiders>>

InsertRow ==
  /\ At("row")
  /\ row' = [row EXCEPT ![Mine] =
       [made |-> TRUE, head |-> job.base.head, branch |-> job.base.branch,
        after |-> None, restored |-> FALSE]]
  /\ GoTo(IF ask[Mine].task = "restore" THEN "reset" ELSE "mode")
  /\ UNCHANGED <<repoVars, refs, state, ask, session, touched, outsiders>>

\* The row cannot be inserted: the ref is removed again.
InsertFails ==
  /\ At("row")
  /\ refs' = [refs EXCEPT ![Mine] = 0]
  /\ state' = [state EXCEPT ![Mine] = "failed"]
  /\ EndJob
  /\ UNCHANGED <<repoVars, row, ask, session, touched, outsiders>>

\* find_session_wip_checkpoint: a succeeded mutation of the active session left
\* this branch at this commit, and was more than a no-op.
WipEvidence(seen) ==
  \E op \in Op :
    /\ state[op] = "succeeded"
    /\ ask[op].task = "change" /\ ask[op].session = ask[Mine].session
    /\ ~row[op].restored
    /\ row[op].after = [branch |-> seen.branch, head |-> seen.head, dirty |-> FALSE]
    /\ row[op].branch = seen.branch /\ row[op].head # seen.head

\* determine_commit_mode: what is missing or uncertain means a new commit.
Mode ==
  /\ Saw("mode")
  /\ Goes(IF Clean /\ job.seen = job.base /\ WipEvidence(job.seen)
          THEN "footer" ELSE "before")
Footer ==
  /\ At("footer")
  /\ Goes(IF log[job.base.head].footer = ask[Mine].session THEN "shared" ELSE "before")
SharedRefs ==
  /\ At("shared")
  /\ job' = [job EXCEPT !.at = "before",
                        !.amend = ~Shared(job.base.head, job.base.branch)]
  /\ UNCHANGED <<repoVars, rowVars, touched, outsiders>>
EvidenceFails ==
  /\ job.at \in {"mode", "footer", "shared"}
  /\ Goes("before")

-----------------------------------------------------------------------------
(* commit_file_bytes and delete_tracked_file.                              *)

Deletes == ask[Mine].content = Absent
Target == ask[Mine].path

ExistsAlready == work[Target] # Absent \* a mutant: an existing file is not written
AlreadyThere == work[Target] = ask[Mine].content

\* Nothing was changed yet: the body is refused where it looks at the work tree.
Unchanged == Saw("before") /\ job.seen.head = job.base.head /\ Clean

Rewrite ==
  /\ Unchanged /\ ~Deletes /\ ~AlreadyThere
  /\ work' = [work EXCEPT ![Target] = ask[Mine].content]
  /\ touched' = [touched EXCEPT ![Mine] = TRUE]
  /\ GoTo("written")
  /\ UNCHANGED <<log, tip, branch, published, rowVars, outsiders>>

\* The temporary file cannot be written or put in place.
WriteFails == Unchanged /\ ~Deletes /\ ~AlreadyThere /\ Ends("unknown")

\* The file has the content already: no commit.
NoChange ==
  /\ Unchanged /\ ~Deletes /\ AlreadyThere
  /\ job' = [job EXCEPT !.at = "after", !.seen = NoTip, !.result = job.seen.head]
  /\ UNCHANGED <<repoVars, rowVars, touched, outsiders>>

Delete == Unchanged /\ Deletes /\ Goes("rm")

\* `git rm` wants a tracked file without local changes.
Remove ==
  /\ At("rm")
  /\ work[Target] # Absent /\ Target \notin Changed
  /\ work' = [work EXCEPT ![Target] = Absent]
  /\ touched' = [touched EXCEPT ![Mine] = TRUE]
  /\ GoTo("written")
  /\ UNCHANGED <<log, tip, branch, published, rowVars, outsiders>>

\* Only the target has changed on the checkpoint's HEAD; a rewritten file that
\* Git takes for unchanged needs no commit.
Isolated == job.seen.head = job.base.head /\ Changed \subseteq {Target}
Written ==
  /\ Saw("written") /\ Isolated
  /\ job' = [job EXCEPT
       !.seen = NoTip,
       !.at = IF ~Deletes /\ Clean THEN "after"
              ELSE IF job.amend THEN "verify" ELSE "commit",
       !.result = IF ~Deletes /\ Clean THEN job.seen.head ELSE 0]
  /\ UNCHANGED <<repoVars, rowVars, touched, outsiders>>

\* _verify_amend_target; what `status` says about the work tree is not used.
VerifyNothing == At("verify") /\ Goes("commit") \* a mutant: no check before the amend
Verify ==
  /\ At("verify")
  /\ HeadCommit = job.base.head /\ branch = job.base.branch
  /\ Goes("verifyShared")
AmendShared == At("verifyShared") /\ Goes("commit") \* a mutant: refs are not rechecked
VerifyShared ==
  /\ At("verifyShared")
  /\ ~Shared(job.base.head, job.base.branch)
  /\ Goes("commit")

\* `git commit --only -- path`, or `--amend --no-edit --allow-empty --only`.
Commit ==
  /\ At("commit")
  /\ Len(log) < MaxCommit
  /\ job.amend \/ Target \in Changed
  /\ LET old == log[HeadCommit]
         new == [parent |-> IF job.amend THEN old.parent ELSE HeadCommit,
                 tree   |-> [old.tree EXCEPT ![Target] = work[Target]],
                 footer |-> IF job.amend THEN old.footer ELSE ask[Mine].session]
     IN  log' = Append(log, new)
  /\ tip' = [tip EXCEPT ![branch] = Len(log) + 1]
  /\ touched' = [touched EXCEPT ![Mine] = TRUE]
  /\ GoTo("final")
  /\ UNCHANGED <<branch, published, work, rowVars, outsiders>>

Final ==
  /\ Saw("final") /\ Clean /\ job.seen.head # job.base.head
  /\ job' = [job EXCEPT !.at = "after", !.seen = NoTip, !.result = job.seen.head]
  /\ UNCHANGED <<repoVars, rowVars, touched, outsiders>>

-----------------------------------------------------------------------------
(* CheckpointService.finalize, and how an operation succeeds.              *)

Restores == ask[Mine].task = "restore"
ExpectedBranch == IF Restores THEN row[ask[Mine].of].branch ELSE job.base.branch
AsExpected == job.seen = [branch |-> ExpectedBranch, head |-> job.result]

After == Saw("after") /\ AsExpected /\ Goes("confirm")

OutcomeExpected(seen) == \* a mutant: what the body expects, not what it saw
  [branch |-> seen.branch, head |-> job.result, dirty |-> ~Clean]
Outcome(seen) == [branch |-> seen.branch, head |-> seen.head, dirty |-> ~Clean]

Finalize ==
  /\ Saw("confirm") /\ AsExpected
  /\ row' = [row EXCEPT ![Mine].after = Outcome(job.seen)]
  /\ GoTo(IF Restores THEN "mark" ELSE "finish")
  /\ UNCHANGED <<repoVars, refs, state, ask, session, touched, outsiders>>

MarkRestored ==
  /\ At("mark")
  /\ row' = [row EXCEPT ![ask[Mine].of].restored = TRUE]
  /\ GoTo("finish")
  /\ UNCHANGED <<repoVars, refs, state, ask, session, touched, outsiders>>

Finish == At("finish") /\ Ends("succeeded")

-----------------------------------------------------------------------------
(* _restore_checkpoint_for_operation.                                      *)

\* The client confirms a rollback for the HEAD it knows; the check before the
\* approval and the one after it see the same.
Restore(op, of) ==
  /\ row[of].made /\ ask[of].session = session
  /\ branch = row[of].branch /\ Clean
  /\ Begin(op, [task |-> "restore", of |-> of, head |-> HeadCommit,
                session |-> session], "checkref")
  /\ UNCHANGED <<repoVars, refs, row, session, touched, outsiders>>

CheckRef ==
  /\ At("checkref")
  /\ refs[ask[Mine].of] = row[ask[Mine].of].head
  /\ Goes("cas")

CompareAndSwap ==
  /\ Saw("cas")
  /\ job.seen = [branch |-> row[ask[Mine].of].branch, head |-> ask[Mine].head]
  /\ Clean
  /\ Goes("snapshot")

\* `git reset --hard ref`, whatever HEAD is by now.
Reset ==
  /\ At("reset")
  /\ LET target == refs[ask[Mine].of]
     IN  tip' = [tip EXCEPT ![branch] = target] /\ work' = log[target].tree
  /\ touched' = [touched EXCEPT ![Mine] = TRUE]
  /\ GoTo("restored")
  /\ UNCHANGED <<log, branch, published, rowVars, outsiders>>

Restored ==
  /\ Saw("restored")
  /\ job.seen = [branch |-> row[ask[Mine].of].branch, head |-> row[ask[Mine].of].head]
  /\ Clean
  /\ job' = [job EXCEPT !.at = "after", !.seen = NoTip, !.result = job.seen.head]
  /\ UNCHANGED <<repoVars, rowVars, touched, outsiders>>

-----------------------------------------------------------------------------
(* operation_reconcile.                                                    *)

ReconcileFailed(op) ==
  /\ state[op] = "unknown"
  /\ job.at \notin HeldPoints
  /\ state' = [state EXCEPT ![op] = "failed"]
  /\ UNCHANGED <<repoVars, refs, row, ask, session, job, touched, outsiders>>

\* One mutation checkpoint that is not finalized, whose ref is in place.
ReconcileSucceeded(op) ==
  /\ At("idle")
  /\ state[op] = "unknown"
  /\ ask[op].task = "change" /\ row[op].made /\ row[op].after = None
  /\ job' = [NoJob EXCEPT !.at = "verifyref", !.op = op]
  /\ UNCHANGED <<repoVars, rowVars, touched, outsiders>>

VerifyRef == At("verifyref") /\ refs[Mine] = row[Mine].head /\ Goes("evidence")

\* What the repository is now counts as the outcome.
Evidence ==
  /\ Saw("evidence")
  /\ row' = [row EXCEPT ![Mine].after = Outcome(job.seen)]
  /\ GoTo("resolve")
  /\ UNCHANGED <<repoVars, refs, state, ask, session, touched, outsiders>>

\* Refused if the operation was given up meanwhile.
Resolve == At("resolve") /\ Ends(IF state[Mine] = "unknown" THEN "succeeded" ELSE state[Mine])

-----------------------------------------------------------------------------
(* What goes wrong.                                                        *)

\* Where a body that cannot go on has changed nothing ...
Before == {"policy", "snapshot", "ref", "before", "rm", "checkref", "cas"}
\* ... and where nobody can tell.
Later == {"written", "verify", "verifyShared", "commit", "final", "reset",
          "restored", "after", "confirm"}

\* A check fails, or a Git call does: before it had an effect, for the effect of
\* a call that fails after it is that of the next point.  The exception, a `git mv`
\* or `git rm` that its timeout kills after it worked and that is recorded as failed,
\* is MoveTimesOut of BridgeService.
Refused == job.at \in Before /\ Ends("failed")
GuessFailed == job.at \in Later /\ Ends("failed") \* a mutant
Uncertain == job.at \in Later /\ Ends("unknown")

\* The request is cancelled at an await ("row": of the update-ref that has taken
\* effect): _execute records what it cannot tell;
\* a rollback belongs to another request, which leaves it as it is.
Cancel ==
  /\ job.at \in (StatusPoints \cup OtherPoints \cup {"row"}) \ Reconciling
  /\ Ends(IF Restores THEN "running" ELSE "unknown")

\* A reconciliation fails, or is cancelled.
ReconcileEnds == job.at \in {"verifyref", "evidence"} /\ Ends(state[Mine])

\* The Bridge dies and restarts: its session is over, its work is unknown.
Restart ==
  /\ session < MaxSession
  /\ session' = session + 1
  /\ state' = [op \in Op |-> IF state[op] = "running" THEN "unknown" ELSE state[op]]
  /\ EndJob
  /\ UNCHANGED <<repoVars, refs, row, ask, touched, outsiders>>

-----------------------------------------------------------------------------
(* Other Git processes: the user's editor, commits, branches and pushes.   *)

MayAct ==
  \/ At("idle")
  \/ ~At("idle") /\ <<ask[Mine].task, job.at>> \in Outside

Interfere ==
  /\ MayAct
  /\ outsiders < MaxOutside /\ outsiders' = outsiders + 1
  /\ UNCHANGED <<rowVars, job, touched>>

Edit(path, content) ==
  /\ Interfere
  /\ work[path] # content
  /\ work' = [work EXCEPT ![path] = content]
  /\ UNCHANGED <<log, tip, branch, published>>

\* `git commit --all`, as a new commit or with --amend.
CommitAll(amend) ==
  /\ Interfere
  /\ ~Clean /\ Len(log) < MaxCommit
  /\ log' = Append(log, [parent |-> IF amend THEN log[HeadCommit].parent ELSE HeadCommit,
                         tree   |-> work,
                         footer |-> IF amend THEN log[HeadCommit].footer ELSE None])
  /\ tip' = [tip EXCEPT ![branch] = Len(log) + 1]
  /\ UNCHANGED <<branch, published, work>>

\* A tag, or a push that updates a remote-tracking ref.
Publish ==
  /\ Interfere
  /\ published' = published \cup {HeadCommit}
  /\ UNCHANGED <<log, tip, branch, work>>

\* `git switch`, creating the branch where HEAD is if there is none.
Switch(to) ==
  /\ Interfere
  /\ Clean /\ to # branch
  /\ LET commit == IF tip[to] = 0 THEN HeadCommit ELSE tip[to]
     IN  tip' = [tip EXCEPT ![to] = commit] /\ work' = log[commit].tree
  /\ branch' = to
  /\ UNCHANGED <<log, published>>

-----------------------------------------------------------------------------

Request ==
  \/ \E op \in Op, path \in Path, content \in Content \cup {Absent} : Mutate(op, path, content)
  \/ \E op, of \in Op : Restore(op, of)
  \/ \E op \in Op : ReconcileFailed(op) \/ ReconcileSucceeded(op)

Body ==
  \/ Inspect \/ Policy \/ Snapshot \/ CreateRef \/ InsertRow \/ InsertFails
  \/ Mode \/ Footer \/ SharedRefs \/ EvidenceFails
  \/ Rewrite \/ WriteFails \/ NoChange \/ Delete \/ Remove \/ Written
  \/ Verify \/ VerifyShared \/ Commit \/ Final
  \/ After \/ Finalize \/ MarkRestored \/ Finish
  \/ CheckRef \/ CompareAndSwap \/ Reset \/ Restored
  \/ VerifyRef \/ Evidence \/ Resolve
  \/ Refused \/ Uncertain \/ Cancel \/ ReconcileEnds

Others ==
  \/ \E path \in Path, content \in Content \cup {Absent} : Edit(path, content)
  \/ \E amend \in BOOLEAN : CommitAll(amend)
  \/ Publish
  \/ \E to \in Branch : Switch(to)

Next == Request \/ Body \/ Restart \/ Others

Spec == Init /\ [][Next]_vars

-----------------------------------------------------------------------------
(* Properties.                                                             *)

Tip == [branch : Branch, head : Commits]
Points == StatusPoints \cup OtherPoints \cup HeldPoints

\* Every branch, ref and row names a commit that exists, HEAD is never an unborn
\* branch, and a body is at a point of its own.
TypeOK ==
  /\ \A c \in Commits : /\ log[c].parent \in 0 .. c - 1
                        /\ log[c].tree \in Tree
                        /\ log[c].footer \in 1 .. session \cup {None}
  /\ tip \in [Branch -> (Commits \cup {0})] /\ branch \in Branch /\ HeadCommit # 0
  /\ published \subseteq Commits
  /\ work \in Tree
  /\ refs \in [Op -> (Commits \cup {0})]
  /\ \A op \in Op : row[op].made =>
       /\ [branch |-> row[op].branch, head |-> row[op].head] \in Tip
       /\ row[op].after # None =>
            [branch |-> row[op].after.branch, head |-> row[op].after.head] \in Tip
  /\ state \in [Op -> {"free", "running", "succeeded", "failed", "unknown"}]
  /\ session \in 1 .. MaxSession
  /\ job.at \in Points \cup {"idle"} /\ {job.seen, job.base} \subseteq Tip \cup {NoTip}
  /\ job # NoJob => job.op \in Op /\ job.result \in (Commits \cup {0})
  /\ touched \in [Op -> BOOLEAN]
  /\ outsiders \in 0 .. MaxOutside

\* A recorded checkpoint can be restored: its ref exists and names the recorded
\* commit, whatever other Git processes did between the look at the repository,
\* the update-ref and the transaction of CheckpointService.create.
CheckpointHasRef == \A op \in Op : row[op].made => refs[op] = row[op].head

\* The commits that branches, tags, remotes or recorded checkpoints keep.
Kept == UNION {Reach(c) : c \in {tip[b] : b \in Branch} \cup published
                               \cup {refs[op] : op \in {o \in Op : row[o].made}}}

\* No body makes a commit unreachable, its own or a user's: what an amend or a
\* reset takes from the branch is kept by the checkpoint taken before it.
NothingLost == [][job'.at # job.at => Kept \subseteq Kept']_vars

\* _commit_arguments with AMEND_SESSION_WIP replaces only a WIP commit of the
\* asking session, that this session's mutations left at the checkpoint's place,
\* and that no other branch, tag or remote has: also when a user commits, switches
\* or pushes while the body decides and writes, up to its last look at HEAD.  What
\* they do after that look no check sees.
AmendsOnlyOwnWip ==
  [][At("commit") /\ job'.at = "final" /\ job.amend =>
       /\ [branch |-> branch, head |-> HeadCommit] = job.base
       /\ log[HeadCommit].footer = ask[Mine].session
       /\ WipEvidence(job.base)
       /\ ~Shared(HeadCommit, branch)]_vars

\* An operation that its body declares failed has left the work tree and every
\* branch alone: only then may the client repeat it without a look.  (A `git rm` that is
\* killed after it worked, and an exception of the store, are faults of BridgeService.)
FailedUntouched ==
  [][\A op \in Op :
       state[op] = "running" /\ state'[op] = "failed" => ~touched[op]]_vars

\* What succeeded is done, unless others use the repository in the middle of a
\* body (then the code promises no more than AmendsOnlyOwnWip).  A change: the recorded commit
\* is HEAD, it differs from the checkpoint's in what was asked for and in nothing
\* else, and nothing is left uncommitted.  A rollback: HEAD and the work tree
\* are those of the checkpoint it was asked for.
SucceededMeansDone ==
  [][Outside = {} /\ At("finish") /\ state'[Mine] = "succeeded" =>
       /\ Clean
       /\ HeadCommit = row[Mine].after.head
       /\ IF Restores
          THEN HeadCommit = row[ask[Mine].of].head /\ branch = row[ask[Mine].of].branch
          ELSE work = [log[row[Mine].head].tree EXCEPT ![Target] = ask[Mine].content]]_vars

\* README.md:294, of checkpoint_restore: it "refuses to overwrite externally changed Git
\* state".  A reset that changes anything replaces the HEAD that the client confirmed, with
\* a clean work tree.  No run checks this: it does not hold if others act between CompareAndSwap
\* and Reset, and otherwise it is the guard of CompareAndSwap.
RollbackRespectsOthers ==
  [][At("reset") /\ job'.at = "restored" /\ <<tip, work>>' # <<tip, work>> =>
       HeadCommit = ask[Mine].head /\ branch = row[ask[Mine].of].branch /\ Clean]_vars

\* README.md:280: the Bridge "records an unknown result if finalization observes a different
\* HEAD".  A change that succeeds records its own commit, which carries the session's
\* footer, or the checkpoint's if there was nothing to do.  No run checks this: it does not hold
\* if others commit between Commit and the look of Final.
RecordsOwnCommit ==
  [][At("finish") /\ ~Restores /\ state'[Mine] = "succeeded" =>
       \/ row[Mine].after.head = row[Mine].head
       \/ log[row[Mine].after.head].footer = ask[Mine].session]_vars
=============================================================================
