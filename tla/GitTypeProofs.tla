---------------------------- MODULE GitTypeProofs ----------------------------
(***************************************************************************)
(* What branches, refs, rows and bodies name are commits that exist: the   *)
(* type invariant of GitMutation, for any number of operations, paths,     *)
(* branches, commits, sessions and steps of other Git processes.           *)
(***************************************************************************)
EXTENDS GitMutationProofs

Revision == [parent : Nat, tree : Tree, footer : Nat \cup {None}]
Seen     == [branch : Branch \cup {None}, head : Nat]
Job      == [at : Points \cup {"idle"}, op : Op \cup {None}, seen : Seen, base : Seen,
             amend : BOOLEAN, result : Nat]
Change   == [task : {"change"}, path : Path, content : Content \cup {Absent}, session : Nat]
Undo     == [task : {"restore"}, of : Op, head : Nat, session : Nat]
Ending   == [branch : Branch, head : Nat, dirty : BOOLEAN]
Row      == [made : {TRUE}, head : Nat, branch : Branch, after : Ending \cup {None},
             restored : BOOLEAN]

\* The variables, without a word of which commits there are.
Typed ==
  /\ log \in Seq(Revision)
  /\ tip \in [Branch -> Nat] /\ branch \in Branch /\ work \in Tree
  /\ refs \in [Op -> Nat] /\ row \in [Op -> Row \cup {NoRow}]
  /\ state \in [Op -> {"free", "running", "succeeded", "failed", "unknown"}]
  /\ ask \in [Op -> Change \cup Undo \cup {NoAsk}]
  /\ session \in 1 .. MaxSession
  /\ job \in Job
  /\ touched \in [Op -> BOOLEAN]
  /\ outsiders \in 0 .. MaxOutside

\* What they name is there.
Known ==
  /\ \A c \in Commits : log[c].parent \in 0 .. c - 1 /\ log[c].footer \in 1 .. session \cup {None}
  /\ \A b \in Branch : tip[b] \in Commits \cup {0}
  /\ HeadCommit # 0
  /\ published \subseteq Commits
  /\ \A op \in Op : refs[op] \in Commits \cup {0}
  /\ \A op \in Op : row[op].made =>
       row[op].head \in Commits /\ (row[op].after # None => row[op].after.head \in Commits)
  /\ \A op \in Op : ask[op] # NoAsk => ask[op].session \in 1 .. session
  /\ {job.seen, job.base} \subseteq Tip \cup {NoTip}
  /\ job.result \in Commits \cup {0}

ChangePoints  == {"policy", "mode", "footer", "shared", "before", "rm", "written", "verify",
                  "verifyShared", "commit", "final", "verifyref", "evidence", "resolve"}
RestorePoints == {"checkref", "cas", "reset", "restored", "mark"}

\* A body is where its task leads it, and is gone when it has ended.
Roles ==
  /\ job.at = "idle" => job = NoJob
  /\ job.at \in {"ref", "row"} => job.base # NoTip
  /\ job.at # "idle" => Mine \in Op /\ ask[Mine] # NoAsk
  /\ job.at \in ChangePoints => ask[Mine].task = "change"
  /\ job.at \in RestorePoints => ask[Mine].task = "restore"
  /\ job.at # "idle" /\ ask[Mine].task = "restore" => row[ask[Mine].of].made

TInv == Typed /\ Known /\ Roles

\* The invariant says what TypeOK says, and what is needed to keep it.
LEMMA TypeInvariant == TInv => TypeOK
<1> SUFFICES ASSUME TInv PROVE TypeOK
  OBVIOUS
<1> USE DEF TInv, Typed, Known, Roles, Commits
<1>1. ASSUME NEW c \in Commits PROVE log[c].tree \in Tree
  <2>1. log[c] \in Revision
    OBVIOUS
  <2> QED
    BY <2>1 DEF Revision
<1>2. ASSUME NEW op \in Op, row[op].made
      PROVE  /\ [branch |-> row[op].branch, head |-> row[op].head] \in Tip
             /\ row[op].after # None =>
                  [branch |-> row[op].after.branch, head |-> row[op].after.head] \in Tip
  <2>1. row[op] \in Row
    BY <1>2 DEF NoRow
  <2>2. row[op].branch \in Branch /\ row[op].after \in Ending \cup {None}
    BY <2>1 DEF Row
  <2>3. row[op].after # None => row[op].after.branch \in Branch
    BY <2>2 DEF Ending
  <2> QED
    BY <1>2, <2>2, <2>3 DEF Tip
<1>3. job.at \in Points \cup {"idle"}
  BY DEF Job
<1> QED
  BY <1>1, <1>2, <1>3 DEF TypeOK, Job, Mine

\* One commit, and no body.
LEMMA TypedInit == Init => TInv
<1> SUFFICES ASSUME Init PROVE TInv
  OBVIOUS
<1>1. PICK tree \in Tree, main \in Branch :
        /\ log = << [parent |-> 0, tree |-> tree, footer |-> None] >>
        /\ tip = [b \in Branch |-> IF b = main THEN 1 ELSE 0]
        /\ branch = main /\ work = tree
  BY DEF Init
<1>2. log \in Seq(Revision) /\ Len(log) = 1 /\ log[1] = [parent |-> 0, tree |-> tree, footer |-> None]
  BY <1>1 DEF Revision
<1>3. Typed
  BY <1>1, <1>2, BoundsAssumption DEF Init, Typed, Job, Seen, NoJob, NoTip, NoAsk, NoRow, Points
<1>4. Known
  BY <1>1, <1>2 DEF Init, Known, Commits, HeadCommit, NoJob, NoRow
<1>5. Roles
  BY DEF Init, Roles, NoJob, ChangePoints, RestorePoints
<1> QED
  BY <1>3, <1>4, <1>5 DEF TInv

-----------------------------------------------------------------------------
(* Kinds of steps.                                                         *)

\* A body or a reconciliation goes to a point of its task.
LEMMA JobMoves ==
  ASSUME TInv, UNCHANGED <<repoVars, rowVars, touched, outsiders>>,
         job' \in Job, job'.at # "idle", Mine' \in Op, ask[job'.op] # NoAsk,
         {job'.seen, job'.base} \subseteq Tip \cup {NoTip}, job'.result \in Commits \cup {0},
         job'.at \in {"ref", "row"} => job'.base # NoTip,
         job'.at \in ChangePoints => ask[job'.op].task = "change",
         job'.at \in RestorePoints => ask[job'.op].task = "restore",
         ask[job'.op].task = "restore" => row[ask[job'.op].of].made
  PROVE  TInv'
<1> USE DEF TInv, repoVars, rowVars
<1>1. Typed'
  BY DEF Typed
<1>2. Known'
  BY DEF Known, Commits, HeadCommit, Tip
<1>3. Roles'
  BY DEF Roles, Mine
<1> QED
  BY <1>1, <1>2, <1>3

\* GoTo names the point alone.
LEMMA GoToTyped ==
  ASSUME job \in Job, NEW point \in Points, GoTo(point)
  PROVE  /\ job' \in Job /\ job'.at = point /\ job'.op = job.op /\ job'.seen = NoTip
         /\ job'.base = job.base /\ job'.amend = job.amend /\ job'.result = job.result
<1>1. job' = [job EXCEPT !.at = point, !.seen = NoTip]
  BY DEF GoTo
<1>2. NoTip \in Seen
  BY DEF NoTip, Seen
<1> QED
  BY <1>1, <1>2 DEF Job

\* A body goes on to a point that is open to its task.
LEMMA GoesTyped ==
  ASSUME TInv, NEW point \in Points \ {"ref", "row"}, Goes(point), job.at # "idle",
         point \in ChangePoints => ask[Mine].task = "change",
         point \in RestorePoints => ask[Mine].task = "restore"
  PROVE  TInv'
<1>1. /\ job \in Job /\ job.op \in Op /\ ask[job.op] # NoAsk /\ job.base \in Tip \cup {NoTip}
      /\ job.result \in Commits \cup {0}
      /\ ask[job.op].task = "restore" => row[ask[job.op].of].made
  BY DEF TInv, Typed, Known, Roles, Mine
<1>2. point # "idle"
  BY DEF Points, StatusPoints, OtherPoints, HeldPoints
<1>3. /\ job' \in Job /\ job'.at = point /\ job'.op = job.op /\ job'.seen = NoTip
      /\ job'.base = job.base /\ job'.result = job.result
  BY <1>1, GoToTyped DEF Goes
<1> QED
  BY <1>1, <1>2, <1>3, JobMoves DEF Goes, Mine

\* The body ends, and so may its session.
LEMMA JobEnds ==
  ASSUME TInv, EndJob, UNCHANGED <<repoVars, row, ask, touched, outsiders>>,
         state' \in [Op -> {"free", "running", "succeeded", "failed", "unknown"}],
         refs' = refs \/ refs' = [refs EXCEPT ![Mine] = 0],
         session' \in {session, session + 1}, session' \in 1 .. MaxSession
  PROVE  TInv'
<1> USE DEF TInv, repoVars, EndJob
<1>1. NoJob \in Job
  BY DEF NoJob, NoTip, Job, Seen
<1>2. refs' \in [Op -> Nat] /\ \A op \in Op : refs'[op] \in {refs[op], 0}
  BY DEF Typed
<1>3. 1 .. session \subseteq 1 .. session'
  BY DEF Typed
<1>4. Typed'
  BY <1>1, <1>2 DEF Typed
<1>5. /\ (\A c \in Commits : log[c].parent \in 0 .. c - 1 /\ log[c].footer \in 1 .. session \cup {None})'
      /\ (\A op \in Op : ask[op] # NoAsk => ask[op].session \in 1 .. session)'
  BY <1>3 DEF Known, Commits
<1>6. ({job.seen, job.base} \subseteq Tip \cup {NoTip} /\ job.result \in Commits \cup {0})'
  BY DEF NoJob
<1>7. Known'
  BY <1>2, <1>5, <1>6 DEF Known, Commits, HeadCommit
<1>8. Roles'
  BY DEF Roles, NoJob, ChangePoints, RestorePoints
<1> QED
  BY <1>4, <1>7, <1>8

\* A body ends in one of the operation's states.
LEMMA EndsTyped ==
  ASSUME TInv, NEW to \in {"free", "running", "succeeded", "failed", "unknown"}, Ends(to)
  PROVE  TInv'
BY JobEnds DEF Ends, TInv, Typed

\* A commit appends a revision, whoever makes it.
LEMMA LogGrows ==
  ASSUME TInv, NEW new \in Revision, new.parent \in 0 .. Len(log),
         new.footer \in 1 .. session \cup {None},
         log' = Append(log, new), tip' = [tip EXCEPT ![branch] = Len(log) + 1],
         UNCHANGED <<branch, published, work, rowVars>>, outsiders' \in 0 .. MaxOutside,
         touched' \in [Op -> BOOLEAN],
         \/ UNCHANGED job
         \/ job.at = "commit" /\ GoTo("final")
  PROVE  TInv'
<1> USE DEF TInv, rowVars
<1>1. /\ log' \in Seq(Revision) /\ Len(log') = Len(log) + 1 /\ Len(log) \in Nat
      /\ log'[Len(log) + 1] = new /\ \A c \in Commits : log'[c] = log[c]
  BY DEF Typed, Commits
<1>2. Commits' = Commits \cup {Len(log) + 1}
  BY <1>1 DEF Commits
<1>3. /\ job' \in Job /\ job'.op = job.op /\ job'.base = job.base /\ job'.result = job.result
      /\ job'.seen \in {job.seen, NoTip}
      /\ \/ job' = job
         \/ job.at = "commit" /\ job'.at = "final"
  <2>1. job \in Job /\ "final" \in Points
    BY DEF Typed, Points, StatusPoints
  <2> QED
    BY <2>1, GoToTyped
<1>4. Typed'
  BY <1>1, <1>3 DEF Typed
<1>5. ASSUME NEW c \in Commits'
      PROVE  log'[c].parent \in 0 .. c - 1 /\ log'[c].footer \in 1 .. session' \cup {None}
  <2>1. CASE c \in Commits
    BY <1>1, <2>1 DEF Known
  <2>2. CASE c = Len(log) + 1
    BY <1>1, <2>2
  <2> QED
    BY <1>2, <2>1, <2>2
<1>6. (\A b \in Branch : tip[b] \in Commits \cup {0})' /\ HeadCommit' # 0
  BY <1>1, <1>2 DEF Typed, Known, HeadCommit
<1>7. Tip \subseteq Tip'
  BY <1>2 DEF Tip
<1>8. Known'
  BY <1>2, <1>3, <1>5, <1>6, <1>7 DEF Known
<1>9. Roles'
  BY <1>3 DEF Roles, Mine, NoJob, ChangePoints, RestorePoints
<1> QED
  BY <1>4, <1>8, <1>9

\* Refs, the work tree and branches move between commits that there are.
LEMMA RefsMove ==
  ASSUME TInv, UNCHANGED <<log, row, state, ask, session>>,
         tip' \in [Branch -> Nat], \A b \in Branch : tip'[b] \in Commits \cup {0},
         branch' \in Branch, HeadCommit' # 0,
         work' \in Tree, published' \subseteq Commits,
         refs' \in [Op -> Nat], \A op \in Op : refs'[op] \in Commits \cup {0},
         outsiders' \in 0 .. MaxOutside, touched' \in [Op -> BOOLEAN],
         \/ UNCHANGED job
         \/ \E point \in {"row", "written", "restored"} :
              /\ job.at # "idle" /\ GoTo(point)
              /\ point = "row" => job.base # NoTip
              /\ point = "written" => ask[Mine].task = "change"
              /\ point = "restored" => ask[Mine].task = "restore"
  PROVE  TInv'
<1>1. /\ job' \in Job /\ job'.op = job.op /\ job'.base = job.base /\ job'.result = job.result
      /\ job'.seen \in {job.seen, NoTip}
  <2>1. job \in Job /\ {"row", "written", "restored"} \subseteq Points
    BY DEF TInv, Typed, Points, StatusPoints, OtherPoints, HeldPoints
  <2> QED
    BY <2>1, GoToTyped
<1>2. Typed'
  BY <1>1 DEF TInv, Typed
<1>3. Known'
  <2>1. Commits' = Commits /\ Tip' = Tip
    BY DEF Commits, Tip
  <2>2. ({job.seen, job.base} \subseteq Tip \cup {NoTip} /\ job.result \in Commits \cup {0})'
    BY <1>1, <2>1 DEF TInv, Known
  <2>3. /\ (\A c \in Commits : log[c].parent \in 0 .. c - 1 /\ log[c].footer \in 1 .. session \cup {None})'
        /\ (\A op \in Op : row[op].made =>
              row[op].head \in Commits /\ (row[op].after # None => row[op].after.head \in Commits))'
        /\ (\A op \in Op : ask[op] # NoAsk => ask[op].session \in 1 .. session)'
    BY <2>1 DEF TInv, Known
  <2> QED
    BY <2>1, <2>2, <2>3 DEF Known
<1>4. CASE UNCHANGED job
  <2>1. Roles'
    BY <1>4 DEF TInv, Roles, Mine
  <2> QED
    BY <1>2, <1>3, <2>1 DEF TInv
<1>5. ASSUME NEW point \in {"row", "written", "restored"}, job.at # "idle", GoTo(point),
             point = "row" => job.base # NoTip,
             point = "written" => ask[Mine].task = "change",
             point = "restored" => ask[Mine].task = "restore"
      PROVE  TInv'
  <2>1. job'.at = point
    <3>1. job \in Job /\ point \in Points
      BY DEF TInv, Typed, Points, StatusPoints, OtherPoints, HeldPoints
    <3> QED
      BY <1>5, <3>1, GoToTyped
  <2>2. Roles'
    BY <1>1, <1>5, <2>1 DEF TInv, Roles, Mine, ChangePoints, RestorePoints
  <2> QED
    BY <1>2, <1>3, <2>2 DEF TInv
<1> QED
  BY <1>4, <1>5

\* A body or a reconciliation writes a row.
LEMMA RowMoves ==
  ASSUME TInv, UNCHANGED <<repoVars, refs, state, ask, session, touched, outsiders>>,
         NEW op \in Op, NEW new \in Row, row' = [row EXCEPT ![op] = new],
         new.head \in Commits, new.after # None => new.after.head \in Commits,
         job.at # "idle",
         NEW point \in {"reset", "mode", "mark", "finish", "resolve"}, GoTo(point),
         point \in {"mode", "resolve"} => ask[Mine].task = "change",
         point \in {"reset", "mark"} => ask[Mine].task = "restore"
  PROVE  TInv'
<1>1. /\ job' \in Job /\ job'.op = job.op /\ job'.base = job.base /\ job'.result = job.result
      /\ job'.seen = NoTip /\ job'.at = point
  <2>1. job \in Job /\ point \in Points
    BY DEF TInv, Typed, Points, StatusPoints, OtherPoints, HeldPoints
  <2> QED
    BY <2>1, GoToTyped
<1>2. row' \in [Op -> Row \cup {NoRow}] /\ row'[op] = new
      /\ \A other \in Op : row'[other] = row[other] \/ row'[other] = new
  BY DEF TInv, Typed
<1>3. Typed'
  BY <1>1, <1>2 DEF TInv, Typed, repoVars
<1>4. Commits' = Commits /\ Tip' = Tip /\ HeadCommit' = HeadCommit
  BY DEF Commits, Tip, HeadCommit, repoVars
<1>5. Known'
  <2>1. ({job.seen, job.base} \subseteq Tip \cup {NoTip} /\ job.result \in Commits \cup {0})'
    BY <1>1, <1>4 DEF TInv, Known
  <2>2. (\A other \in Op : row[other].made =>
           row[other].head \in Commits
             /\ (row[other].after # None => row[other].after.head \in Commits))'
    BY <1>2, <1>4 DEF TInv, Known
  <2> QED
    BY <1>4, <2>1, <2>2 DEF TInv, Known, repoVars
<1>6. \A other \in Op : row[other].made => row'[other].made
  BY <1>2 DEF Row
<1>7. Roles'
  <2>1. point \notin {"idle", "ref", "row"}
        /\ (point \in ChangePoints => point \in {"mode", "resolve"})
        /\ (point \in RestorePoints => point \in {"reset", "mark"})
    BY DEF ChangePoints, RestorePoints
  <2>2. ask[job.op].task = "restore" => ask[job.op].of \in Op
    BY DEF TInv, Typed, Roles, Mine, Change, Undo, NoAsk
  <2> QED
    BY <1>1, <1>6, <2>1, <2>2 DEF TInv, Roles, Mine
<1> QED
  BY <1>3, <1>5, <1>7 DEF TInv

\* An operation starts: what it is asked to do, and where its body begins.
LEMMA BeginsTyped ==
  ASSUME TInv, NEW op \in Op, NEW request \in Change \cup Undo, NEW point \in {"policy", "checkref"},
         Begin(op, request, point), request.session = session,
         UNCHANGED <<repoVars, refs, row, session, touched, outsiders>>,
         point = "policy" => request.task = "change",
         point = "checkref" => request.task = "restore",
         request.task = "restore" => row[request.of].made
  PROVE  TInv'
<1>1. /\ job' \in Job /\ job'.op = op /\ job'.base = NoTip /\ job'.result = 0
      /\ job'.seen = NoTip /\ job'.at = point
  BY DEF Begin, NoJob, NoTip, Job, Seen, Points, StatusPoints, OtherPoints
<1>2. /\ ask' \in [Op -> Change \cup Undo \cup {NoAsk}] /\ ask'[op] = request
      /\ \A other \in Op : ask'[other] = ask[other] \/ ask'[other] = request
  BY DEF Begin, TInv, Typed
<1>3. state' \in [Op -> {"free", "running", "succeeded", "failed", "unknown"}]
  BY DEF Begin, TInv, Typed
<1>4. Typed'
  BY <1>1, <1>2, <1>3 DEF TInv, Typed, repoVars
<1>5. Commits' = Commits /\ Tip' = Tip /\ HeadCommit' = HeadCommit
  BY DEF Commits, Tip, HeadCommit, repoVars
<1>6. Known'
  <2>1. ({job.seen, job.base} \subseteq Tip \cup {NoTip} /\ job.result \in Commits \cup {0})'
    BY <1>1
  <2>2. session \in 1 .. session
    BY DEF TInv, Typed
  <2>3. (\A other \in Op : ask[other] # NoAsk => ask[other].session \in 1 .. session)'
    BY <1>2, <2>2 DEF TInv, Known
  <2> QED
    BY <1>5, <2>1, <2>3 DEF TInv, Known, repoVars
<1>7. Roles'
  <2>1. request # NoAsk
    BY DEF Change, Undo, NoAsk
  <2>2. "policy" \notin RestorePoints /\ "checkref" \notin ChangePoints
    BY DEF ChangePoints, RestorePoints
  <2> QED
    BY <1>1, <1>2, <2>1, <2>2 DEF Roles, Mine
<1> QED
  BY <1>4, <1>6, <1>7 DEF TInv

-----------------------------------------------------------------------------
(* The steps.                                                              *)

\* What a body knows of the place it is at.
LEMMA InBody ==
  ASSUME TInv, job.at # "idle"
  PROVE  /\ job \in Job /\ Mine \in Op /\ job.op = Mine
         /\ {job.seen, job.base} \subseteq Tip \cup {NoTip}
         /\ job.result \in Commits \cup {0}
         /\ ask[Mine] \in Change \cup Undo /\ ask[Mine].session \in 1 .. session
         /\ HeadCommit \in Commits
         /\ ask[Mine].task = "change" => ask[Mine] \in Change
         /\ ask[Mine].task = "restore" =>
              ask[Mine] \in Undo /\ row[ask[Mine].of] \in Row /\ row[ask[Mine].of].head \in Commits
<1>1. Mine \in Op /\ ask[Mine] \in Change \cup Undo
  BY DEF TInv, Typed, Known, Roles
<1>2. HeadCommit \in Commits
  BY DEF TInv, Typed, Known, HeadCommit
<1>3. ask[Mine].task = "restore" =>
        ask[Mine] \in Undo /\ row[ask[Mine].of] \in Row /\ row[ask[Mine].of].head \in Commits
  <2>1. SUFFICES ASSUME ask[Mine].task = "restore"
        PROVE  ask[Mine] \in Undo /\ row[ask[Mine].of] \in Row /\ row[ask[Mine].of].head \in Commits
    OBVIOUS
  <2>2. ask[Mine] \in Undo /\ ask[Mine].of \in Op
    BY <1>1, <2>1 DEF Change, Undo
  <2> QED
    BY <2>1, <2>2 DEF TInv, Typed, Known, Roles, NoRow
<1>4. ask[Mine].task = "change" => ask[Mine] \in Change
  BY <1>1 DEF Change, Undo
<1>5. job \in Job /\ job.op = Mine /\ {job.seen, job.base} \subseteq Tip \cup {NoTip}
      /\ job.result \in Commits \cup {0}
  BY DEF TInv, Typed, Known, Mine
<1> QED
  BY <1>1, <1>2, <1>3, <1>4, <1>5 DEF TInv, Known, NoAsk, Change, Undo

\* GitGuard.status sees a commit that there is.
LEMMA InspectTyped == TInv /\ Inspect => TInv'
<1> SUFFICES ASSUME TInv, Inspect PROVE TInv'
  OBVIOUS
<1>1. job.at # "idle" /\ job.at \notin {"ref", "row"}
  BY DEF Inspect, StatusPoints
<1>2. [branch |-> branch, head |-> HeadCommit] \in Tip \cap Seen
  BY <1>1, InBody DEF TInv, Typed, Tip, Seen, Commits
<1>3. job' = [job EXCEPT !.seen = [branch |-> branch, head |-> HeadCommit]]
  BY DEF Inspect
<1>4. job' \in Job /\ job'.at = job.at /\ job'.op = job.op /\ job'.base = job.base
      /\ job'.result = job.result /\ job'.seen = [branch |-> branch, head |-> HeadCommit]
  BY <1>1, <1>2, <1>3, InBody DEF Job
<1> QED
  BY <1>1, <1>2, <1>4, InBody, JobMoves DEF Inspect, TInv, Roles, Mine

\* The points that note something besides where they lead.
LEMMA NotesTyped ==
  ASSUME TInv, UNCHANGED <<repoVars, rowVars, touched, outsiders>>,
         job.at # "idle", job' \in Job, job'.op = job.op,
         job'.at \in {"ref", "before", "after", "verify", "commit"},
         job'.seen \in {job.seen, NoTip},
         job'.base \in Tip \cup {NoTip}, job'.result \in Commits \cup {0},
         job'.at = "ref" => job'.base # NoTip,
         job'.at \in {"before", "verify", "commit"} => ask[Mine].task = "change"
  PROVE  TInv'
<1>1. /\ job'.at # "idle" /\ job'.at # "row" /\ job'.at \notin RestorePoints
      /\ (job'.at \in ChangePoints => job'.at \in {"before", "verify", "commit"})
  BY DEF RestorePoints, ChangePoints
<1> QED
  BY <1>1, InBody, JobMoves DEF TInv, Roles, Mine, NoAsk, Known

\* A body that goes on and changes nothing.
LEMMA GoesOn ==
  ASSUME TInv,
         \/ Policy \/ Mode \/ Footer \/ EvidenceFails \/ Delete \/ Verify \/ VerifyShared
         \/ After \/ CheckRef \/ CompareAndSwap \/ VerifyRef
  PROVE  TInv'
<1>1. job.at # "idle"
  BY DEF Policy, Mode, Footer, EvidenceFails, Delete, Unchanged, Verify, VerifyShared,
         After, CheckRef, CompareAndSwap, VerifyRef, At, Saw
<1>2. PICK point \in {"snapshot", "footer", "before", "shared", "rm", "verifyShared", "commit",
                      "confirm", "cas", "evidence"} :
        /\ Goes(point)
        /\ point \in {"footer", "before", "shared", "rm", "verifyShared", "commit", "evidence"} =>
             job.at \in {"mode", "footer", "shared", "before", "verify", "verifyShared", "verifyref"}
        /\ point = "cas" => job.at = "checkref"
  <2>1. CASE Policy \/ CompareAndSwap
    BY <2>1 DEF Policy, CompareAndSwap
  <2>2. CASE Mode \/ Footer \/ EvidenceFails
    BY <2>2 DEF Mode, Footer, EvidenceFails, At, Saw
  <2>3. CASE Delete \/ Verify \/ VerifyShared \/ VerifyRef
    BY <2>3 DEF Delete, Unchanged, Verify, VerifyShared, VerifyRef, At, Saw
  <2>4. CASE After \/ CheckRef
    BY <2>4 DEF After, CheckRef, At
  <2> QED
    BY <2>1, <2>2, <2>3, <2>4
<1>3. point \in Points \ {"ref", "row"}
  BY DEF Points, StatusPoints, OtherPoints
<1>4. /\ point \in ChangePoints =>
           point \in {"footer", "before", "shared", "rm", "verifyShared", "commit", "evidence"}
      /\ point \in RestorePoints => point = "cas"
      /\ {"mode", "footer", "shared", "before", "verify", "verifyShared", "verifyref"}
           \subseteq ChangePoints
      /\ "checkref" \in RestorePoints
  BY DEF ChangePoints, RestorePoints
<1> QED
  BY <1>1, <1>2, <1>3, <1>4, GoesTyped DEF TInv, Roles

\* A body that notes what it goes on with.
LEMMA NotesOn ==
  ASSUME TInv, Snapshot \/ SharedRefs \/ NoChange \/ Written \/ Final \/ Restored
  PROVE  TInv'
<1>1. job.at # "idle" /\ (job.at \in {"shared", "written"} => ask[Mine].task = "change")
  BY DEF TInv, Roles, Snapshot, SharedRefs, NoChange, Unchanged, Written, Final, Restored, At, Saw,
         ChangePoints
<1>2. /\ job \in Job /\ job.seen \in Tip \cup {NoTip} /\ job.base \in Tip \cup {NoTip}
      /\ job.result \in Commits \cup {0}
  BY <1>1, InBody
<1>3. job.seen # NoTip => job.seen.head \in Commits
  BY <1>2 DEF Tip
<1>4. Commits \subseteq Nat /\ {"ref", "before", "after", "verify", "commit"} \subseteq Points
      /\ NoTip \in Seen
  BY DEF Commits, Points, StatusPoints, OtherPoints, NoTip, Seen
<1>5. CASE Snapshot
  <2>1. /\ UNCHANGED <<repoVars, rowVars, touched, outsiders>>
        /\ job.seen # NoTip
        /\ job' \in Job /\ job'.op = job.op /\ job'.at = "ref" /\ job'.seen = NoTip
        /\ job'.base = job.seen /\ job'.result = job.result
    BY <1>2, <1>4, <1>5 DEF Snapshot, Saw, Job
  <2> QED
    BY <1>1, <1>2, <2>1, NotesTyped
<1>6. CASE SharedRefs
  <2>1. /\ UNCHANGED <<repoVars, rowVars, touched, outsiders>> /\ job.at = "shared"
        /\ job' = [job EXCEPT !.at = "before",
                              !.amend = ~Shared(job.base.head, job.base.branch)]
    BY <1>6 DEF SharedRefs, At
  <2>2. (~Shared(job.base.head, job.base.branch)) \in BOOLEAN
    BY DEF Shared
  <2>3. /\ job' \in Job /\ job'.op = job.op /\ job'.at = "before" /\ job'.seen = job.seen
        /\ job'.base = job.base /\ job'.result = job.result
    BY <1>2, <1>4, <2>1, <2>2 DEF Job
  <2> QED
    BY <1>1, <1>2, <2>1, <2>3, NotesTyped
<1>7. CASE NoChange \/ Final \/ Restored
  <2>1. /\ UNCHANGED <<repoVars, rowVars, touched, outsiders>>
        /\ job.seen # NoTip
        /\ job' = [job EXCEPT !.at = "after", !.seen = NoTip, !.result = job.seen.head]
    BY <1>7 DEF NoChange, Unchanged, Final, Restored, Saw
  <2>2. /\ job' \in Job /\ job'.op = job.op /\ job'.at = "after" /\ job'.seen = NoTip
        /\ job'.base = job.base /\ job'.result = job.seen.head
    BY <1>2, <1>3, <1>4, <2>1 DEF Job
  <2> QED
    BY <1>1, <1>2, <1>3, <2>1, <2>2, NotesTyped
<1>8. CASE Written
  <2>1. /\ UNCHANGED <<repoVars, rowVars, touched, outsiders>>
        /\ job.seen # NoTip /\ job.at = "written"
    BY <1>8 DEF Written, Saw
  <2>2. PICK point \in {"after", "verify", "commit"}, result \in Commits \cup {0} :
          job' = [job EXCEPT !.seen = NoTip, !.at = point, !.result = result]
    <3>1. job.seen.head \in Commits
      BY <1>3, <2>1
    <3> QED
      BY <1>8, <3>1 DEF Written
  <2>3. result \in Nat /\ point \in Points
    BY <1>4
  <2>4. job' \in Job
    BY <1>2, <1>4, <2>2, <2>3 DEF Job
  <2>5. /\ job'.op = job.op /\ job'.at = point /\ job'.seen = NoTip
        /\ job'.base = job.base /\ job'.result = result
    BY <1>2, <2>2 DEF Job
  <2> QED
    BY <1>1, <1>2, <2>1, <2>4, <2>5, NotesTyped
<1> QED
  BY <1>5, <1>6, <1>7, <1>8

\* A body that ends.
LEMMA EndsOn ==
  ASSUME TInv,
         \/ InsertFails \/ WriteFails \/ Finish \/ Resolve \/ Refused \/ Uncertain \/ Cancel
         \/ ReconcileEnds \/ Restart
  PROVE  TInv'
<1> DEFINE States == {"free", "running", "succeeded", "failed", "unknown"}
<1>1. state \in [Op -> States]
  BY DEF TInv, Typed
<1>2. CASE InsertFails
  <2>1. /\ EndJob /\ UNCHANGED <<repoVars, row, ask, touched, outsiders, session>>
        /\ state' \in [Op -> States] /\ refs' = [refs EXCEPT ![Mine] = 0]
    BY <1>1, <1>2 DEF InsertFails
  <2> QED
    BY <2>1, JobEnds DEF TInv, Typed
<1>3. CASE Restart
  <2>1. /\ EndJob /\ UNCHANGED <<repoVars, row, ask, touched, outsiders>>
        /\ state' \in [Op -> States] /\ refs' = refs
        /\ session' = session + 1 /\ session' \in 1 .. MaxSession
    BY <1>1, <1>3, BoundsAssumption DEF Restart, TInv, Typed
  <2> QED
    BY <2>1, JobEnds
<1>4. ASSUME WriteFails \/ Finish \/ Resolve \/ Refused \/ Uncertain \/ Cancel \/ ReconcileEnds
      PROVE  \E to \in States : Ends(to)
  <2>1. Resolve \/ ReconcileEnds => state[Mine] \in States
    <3>1. Resolve \/ ReconcileEnds => job.at # "idle"
      BY DEF Resolve, ReconcileEnds, At
    <3> QED
      BY <1>1, <3>1, InBody
  <2> QED
    BY <1>4, <2>1 DEF WriteFails, Finish, Resolve, Refused, Uncertain, Cancel, ReconcileEnds
<1> QED
  BY <1>2, <1>3, <1>4, EndsTyped

\* A body goes to a point between two transactions.
LEMMA PointMoves ==
  ASSUME TInv, UNCHANGED <<repoVars, rowVars, touched, outsiders>>, job.at # "idle",
         NEW point \in {"mark", "finish", "resolve"}, GoTo(point),
         point = "mark" => Restores,
         point = "resolve" => ask[Mine].task = "change"
  PROVE  TInv'
<1>1. point \in Points \ {"ref", "row"}
  BY DEF Points, HeldPoints
<1>2. /\ point \in ChangePoints => point = "resolve"
      /\ point \in RestorePoints => point = "mark"
  BY DEF ChangePoints, RestorePoints
<1> QED
  BY <1>1, <1>2, GoesTyped DEF Goes, Restores

\* A body that writes a row.
LEMMA RowsOn ==
  ASSUME TInv, InsertRow \/ Finalize \/ MarkRestored \/ Evidence
  PROVE  TInv'
<1>1. job.at # "idle"
  BY DEF InsertRow, Finalize, MarkRestored, Evidence, At, Saw
<1>2. row \in [Op -> Row \cup {NoRow}] /\ Mine \in Op /\ ask[Mine].task \in {"change", "restore"}
  BY <1>1, InBody DEF TInv, Typed, Change, Undo
<1>3. CASE InsertRow
  <2> DEFINE new == [made |-> TRUE, head |-> job.base.head, branch |-> job.base.branch,
                     after |-> None, restored |-> FALSE]
  <2>1. job.base \in Tip
    BY <1>1, <1>3, InBody DEF InsertRow, At, TInv, Roles
  <2>2. new \in Row /\ new.head \in Commits /\ new.after = None
    BY <2>1 DEF Row, Tip, Commits
  <2>3. PICK point \in {"reset", "mode"} :
          /\ GoTo(point) /\ (point = "reset") = (ask[Mine].task = "restore")
    BY <1>3 DEF InsertRow
  <2>4. row' = [row EXCEPT ![Mine] = new]
        /\ UNCHANGED <<repoVars, refs, state, ask, session, touched, outsiders>>
    BY <1>3 DEF InsertRow
  <2> HIDE DEF new
  <2> QED
    BY <1>1, <1>2, <2>2, <2>3, <2>4, RowMoves
<1>4. CASE Finalize \/ Evidence
  <2>1. Saw("confirm") \/ Saw("evidence")
    BY <1>4 DEF Finalize, Evidence
  <2>2. job.seen \in Tip /\ (job.at = "evidence" => ask[Mine].task = "change")
    BY <1>1, <2>1, InBody DEF Saw, TInv, Roles, ChangePoints
  <2>3. Outcome(job.seen) \in Ending /\ Outcome(job.seen).head \in Commits
    BY <2>2 DEF Outcome, Ending, Tip, Commits, Clean
  <2>4. PICK point \in {"mark", "finish", "resolve"} :
          /\ GoTo(point) /\ row' = [row EXCEPT ![Mine].after = Outcome(job.seen)]
          /\ (point = "mark" => Restores) /\ (point = "resolve" => job.at = "evidence")
          /\ UNCHANGED <<repoVars, refs, state, ask, session, touched, outsiders>>
    BY <1>4 DEF Finalize, Evidence, Saw
  <2>5. CASE row[Mine] = NoRow
    <3>1. [row[Mine] EXCEPT !.after = Outcome(job.seen)] = NoRow
      BY <2>5 DEF NoRow
    <3>2. row' = row
      BY <1>2, <2>4, <2>5, <3>1
    <3> QED
      BY <1>1, <2>2, <2>4, <3>2, PointMoves DEF rowVars
  <2>6. CASE row[Mine] # NoRow
    <3> DEFINE new == [row[Mine] EXCEPT !.after = Outcome(job.seen)]
    <3>1. row[Mine] \in Row /\ row[Mine].made /\ row[Mine].head \in Commits
      BY <1>2, <2>6 DEF Row, TInv, Known
    <3>2. new \in Row /\ new.head \in Commits /\ new.after = Outcome(job.seen)
      BY <2>3, <3>1 DEF Row
    <3>3. row' = [row EXCEPT ![Mine] = new]
      BY <2>4
    <3> HIDE DEF new
    <3> QED
      BY <1>1, <1>2, <2>2, <2>3, <2>4, <3>2, <3>3, RowMoves DEF Restores
  <2> QED
    BY <2>5, <2>6
<1>5. CASE MarkRestored
  <2> DEFINE of == ask[Mine].of
             new == [row[of] EXCEPT !.restored = TRUE]
  <2>1. of \in Op /\ row[of] \in Row /\ row[of].head \in Commits /\ row[of].made
    BY <1>1, <1>5, InBody DEF MarkRestored, At, TInv, Roles, RestorePoints, Undo, Row
  <2>2. /\ GoTo("finish") /\ row' = [row EXCEPT ![of] = new]
        /\ UNCHANGED <<repoVars, refs, state, ask, session, touched, outsiders>>
    BY <1>5 DEF MarkRestored
  <2>3. new \in Row /\ new.head \in Commits
    BY <2>1 DEF Row
  <2>4. new.after # None => new.after.head \in Commits
    BY <2>1 DEF Row, TInv, Known
  <2> HIDE DEF new, of
  <2> QED
    BY <1>1, <2>1, <2>2, <2>3, <2>4, RowMoves
<1> QED
  BY <1>3, <1>4, <1>5

\* What is at a commit is a tree.
LEMMA TreeOf ==
  ASSUME TInv, NEW c \in Commits
  PROVE  log[c] \in Revision /\ log[c].tree \in Tree
<1>1. log[c] \in Revision
  BY DEF TInv, Typed, Commits
<1> QED
  BY <1>1 DEF Revision

\* A body that writes a ref, the work tree or a branch.
LEMMA WritesOn ==
  ASSUME TInv, CheckpointHasRef, CreateRef \/ Rewrite \/ Remove \/ Reset
  PROVE  TInv'
<1>1. job.at # "idle" /\ (job.at \in ChangePoints => ask[Mine].task = "change")
      /\ (job.at \in RestorePoints => ask[Mine].task = "restore")
  BY DEF TInv, Roles, CreateRef, Rewrite, Remove, Unchanged, Reset, At, Saw
<1>2. /\ tip \in [Branch -> Nat] /\ branch \in Branch /\ work \in Tree /\ refs \in [Op -> Nat]
      /\ touched \in [Op -> BOOLEAN] /\ outsiders \in 0 .. MaxOutside
      /\ (\A b \in Branch : tip[b] \in Commits \cup {0})
      /\ (\A op \in Op : refs[op] \in Commits \cup {0})
      /\ published \subseteq Commits /\ HeadCommit # 0 /\ Mine \in Op
  BY <1>1, InBody DEF TInv, Typed, Known
<1>3. Commits \subseteq Nat \ {0}
  BY DEF Commits
<1>4. CASE CreateRef
  <2>1. job.base \in Tip /\ job.base # NoTip
    BY <1>1, <1>4, InBody DEF CreateRef, At, TInv, Roles
  <2>2. job.base.head \in Commits
    BY <2>1 DEF Tip
  <2>3. refs' \in [Op -> Nat] /\ \A op \in Op : refs'[op] \in Commits \cup {0}
    BY <1>2, <1>3, <1>4, <2>2 DEF CreateRef
  <2>4. GoTo("row") /\ UNCHANGED <<repoVars, row, state, ask, session, touched, outsiders>>
    BY <1>4 DEF CreateRef
  <2>5. HeadCommit' = HeadCommit
    BY <2>4 DEF HeadCommit, repoVars
  <2> QED
    BY <1>1, <1>2, <2>1, <2>3, <2>4, <2>5, RefsMove DEF repoVars
<1>5. CASE Rewrite \/ Remove
  <2>1. job.at \in {"before", "rm"} /\ ask[Mine].task = "change"
    BY <1>1, <1>5 DEF Rewrite, Remove, Unchanged, At, Saw, ChangePoints
  <2>2. ask[Mine].path \in Path /\ ask[Mine].content \in Content \cup {Absent}
    BY <1>1, <2>1, InBody DEF Change
  <2>3. work' \in Tree /\ touched' \in [Op -> BOOLEAN]
    BY <1>2, <1>5, <2>2 DEF Rewrite, Remove, Target, Tree
  <2>4. GoTo("written") /\ UNCHANGED <<log, tip, branch, published, rowVars, outsiders>>
    BY <1>5 DEF Rewrite, Remove
  <2>5. HeadCommit' = HeadCommit
    BY <2>4 DEF HeadCommit
  <2> QED
    BY <1>1, <1>2, <2>1, <2>3, <2>4, <2>5, RefsMove DEF rowVars
<1>6. CASE Reset
  <2> DEFINE target == refs[ask[Mine].of]
  <2>1. ask[Mine].of \in Op /\ row[ask[Mine].of].made /\ target \in Commits
    BY <1>1, <1>6, InBody DEF Reset, At, RestorePoints, Undo, TInv, Roles, CheckpointHasRef
  <2>2. /\ tip' = [tip EXCEPT ![branch] = target] /\ work' = log[target].tree
        /\ touched' = [touched EXCEPT ![Mine] = TRUE] /\ GoTo("restored")
        /\ UNCHANGED <<log, branch, published, rowVars, outsiders>>
    BY <1>6 DEF Reset
  <2>3. ask[Mine].task = "restore"
    BY <1>1, <1>6 DEF Reset, At, RestorePoints
  <2> HIDE DEF target
  <2>4. work' \in Tree /\ touched' \in [Op -> BOOLEAN]
    BY <1>2, <2>1, <2>2, TreeOf
  <2>5. /\ tip' \in [Branch -> Nat] /\ HeadCommit' # 0
        /\ \A b \in Branch : tip'[b] \in Commits \cup {0}
    BY <1>2, <1>3, <2>1, <2>2 DEF HeadCommit
  <2> QED
    BY <1>1, <1>2, <2>2, <2>3, <2>4, <2>5, RefsMove DEF rowVars
<1> QED
  BY <1>4, <1>5, <1>6

\* A body that commits.
LEMMA CommitTyped == TInv /\ Commit => TInv'
<1> SUFFICES ASSUME TInv, Commit PROVE TInv'
  OBVIOUS
<1>1. job.at = "commit" /\ job.at # "idle" /\ ask[Mine].task = "change"
  BY DEF TInv, Roles, Commit, At, ChangePoints
<1>2. HeadCommit \in Commits /\ ask[Mine] \in Change /\ ask[Mine].session \in 1 .. session
  BY <1>1, InBody
<1> DEFINE old == log[HeadCommit]
           new == [parent |-> IF job.amend THEN old.parent ELSE HeadCommit,
                   tree   |-> [old.tree EXCEPT ![Target] = work[Target]],
                   footer |-> IF job.amend THEN old.footer ELSE ask[Mine].session]
<1>3. /\ old \in Revision /\ old.tree \in Tree
      /\ old.parent \in 0 .. HeadCommit - 1 /\ old.footer \in 1 .. session \cup {None}
  BY <1>2, TreeOf DEF TInv, Known
<1>4. Target \in Path /\ work \in Tree /\ session \in Nat /\ Len(log) \in Nat
  BY <1>2 DEF TInv, Typed, Target, Change
<1>5. new.parent \in 0 .. Len(log) /\ new.footer \in 1 .. session \cup {None}
  BY <1>2, <1>3, <1>4 DEF Commits
<1>6. new.tree \in Tree
  BY <1>3, <1>4 DEF Tree
<1>7. new \in Revision
  BY <1>4, <1>5, <1>6 DEF Revision
<1>8. /\ log' = Append(log, new) /\ tip' = [tip EXCEPT ![branch] = Len(log) + 1]
      /\ GoTo("final") /\ UNCHANGED <<branch, published, work, rowVars, outsiders>>
  BY DEF Commit
<1>9. touched' \in [Op -> BOOLEAN] /\ outsiders' \in 0 .. MaxOutside
  BY <1>8 DEF Commit, TInv, Typed
<1> HIDE DEF new
<1> QED
  BY <1>1, <1>5, <1>7, <1>8, <1>9, LogGrows

-----------------------------------------------------------------------------
(* Requests and other Git processes.                                       *)

\* Requests start bodies and reconciliations.
LEMMA RequestTyped == TInv /\ Request => TInv'
<1> SUFFICES ASSUME TInv, Request PROVE TInv'
  OBVIOUS
<1>1. session \in Nat /\ session \in 1 .. session /\ HeadCommit \in Nat
  BY DEF TInv, Typed, HeadCommit
<1>2. ASSUME NEW op \in Op, NEW path \in Path, NEW content \in Content \cup {Absent},
             Mutate(op, path, content)
      PROVE  TInv'
  <2> DEFINE request == [task |-> "change", path |-> path, content |-> content,
                         session |-> session]
  <2>1. request \in Change /\ request.task = "change" /\ request.session = session
    BY <1>1 DEF Change
  <2>2. Begin(op, request, "policy")
        /\ UNCHANGED <<repoVars, refs, row, session, touched, outsiders>>
    BY <1>2 DEF Mutate
  <2> HIDE DEF request
  <2> QED
    BY <2>1, <2>2, BeginsTyped
<1>3. ASSUME NEW op \in Op, NEW of \in Op, Restore(op, of)
      PROVE  TInv'
  <2> DEFINE request == [task |-> "restore", of |-> of, head |-> HeadCommit, session |-> session]
  <2>1. request \in Undo /\ request.task = "restore" /\ request.session = session
        /\ request.of = of
    BY <1>1 DEF Undo
  <2>2. /\ Begin(op, request, "checkref") /\ row[of].made
        /\ UNCHANGED <<repoVars, refs, row, session, touched, outsiders>>
    BY <1>3 DEF Restore
  <2> HIDE DEF request
  <2> QED
    BY <2>1, <2>2, BeginsTyped
<1>4. ASSUME NEW op \in Op, ReconcileFailed(op)
      PROVE  TInv'
  <2>1. /\ state' \in [Op -> {"free", "running", "succeeded", "failed", "unknown"}]
        /\ UNCHANGED <<repoVars, refs, row, ask, session, job, touched, outsiders>>
    BY <1>4 DEF ReconcileFailed, TInv, Typed
  <2>2. Typed' /\ Roles'
    BY <2>1 DEF TInv, Typed, Roles, Mine, repoVars
  <2>3. Known'
    BY <2>1 DEF TInv, Known, Commits, Tip, HeadCommit, repoVars
  <2> QED
    BY <2>2, <2>3 DEF TInv
<1>5. ASSUME NEW op \in Op, ReconcileSucceeded(op)
      PROVE  TInv'
  <2>1. /\ UNCHANGED <<repoVars, rowVars, touched, outsiders>>
        /\ job' = [NoJob EXCEPT !.at = "verifyref", !.op = op]
        /\ ask[op].task = "change"
    BY <1>5 DEF ReconcileSucceeded
  <2>2. /\ job' \in Job /\ job'.at = "verifyref" /\ job'.op = op /\ job'.seen = NoTip
        /\ job'.base = NoTip /\ job'.result = 0
    BY <2>1 DEF NoJob, NoTip, Job, Seen, Points, OtherPoints
  <2>3. ask[op] # NoAsk
    BY <2>1, NoneAssumption DEF NoAsk
  <2>4. "verifyref" \notin RestorePoints
    BY DEF RestorePoints
  <2> QED
    BY <2>1, <2>2, <2>3, <2>4, JobMoves DEF Mine
<1> QED
  BY <1>2, <1>3, <1>4, <1>5 DEF Request

\* Other Git processes name only commits that there are, and leave HEAD on one.
LEMMA OthersTyped == TInv /\ Others => TInv'
<1> SUFFICES ASSUME TInv, Others PROVE TInv'
  OBVIOUS
<1>1. /\ tip \in [Branch -> Nat] /\ branch \in Branch /\ work \in Tree /\ refs \in [Op -> Nat]
      /\ touched \in [Op -> BOOLEAN] /\ outsiders \in 0 .. MaxOutside /\ Len(log) \in Nat
      /\ (\A b \in Branch : tip[b] \in Commits \cup {0})
      /\ (\A op \in Op : refs[op] \in Commits \cup {0})
      /\ published \subseteq Commits /\ HeadCommit \in Commits
  BY DEF TInv, Typed, Known, HeadCommit
<1>2. Commits \subseteq Nat \ {0}
  BY DEF Commits
<1>3. Interfere => /\ UNCHANGED <<rowVars, job, touched>> /\ outsiders' \in 0 .. MaxOutside
  BY <1>1, BoundsAssumption DEF Interfere
<1>4. ASSUME NEW path \in Path, NEW content \in Content \cup {Absent}, Edit(path, content)
      PROVE  TInv'
  <2>1. work' \in Tree /\ UNCHANGED <<log, tip, branch, published>> /\ Interfere
    BY <1>1, <1>4 DEF Edit, Tree
  <2>2. HeadCommit' = HeadCommit
    BY <2>1 DEF HeadCommit
  <2> QED
    BY <1>1, <1>2, <1>3, <2>1, <2>2, RefsMove DEF rowVars
<1>5. CASE Publish
  <2>1. published' \subseteq Commits /\ UNCHANGED <<log, tip, branch, work>> /\ Interfere
    BY <1>1, <1>5 DEF Publish
  <2>2. HeadCommit' = HeadCommit
    BY <2>1 DEF HeadCommit
  <2> QED
    BY <1>1, <1>2, <1>3, <2>1, <2>2, RefsMove DEF rowVars
<1>6. ASSUME NEW to \in Branch, Switch(to)
      PROVE  TInv'
  <2> DEFINE commit == IF tip[to] = 0 THEN HeadCommit ELSE tip[to]
  <2>1. commit \in Commits
    BY <1>1
  <2>2. /\ tip' = [tip EXCEPT ![to] = commit] /\ work' = log[commit].tree /\ branch' = to
        /\ UNCHANGED <<log, published>> /\ Interfere
    BY <1>6 DEF Switch
  <2> HIDE DEF commit
  <2>3. work' \in Tree
    BY <2>1, <2>2, TreeOf
  <2>4. /\ tip' \in [Branch -> Nat] /\ HeadCommit' # 0
        /\ \A b \in Branch : tip'[b] \in Commits \cup {0}
    BY <1>1, <1>2, <2>1, <2>2 DEF HeadCommit
  <2> QED
    BY <1>1, <1>3, <2>2, <2>3, <2>4, RefsMove DEF rowVars
<1>7. ASSUME NEW amend \in BOOLEAN, CommitAll(amend)
      PROVE  TInv'
  <2> DEFINE old == log[HeadCommit]
             new == [parent |-> IF amend THEN old.parent ELSE HeadCommit,
                     tree   |-> work,
                     footer |-> IF amend THEN old.footer ELSE None]
  <2>1. old.parent \in 0 .. HeadCommit - 1 /\ old.footer \in 1 .. session \cup {None}
    BY <1>1 DEF TInv, Known
  <2>2. session \in Nat
    BY DEF TInv, Typed
  <2>3. new.parent \in 0 .. Len(log) /\ new.footer \in 1 .. session \cup {None}
    BY <1>1, <2>1 DEF Commits
  <2>4. new \in Revision
    BY <1>1, <2>2, <2>3 DEF Revision
  <2>5. /\ log' = Append(log, new) /\ tip' = [tip EXCEPT ![branch] = Len(log) + 1]
        /\ UNCHANGED <<branch, published, work>> /\ Interfere
    BY <1>7 DEF CommitAll
  <2> HIDE DEF new
  <2> QED
    BY <1>1, <1>3, <2>3, <2>4, <2>5, LogGrows
<1> QED
  BY <1>4, <1>5, <1>6, <1>7 DEF Others

-----------------------------------------------------------------------------

\* Reset needs CheckpointHasRef: the ref it resets to is there.
LEMMA StepTyped == TInv /\ CheckpointHasRef /\ [Next]_vars => TInv'
<1> SUFFICES ASSUME TInv, CheckpointHasRef, [Next]_vars PROVE TInv'
  OBVIOUS
<1>1. CASE UNCHANGED vars
  <2>1. Typed' /\ Roles'
    BY <1>1 DEF TInv, Typed, Roles, Mine, vars, repoVars, rowVars
  <2>2. Known'
    BY <1>1 DEF TInv, Known, Commits, Tip, HeadCommit, vars, repoVars, rowVars
  <2> QED
    BY <2>1, <2>2 DEF TInv
<1>2. CASE Body
  BY <1>2, InspectTyped, GoesOn, NotesOn, RowsOn, WritesOn, CommitTyped, EndsOn DEF Body
<1>3. CASE Next
  BY <1>2, <1>3, RequestTyped, OthersTyped, EndsOn DEF Next
<1> QED
  BY <1>1, <1>3

\* Every branch, ref and row names a commit that exists, and a body is at a point of
\* its own: `git reset --hard`, `git commit --amend` and finalize_checkpoint never put
\* a name where nothing is, whoever else uses the repository meanwhile.
THEOREM GitTypeCorrect == Spec => []TypeOK
<1>1. Spec => []TInv
  BY TypedInit, StepTyped, CheckpointsKept, PTL DEF Spec
<1> QED
  BY <1>1, TypeInvariant, PTL
=============================================================================
