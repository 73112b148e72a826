-------------------------- MODULE ServiceLifecycle --------------------------
(***************************************************************************)
(* `codemcp-remote start` and `stop` (lifecycle.py): commands that run the *)
(* Bridge and its tunnel as background processes and find them again by a  *)
(* state file.                                                             *)
(*                                                                         *)
(* GRAIN.  One action for each look at a process, an endpoint or the state *)
(* file together with what follows up to the next look; a service dies, or *)
(* starts to listen, between any two of them.  A look at a process and the *)
(* signal that follows it at once are one action: the kernel hands out a   *)
(* process id again only after it has gone through all others.  Both       *)
(* processes, and both endpoints, are looked at in one action: what        *)
(* happens to one of them commutes with the look at the other.             *)
(*                                                                         *)
(* DATA.  The start marker of a process is its number in the order of      *)
(* births.  Each service leads a process group of its own, so a group is   *)
(* named like its leader; the tunnel's group has a second member, the      *)
(* provider's client, which holds the tunnel's port.  POSIX (state file    *)
(* version 2); configuration and secrets are taken to be valid.            *)
(***************************************************************************)
EXTENDS Naturals

CONSTANTS
  Launcher,  \* commands that may run at the same time
  Pid, NoPid,
  MaxBirth   \* bound: processes that are ever born

ASSUME PidAssumption == NoPid \notin Pid
ASSUME MaxBirthAssumption == MaxBirth \in Nat

VARIABLES
  proc,      \* the process with this id
  client,    \* the tunnel client in this group: the birth of its leader, or 0
  port,      \* which group listens at a service's endpoint
  births,
  state,     \* the state file: a mark for each service
  launcher,  \* the commands under way
  strays,    \* processes beyond the records (a history variable)
  served,    \* births of those that ever listened (a history variable)
  signalled  \* kinds of processes that a command has signalled (a history variable)

processVars == <<proc, client, port, births>>
historyVars == <<strays, served, signalled>>
serviceVars == <<processVars, state, launcher, historyVars>>

Service == {"bridge", "tunnel"}
Birth == 1 .. MaxBirth

\* A process, and what the state file says to find it again.  One that got SIGKILL runs no
\* more, but its id, its mark and its endpoint are free only when it has ended.
Gone == [kind |-> "none", born |-> 0]
Process == [kind : Service \cup {"foreign", "killed"}, born : Birth]
NoMark == [pid |-> NoPid, born |-> 0]
Mark == [pid : Pid, born : Birth] \cup {NoMark}
NoState == [s \in Service |-> NoMark]

\* A command: where it is, the state file as it read it, which services that
\* named were its own, the ones it will start, the processes it has started, the
\* services it still has to terminate, and what it does after that.
Idle == [at |-> "idle", read |-> NoState, own |-> {}, start |-> {},
         child |-> NoState, kill |-> {}, grace |-> FALSE, then |-> "none"]

At(l, point) == launcher[l].at = point
Go(l, c) == launcher' = [launcher EXCEPT ![l] = c]
Done(l) == Go(l, Idle)

\* _state_process_owned: the process with the recorded id has the recorded marker.  (Its
\* executable tells little: every process here may run the same interpreter.)
OwnedByNumber(m) == m.pid \in Pid /\ proc[m.pid] # Gone \* a mutant: the marker is ignored
Owned(m) == m.pid \in Pid /\ proc[m.pid].born = m.born

\* _http_check of both endpoints: one that nobody serves does not answer, and one that
\* is served may fail to answer in time.
Served(s) == port[s] # NoPid /\ proc[port[s]].kind # "killed"
Answers == SUBSET {s \in Service : Served(s)}

\* A process id the kernel may hand out: no process, no group, no child that its
\* parent has not waited for.
FreePid(p) ==
  /\ proc[p] = Gone /\ client[p] = 0
  /\ \A l \in Launcher, s \in Service : launcher[l].child[s].pid # p

\* Process id p is born as this kind.
Born(p, kind) ==
  /\ births < MaxBirth /\ FreePid(p)
  /\ births' = births + 1
  /\ proc' = [proc EXCEPT ![p] = [kind |-> kind, born |-> births + 1]]

\* Endpoints once the members of group p in `gone` no longer listen.
Released(p) == [s \in Service |-> IF port[s] = p THEN NoPid ELSE port[s]]

\* The whole group is gone.
GroupEnds(p) ==
  /\ proc' = [proc EXCEPT ![p] = Gone]
  /\ client' = [client EXCEPT ![p] = 0]
  /\ port' = Released(p)
  /\ UNCHANGED births
-----------------------------------------------------------------------------
ServiceInit ==
  /\ proc = [p \in Pid |-> Gone]
  /\ client = [p \in Pid |-> 0]
  /\ port = [s \in Service |-> NoPid]
  /\ births = 0
  /\ state = NoState
  /\ launcher = [l \in Launcher |-> Idle]
  /\ strays = {} /\ served = {} /\ signalled = {}

(***************************************************************************)
(* start_services                                                          *)
(***************************************************************************)
StartBegins(l) ==
  /\ At(l, "idle")
  /\ Go(l, IF state = NoState
             THEN [Idle EXCEPT !.at = "occupied", !.start = Service]
             ELSE [Idle EXCEPT !.at = "look"])
  /\ UNCHANGED <<processVars, state, historyVars>>

\* status_services reads the state file and looks at both processes.
Look(l) ==
  /\ At(l, "look")
  /\ IF state = NoState
       THEN Done(l)
       ELSE Go(l, [launcher[l] EXCEPT !.at = "probe",
                                      !.own = {s \in Service : Owned(state[s])}])
  /\ UNCHANGED <<processVars, state, historyVars>>

\* What is owned and answers stays; what answers and is not owned stops the command,
\* for the tunnel only after an owned Bridge that does not answer was terminated.
Probe(l) ==
  /\ At(l, "probe")
  /\ \E ok \in Answers :
       LET own == launcher[l].own
           spared == own \cap ok
           unowned == ok \ own
           replace == [launcher[l] EXCEPT !.at = "replace", !.read = state,
                                          !.start = Service \ spared]
       IN  IF \/ spared = Service
              \/ "bridge" \in unowned
              \/ "tunnel" \in unowned /\ "bridge" \in spared
              \/ state = NoState
             THEN Done(l)
             ELSE Go(l, IF unowned = {"tunnel"}
                          THEN [replace EXCEPT !.kill = own \cap {"bridge"}, !.then = "refuse"]
                          ELSE [replace EXCEPT !.kill = own \ spared,
                                  !.then = IF spared = {} THEN "unlink" ELSE "occupied"])
  /\ UNCHANGED <<processVars, state, historyVars>>

\* The endpoints of what is to be started must not answer.
Occupied(l) ==
  /\ At(l, "occupied")
  /\ \E ok \in Answers :
       IF ok \cap launcher[l].start # {}
         THEN Done(l)
         ELSE Go(l, [launcher[l] EXCEPT !.at = "spawn"])
  /\ UNCHANGED <<processVars, state, historyVars>>

\* The services this command has yet to spawn; the Bridge comes first.
Pending(l) == {s \in launcher[l].start : launcher[l].child[s] = NoMark}
NextService(l) == IF "bridge" \in Pending(l) THEN "bridge" ELSE "tunnel"
Latest(l) == IF launcher[l].child["tunnel"] # NoMark THEN "tunnel" ELSE "bridge"

Spawn(l) ==
  /\ At(l, "spawn")
  /\ \E p \in Pid :
       /\ Born(p, NextService(l))
       /\ Go(l, [launcher[l] EXCEPT !.at = "wait",
                   !.child = [@ EXCEPT ![NextService(l)] = [pid |-> p, born |-> births + 1]]])
  /\ UNCHANGED <<client, port, state, historyVars>>

\* _wait_endpoint: the child lives and its endpoint answers, whoever serves it.
HealthyWhenAlive(l) == \* a mutant: the endpoint is not awaited
  /\ At(l, "wait") /\ Owned(launcher[l].child[Latest(l)])
  /\ Go(l, [launcher[l] EXCEPT !.at = IF Pending(l) = {} THEN "write" ELSE "spawn"])
  /\ UNCHANGED <<processVars, state, historyVars>>
Healthy(l) ==
  /\ At(l, "wait")
  /\ Owned(launcher[l].child[Latest(l)])
  /\ Served(Latest(l))
  /\ Go(l, [launcher[l] EXCEPT !.at = IF Pending(l) = {} THEN "write" ELSE "spawn"])
  /\ UNCHANGED <<processVars, state, historyVars>>

\* The child has exited, the time is up, or a call raises on the way to the new state file:
\* terminate the children.
StartFailsAtOnce(l) == \* a mutant: the exception leaves the children
  At(l, "wait") /\ Done(l) /\ UNCHANGED <<processVars, state, historyVars>>
StartFails(l) ==
  /\ launcher[l].at \in {"spawn", "wait", "write"}
  /\ Go(l, [launcher[l] EXCEPT !.at = "abort", !.then = "refuse",
              !.kill = {s \in Service : launcher[l].child[s] # NoMark}])
  /\ UNCHANGED <<processVars, state, historyVars>>

\* The new state file: its own children, and the service that was left running.
WriteOwn(l) == \* a mutant: the service that was left running is not in the new file
  /\ At(l, "write")
  /\ state' = launcher[l].child
  /\ Done(l)
  /\ UNCHANGED <<processVars, historyVars>>
WriteState(l) ==
  /\ At(l, "write")
  /\ state' = [s \in Service |-> IF s \in launcher[l].start THEN launcher[l].child[s]
                                                            ELSE launcher[l].read[s]]
  /\ Done(l)
  /\ UNCHANGED <<processVars, historyVars>>

(***************************************************************************)
(* stop_services, and the termination that all commands share              *)
(***************************************************************************)
StopBegins(l) ==
  /\ At(l, "idle")
  /\ state # NoState
  /\ Go(l, [Idle EXCEPT !.at = "stop", !.read = state, !.kill = Service, !.then = "unlink"])
  /\ UNCHANGED <<processVars, state, historyVars>>

Terminating(l) == launcher[l].at \in {"replace", "stop", "abort"}

\* The service to terminate next, and how it is known.
Victim(l) ==
  IF launcher[l].kill = Service
    THEN IF At(l, "replace") THEN "bridge" ELSE "tunnel"
    ELSE CHOOSE s \in launcher[l].kill : TRUE
VictimMark(l) == IF At(l, "abort") THEN launcher[l].child[Victim(l)]
                                   ELSE launcher[l].read[Victim(l)]
VictimOwned(l) == Owned(VictimMark(l))
VictimIsDealtWith(l) ==
  Go(l, [launcher[l] EXCEPT !.kill = @ \ {Victim(l)}, !.grace = FALSE])

\* SIGTERM to the group of an owned process.  The client obeys it, the leader may take
\* its time.
Terminate(l) ==
  /\ Terminating(l) /\ launcher[l].kill # {} /\ ~launcher[l].grace
  /\ VictimOwned(l)
  /\ LET p == VictimMark(l).pid
     IN  /\ client' = [client EXCEPT ![p] = 0]
         /\ port' = IF client[p] # 0 THEN Released(p) ELSE port
         /\ signalled' = signalled \cup {proc[p].kind}
  /\ Go(l, [launcher[l] EXCEPT !.grace = TRUE])
  /\ UNCHANGED <<proc, births, state, strays, served>>

\* There is nobody, or nobody any more, to signal.
VictimSkipped(l) == \* a mutant: what does not end in time is taken to have ended
  /\ Terminating(l) /\ launcher[l].kill # {}
  /\ VictimIsDealtWith(l)
  /\ UNCHANGED <<processVars, state, historyVars>>
VictimIsGone(l) ==
  /\ Terminating(l) /\ launcher[l].kill # {}
  /\ ~VictimOwned(l)
  /\ VictimIsDealtWith(l)
  /\ UNCHANGED <<processVars, state, historyVars>>

\* _terminate_tree fails to capture its child, and returns without a word.
GivesUp(l) ==
  /\ At(l, "abort") /\ launcher[l].kill # {} /\ ~launcher[l].grace
  /\ VictimOwned(l)
  /\ strays' = strays \cup {VictimMark(l).born}
  /\ VictimIsDealtWith(l)
  /\ UNCHANGED <<processVars, state, served, signalled>>

\* SIGKILL, when the process is still the recorded one at the deadline.  Nobody waits for
\* its end.
TerminateOnly(l) == \* a mutant: no SIGKILL
  /\ Terminating(l) /\ launcher[l].grace
  /\ VictimIsDealtWith(l)
  /\ UNCHANGED <<processVars, state, historyVars>>
Kill(l) ==
  /\ Terminating(l) /\ launcher[l].grace
  /\ VictimOwned(l)
  /\ proc' = [proc EXCEPT ![VictimMark(l).pid].kind = "killed"]
  /\ signalled' = signalled \cup {proc[VictimMark(l).pid].kind}
  /\ VictimIsDealtWith(l)
  /\ UNCHANGED <<client, port, births, state, strays, served>>

\* All are terminated: `start` goes on or raises, `stop` is done.
Terminated(l) ==
  /\ Terminating(l) /\ launcher[l].kill = {}
  /\ state' = IF launcher[l].then = "unlink" THEN NoState ELSE state
  /\ IF At(l, "replace") /\ launcher[l].then # "refuse"
       THEN Go(l, [launcher[l] EXCEPT !.at = "occupied"])
       ELSE Done(l)
  /\ UNCHANGED <<processVars, historyVars>>

(***************************************************************************)
(* Interrupted commands, and the life of processes                         *)
(***************************************************************************)
\* KeyboardInterrupt is no Exception: the children of the command stay.
Interrupt(l) ==
  /\ ~At(l, "idle")
  /\ strays' = strays \cup {launcher[l].child[s].born :
                              s \in {t \in Service : Owned(launcher[l].child[t])}}
  /\ Done(l)
  /\ UNCHANGED <<processVars, state, served, signalled>>

\* A service binds its endpoint; if that is taken it exits with an error.
Listen(p) ==
  /\ proc[p].kind \in Service
  /\ port[proc[p].kind] # p
  /\ IF port[proc[p].kind] = NoPid
       THEN /\ port' = [port EXCEPT ![proc[p].kind] = p]
            /\ client' = [client EXCEPT ![p] =
                            IF proc[p].kind = "tunnel" THEN proc[p].born ELSE 0]
            /\ served' = served \cup {proc[p].born}
            /\ UNCHANGED <<proc, births>>
       ELSE GroupEnds(p) /\ UNCHANGED served
  /\ UNCHANGED <<state, launcher, strays, signalled>>

\* A process dies with its group; a client without a supervisor dies.
Exit(p) ==
  /\ proc[p] # Gone \/ client[p] # 0
  /\ GroupEnds(p)
  /\ UNCHANGED <<state, launcher, historyVars>>

\* The tunnel's supervisor dies alone.
SupervisorDies(p) ==
  /\ proc[p].kind = "tunnel" /\ client[p] # 0
  /\ proc' = [proc EXCEPT ![p] = Gone]
  /\ strays' = strays \cup {client[p]}
  /\ UNCHANGED <<client, port, births, state, launcher, served, signalled>>

\* Another program is started, and may take an endpoint.
ForeignBorn(p) ==
  /\ Born(p, "foreign")
  /\ UNCHANGED <<client, port, state, launcher, historyVars>>

ForeignListens(p, s) ==
  /\ proc[p].kind = "foreign"
  /\ port[s] = NoPid
  /\ port' = [port EXCEPT ![s] = p]
  /\ strays' = strays \cup {proc[p].born}
  /\ UNCHANGED <<proc, client, births, state, launcher, served, signalled>>
-----------------------------------------------------------------------------
LauncherStep(l) ==
  \/ StartBegins(l) \/ Look(l) \/ Probe(l) \/ Occupied(l) \/ Spawn(l)
  \/ Healthy(l) \/ StartFails(l) \/ WriteState(l)
  \/ StopBegins(l) \/ Terminate(l) \/ VictimIsGone(l) \/ GivesUp(l) \/ Kill(l) \/ Terminated(l)
  \/ Interrupt(l)

ProcessStep(p) ==
  \/ Listen(p) \/ Exit(p) \/ SupervisorDies(p) \/ ForeignBorn(p)
  \/ \E s \in Service : ForeignListens(p, s)

ServiceNext == (\E l \in Launcher : LauncherStep(l)) \/ (\E p \in Pid : ProcessStep(p))
ServiceSpec == ServiceInit /\ [][ServiceNext]_serviceVars
-----------------------------------------------------------------------------
(***************************************************************************)
(* Properties                                                              *)
(***************************************************************************)
Points == {"idle", "look", "probe", "replace", "occupied", "spawn", "wait", "abort",
           "write", "stop"}
Command == [at : Points, read : [Service -> Mark], own : SUBSET Service,
            start : SUBSET Service, child : [Service -> Mark], kill : SUBSET Service,
            grace : BOOLEAN, then : {"none", "unlink", "occupied", "refuse"}]

\* The type invariant.
ServiceTypeOK ==
  /\ proc \in [Pid -> Process \cup {Gone}]
  /\ client \in [Pid -> 0 .. MaxBirth]
  /\ port \in [Service -> Pid \cup {NoPid}]
  /\ births \in 0 .. MaxBirth
  /\ state \in [Service -> Mark] /\ (state = NoState \/ \A s \in Service : state[s] # NoMark)
  /\ launcher \in [Launcher -> Command]
  /\ strays \subseteq Birth /\ served \subseteq Birth
  /\ signalled \subseteq Service \cup {"foreign", "killed"}

\* No command signals a process that it did not start, whatever became of the recorded process
\* and its id and whoever holds the endpoints (_terminate_state_process asks _state_process_owned
\* before each signal; operations-runbook.md: "Stop only product-owned process trees").
NoForeignSignal == "foreign" \notin signalled

\* The services of this product that are alive, other than strays.
Living(s) == {p \in Pid : proc[p].kind = s /\ proc[p].born \notin strays}
InHand(p) == \E l \in Launcher, s \in Service :
               launcher[l].child[s] = [pid |-> p, born |-> proc[p].born]
Named(p) == \E s \in Service : state[s] = [pid |-> p, born |-> proc[p].born]

\* One command at a time: a living service is named by the state file or is in the hands of the
\* command that spawned it, so that a later start or stop finds it (start_services writes the file
\* last, and deletes it after both were terminated).  The exceptions, the strays, are the children
\* of an interrupted start and those that a failed start could not capture to end them.
NothingUntracked ==
  \A s \in Service : \A p \in Living(s) : Named(p) \/ InHand(p)

\* One command at a time: there are never two Bridges or two tunnels at work, not even one that a
\* start replaces and its replacement (start_services terminates before it spawns).
AtMostOneOfEach == \A s \in Service : \A p, q \in Living(s) : p = q

\* One command at a time: a stop that is through has left nothing at work, other than strays
\* (stop_services).
StopLeavesNothing ==
  [][\A l \in Launcher : At(l, "stop") /\ Terminated(l) =>
        \A s \in Service : Living(s) = {}]_serviceVars

\* One command at a time: when start reports success, each service that it names has itself
\* served its endpoint: _wait_endpoint did not take another process's answer for its child's.
StartedMeansServing ==
  [][\A l \in Launcher : WriteState(l) /\ strays = {} =>
        \A s \in Service : state'[s].born \in served]_serviceVars
=============================================================================
