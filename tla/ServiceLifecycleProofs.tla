---------------------- MODULE ServiceLifecycleProofs ----------------------
(***************************************************************************)
(* The safety properties of ServiceLifecycle.                              *)
(*                                                                         *)
(* For any number of commands, process ids and processes, the commands     *)
(* signal nothing that this product did not start: a mark, wherever it is  *)
(* kept, carries the birth number of a service, and numbers are never      *)
(* given twice, so a process that has both the id and the number of a mark *)
(* is that service.                                                        *)
(*                                                                         *)
(* With one command at a time, no service is lost sight of, started twice  *)
(* or left behind by a stop: what the command has found not to run of what *)
(* the file names stays so, and what may still run of it is due to be      *)
(* terminated (Knows), the children served before the file names them      *)
(* (Awaits), and every living service is the file's or the command's child *)
(* (Tracks).  The properties fail when two commands run at once.           *)
(***************************************************************************)
EXTENDS ServiceLifecycle, TLAPS

\* What a command keeps of the state file is filled in where it will use it.
RecordKept ==
  \A l \in Launcher :
    launcher[l].at \in {"replace", "occupied", "spawn", "wait", "write"} =>
      \A s \in Service \ launcher[l].start : launcher[l].read[s] # NoMark

\* A command that writes the state file has spawned all that it was to start.
AllSpawned ==
  \A l \in Launcher :
    At(l, "write") => \A s \in launcher[l].start : launcher[l].child[s] # NoMark

\* A command gives time to end only to a service that it still has to terminate.
GraceGiven ==
  \A l \in Launcher : launcher[l].grace => Terminating(l) /\ launcher[l].kill # {}

TypeInv == ServiceTypeOK /\ RecordKept /\ AllSpawned /\ GraceGiven

\* The command l goes on as c, which has the invariant's parts.
Fits(c) ==
  /\ c \in Command
  /\ c.at \in {"replace", "occupied", "spawn", "wait", "write"} =>
       \A s \in Service \ c.start : c.read[s] # NoMark
  /\ c.at = "write" => \A s \in c.start : c.child[s] # NoMark
  /\ c.grace => c.at \in {"replace", "stop", "abort"} /\ c.kill # {}

USE PidAssumption, MaxBirthAssumption

LEMMA NoStateType == NoState \in [Service -> Mark] /\ NoMark \in Mark
  BY DEF NoState, Mark

LEMMA IdleFits == Fits(Idle)
  BY NoStateType DEF Fits, Idle, Command, Points

LEMMA GoFits ==
  ASSUME TypeInv, NEW l \in Launcher, NEW c, Fits(c), Go(l, c)
  PROVE  /\ launcher' \in [Launcher -> Command]
         /\ RecordKept' /\ AllSpawned' /\ GraceGiven'
  BY DEF TypeInv, ServiceTypeOK, RecordKept, AllSpawned, GraceGiven, Terminating, Fits, Go, At

LEMMA StayFits ==
  ASSUME TypeInv, UNCHANGED launcher
  PROVE  /\ launcher' \in [Launcher -> Command]
         /\ RecordKept' /\ AllSpawned' /\ GraceGiven'
  BY DEF TypeInv, ServiceTypeOK, RecordKept, AllSpawned, GraceGiven, Terminating, At

\* The other variables, of a step that changes none of the file and the processes.
LEMMA SameWorld ==
  ASSUME TypeInv, UNCHANGED <<processVars, state>>
  PROVE  /\ (proc \in [Pid -> Process \cup {Gone}])'
         /\ (client \in [Pid -> 0 .. MaxBirth])'
         /\ (port \in [Service -> Pid \cup {NoPid}])'
         /\ (births \in 0 .. MaxBirth)'
         /\ (state \in [Service -> Mark])'
         /\ (state = NoState \/ \A s \in Service : state[s] # NoMark)'
  BY DEF TypeInv, ServiceTypeOK, processVars

LEMMA SameHistory ==
  ASSUME TypeInv, UNCHANGED historyVars
  PROVE  /\ (strays \subseteq Birth)' /\ (served \subseteq Birth)'
         /\ (signalled \subseteq Service \cup {"foreign", "killed"})'
  BY DEF TypeInv, ServiceTypeOK, historyVars

LEMMA InitType == ServiceInit => TypeInv
<1> SUFFICES ASSUME ServiceInit PROVE TypeInv
  OBVIOUS
<1>1. launcher \in [Launcher -> Command] /\ \A l \in Launcher : launcher[l] = Idle
  BY IdleFits DEF ServiceInit, Fits
<1>2. RecordKept /\ AllSpawned /\ GraceGiven
  BY <1>1 DEF RecordKept, AllSpawned, GraceGiven, At, Idle
<1>3. ServiceTypeOK
  BY <1>1, NoStateType DEF ServiceInit, ServiceTypeOK, Gone, Birth
<1> QED
  BY <1>2, <1>3 DEF TypeInv

\* Each step of a command leaves it fit, and each kind of step leaves its other parts typed.
LEMMA LauncherType == ASSUME TypeInv, NEW l \in Launcher, LauncherStep(l) PROVE TypeInv'
<1> DEFINE c == launcher[l]
           Typed == /\ (proc \in [Pid -> Process \cup {Gone}])'
                    /\ (client \in [Pid -> 0 .. MaxBirth])'
                    /\ (port \in [Service -> Pid \cup {NoPid}])'
                    /\ (births \in 0 .. MaxBirth)'
           Filed == /\ (state \in [Service -> Mark])'
                    /\ (state = NoState \/ \A s \in Service : state[s] # NoMark)'
           Recorded == /\ (strays \subseteq Birth)' /\ (served \subseteq Birth)'
                       /\ (signalled \subseteq Service \cup {"foreign", "killed"})'
           Fit == /\ launcher' \in [Launcher -> Command]
                  /\ RecordKept' /\ AllSpawned' /\ GraceGiven'
<1>1. c \in Command /\ Fits(c)
  BY DEF TypeInv, ServiceTypeOK, RecordKept, AllSpawned, GraceGiven, Terminating, At, Fits
<1>2. /\ UNCHANGED <<processVars, state>> => Typed /\ Filed
      /\ UNCHANGED historyVars => Recorded
  BY SameWorld, SameHistory
<1>3. ASSUME Typed, Filed, Recorded, Fit PROVE TypeInv'
  BY <1>3 DEF TypeInv, ServiceTypeOK
<1>4. Done(l) => Fit
  BY IdleFits, GoFits DEF Done
<1>5. CASE StartBegins(l)
  <2>1. /\ Fits([Idle EXCEPT !.at = "occupied", !.start = Service])
        /\ Fits([Idle EXCEPT !.at = "look"])
    BY IdleFits DEF Fits, Idle, Command, Points
  <2>2. Fit
    BY <1>5, <2>1, GoFits DEF StartBegins
  <2> QED
    BY <1>2, <1>3, <1>5, <2>2 DEF StartBegins
<1>6. CASE Look(l)
  <2>1. Fits([c EXCEPT !.at = "probe", !.own = {s \in Service : Owned(state[s])}])
    BY <1>1, <1>6 DEF Fits, Command, Points, Look, At
  <2>2. Fit
    BY <1>4, <1>6, <2>1, GoFits DEF Look
  <2> QED
    BY <1>2, <1>3, <1>6, <2>2 DEF Look
<1>7. CASE Probe(l)
  <2> DEFINE replace(ok) == [c EXCEPT !.at = "replace", !.read = state,
                                      !.start = Service \ (c.own \cap ok)]
  <2>1. ASSUME state # NoState, NEW ok, NEW kill \in SUBSET Service,
               NEW then \in {"refuse", "unlink", "occupied"}
        PROVE  Fits([replace(ok) EXCEPT !.kill = kill, !.then = then])
    BY <1>1, <1>7, <2>1 DEF Fits, Command, Points, TypeInv, ServiceTypeOK, Probe, At
  <2>2. c.own \subseteq Service
    BY <1>1 DEF Command
  <2>3. PICK ok \in Answers :
          \/ Done(l)
          \/ /\ state # NoState
             /\ Go(l, IF ok \ c.own = {"tunnel"}
                        THEN [replace(ok) EXCEPT !.kill = c.own \cap {"bridge"}, !.then = "refuse"]
                        ELSE [replace(ok) EXCEPT !.kill = c.own \ (c.own \cap ok),
                                !.then = IF c.own \cap ok = {} THEN "unlink" ELSE "occupied"])
    BY <1>7 DEF Probe
  <2>4. Fit
    <3>1. CASE Done(l)
      BY <1>4, <3>1
    <3>2. CASE ~Done(l) /\ ok \ c.own = {"tunnel"}
      <4>1. Fits([replace(ok) EXCEPT !.kill = c.own \cap {"bridge"}, !.then = "refuse"])
        BY <2>1, <2>2, <2>3, <3>2
      <4> QED
        BY <2>3, <3>2, <4>1, GoFits
    <3>3. CASE ~Done(l) /\ ok \ c.own # {"tunnel"}
      <4>1. Fits([replace(ok) EXCEPT !.kill = c.own \ (c.own \cap ok),
                    !.then = IF c.own \cap ok = {} THEN "unlink" ELSE "occupied"])
        BY <2>1, <2>2, <2>3, <3>3
      <4> QED
        BY <2>3, <3>3, <4>1, GoFits
    <3> QED
      BY <3>1, <3>2, <3>3
  <2> QED
    BY <1>2, <1>3, <1>7, <2>4 DEF Probe
<1>8. CASE Occupied(l)
  <2>1. Fits([c EXCEPT !.at = "spawn"])
    BY <1>1, <1>8 DEF Fits, Command, Points, Occupied, At
  <2>2. Fit
    BY <1>4, <1>8, <2>1, GoFits DEF Occupied
  <2> QED
    BY <1>2, <1>3, <1>8, <2>2 DEF Occupied
<1>9. CASE Spawn(l)
  <2>1. PICK p \in Pid :
          /\ Born(p, NextService(l))
          /\ Go(l, [c EXCEPT !.at = "wait",
                      !.child = [@ EXCEPT ![NextService(l)] = [pid |-> p, born |-> births + 1]]])
    BY <1>9 DEF Spawn
  <2>2. births \in Nat /\ births + 1 \in Birth
    BY <2>1 DEF Born, Birth, TypeInv, ServiceTypeOK
  <2>3. [pid |-> p, born |-> births + 1] \in Mark
    BY <2>2 DEF Mark
  <2>4. Fits([c EXCEPT !.at = "wait",
                !.child = [@ EXCEPT ![NextService(l)] = [pid |-> p, born |-> births + 1]]])
    BY <1>1, <1>9, <2>3 DEF Fits, Command, Points, Spawn, At
  <2>5. Fit
    BY <2>1, <2>4, GoFits
  <2>6. NextService(l) \in Service
    BY DEF NextService, Service
  <2>7. Typed
    BY <1>9, <2>1, <2>2, <2>6 DEF Spawn, Born, TypeInv, ServiceTypeOK, Process, Birth
  <2>8. Filed /\ Recorded
    BY <1>9, SameHistory DEF Spawn, TypeInv, ServiceTypeOK
  <2> QED
    BY <1>3, <2>5, <2>7, <2>8
<1>10. CASE Healthy(l)
  <2>1. Fits([c EXCEPT !.at = IF Pending(l) = {} THEN "write" ELSE "spawn"])
    BY <1>1, <1>10 DEF Fits, Command, Points, Healthy, At, Pending
  <2>2. Fit
    BY <1>10, <2>1, GoFits DEF Healthy
  <2> QED
    BY <1>2, <1>3, <1>10, <2>2 DEF Healthy
<1>11. CASE StartFails(l)
  <2>1. Fits([c EXCEPT !.at = "abort", !.then = "refuse",
                !.kill = {s \in Service : launcher[l].child[s] # NoMark}])
    BY <1>1, <1>11 DEF Fits, Command, Points, StartFails
  <2>2. Fit
    BY <1>11, <2>1, GoFits DEF StartFails
  <2> QED
    BY <1>2, <1>3, <1>11, <2>2 DEF StartFails
<1>12. CASE WriteState(l)
  <2>1. \A s \in Service : (IF s \in c.start THEN c.child[s] ELSE c.read[s]) \in Mark \ {NoMark}
    BY <1>1, <1>12 DEF Fits, Command, WriteState, At
  <2>2. Filed
    BY <1>12, <2>1 DEF WriteState
  <2>3. Typed
    BY <1>12 DEF WriteState, processVars, TypeInv, ServiceTypeOK
  <2> QED
    BY <1>2, <1>3, <1>4, <1>12, <2>2, <2>3 DEF WriteState
<1>13. CASE StopBegins(l)
  <2>1. Fits([Idle EXCEPT !.at = "stop", !.read = state, !.kill = Service, !.then = "unlink"])
    BY IdleFits DEF Fits, Idle, Command, Points, TypeInv, ServiceTypeOK
  <2>2. Fit
    BY <1>13, <2>1, GoFits DEF StopBegins
  <2> QED
    BY <1>2, <1>3, <1>13, <2>2 DEF StopBegins
<1>14. Fits([c EXCEPT !.kill = @ \ {Victim(l)}, !.grace = FALSE])
  BY <1>1 DEF Fits, Command
<1>15. VictimIsDealtWith(l) => Fit
  BY <1>14, GoFits DEF VictimIsDealtWith
<1>16. ASSUME VictimOwned(l), c.kill # {}, Terminating(l)
       PROVE  /\ VictimMark(l).pid \in Pid /\ VictimMark(l).born \in Birth
              /\ (proc[VictimMark(l).pid].kind \in Service \cup {"foreign", "killed"})
  <2>1. Victim(l) \in Service
    BY <1>1, <1>16 DEF Victim, Command, Service
  <2>2. VictimMark(l) \in Mark
    BY <1>1, <2>1 DEF VictimMark, Command
  <2>3. VictimMark(l).pid \in Pid /\ VictimMark(l).born \in Birth
    BY <1>16, <2>2 DEF VictimOwned, Owned, Mark, NoMark
  <2> QED
    BY <1>16, <2>3 DEF VictimOwned, Owned, TypeInv, ServiceTypeOK, Process, Gone, Birth
<1>17. CASE Terminate(l)
  <2> DEFINE p == VictimMark(l).pid
  <2>1. p \in Pid /\ (proc[p].kind \in Service \cup {"foreign", "killed"})
    BY <1>16, <1>17 DEF Terminate
  <2>2. Fits([c EXCEPT !.grace = TRUE])
    BY <1>1, <1>17 DEF Fits, Command, Terminate, Terminating
  <2>3. Fit
    BY <1>17, <2>2, GoFits DEF Terminate
  <2>4. Typed /\ Recorded
    BY <1>17, <2>1 DEF Terminate, Released, TypeInv, ServiceTypeOK
  <2>5. Filed
    BY <1>17 DEF Terminate, TypeInv, ServiceTypeOK
  <2> QED
    BY <1>3, <2>3, <2>4, <2>5
<1>18. CASE VictimIsGone(l)
  BY <1>2, <1>3, <1>15, <1>18 DEF VictimIsGone
<1>19. CASE Kill(l)
  <2>1. c.kill # {}
    BY <1>1, <1>19 DEF Kill, Fits
  <2> DEFINE p == VictimMark(l).pid
  <2>2. p \in Pid /\ (proc[p].kind \in Service \cup {"foreign", "killed"})
    BY <1>16, <1>19, <2>1 DEF Kill
  <2>3. proc[p] \in Process
    BY <2>2 DEF TypeInv, ServiceTypeOK, Gone, Service
  <2>4. Typed /\ Recorded
    BY <1>19, <2>2, <2>3 DEF Kill, TypeInv, ServiceTypeOK, Process
  <2>5. Filed
    BY <1>19 DEF Kill, TypeInv, ServiceTypeOK
  <2> QED
    BY <1>3, <1>15, <1>19, <2>4, <2>5 DEF Kill
<1>20. CASE Terminated(l)
  <2>1. Fits([c EXCEPT !.at = "occupied"]) \/ ~At(l, "replace")
    BY <1>1, <1>20 DEF Fits, Command, Points, At, Terminated
  <2>2. Fit
    BY <1>4, <1>20, <2>1, GoFits DEF Terminated
  <2>3. Filed
    BY <1>20, NoStateType DEF Terminated, TypeInv, ServiceTypeOK
  <2>4. Typed
    BY <1>20 DEF Terminated, processVars, TypeInv, ServiceTypeOK
  <2> QED
    BY <1>2, <1>3, <1>20, <2>2, <2>3, <2>4 DEF Terminated
<1>21. CASE Interrupt(l)
  <2>1. Recorded
    BY <1>1, <1>21 DEF Interrupt, Command, Mark, NoMark, Owned, TypeInv, ServiceTypeOK
  <2> QED
    BY <1>2, <1>3, <1>4, <1>21, <2>1 DEF Interrupt
<1>22. CASE GivesUp(l)
  <2>1. VictimMark(l).born \in Birth
    BY <1>16, <1>22 DEF GivesUp, Terminating, At
  <2>2. Recorded
    BY <1>22, <2>1 DEF GivesUp, TypeInv, ServiceTypeOK
  <2> QED
    BY <1>2, <1>3, <1>15, <1>22, <2>2 DEF GivesUp
<1> QED
  BY <1>5, <1>6, <1>7, <1>8, <1>9, <1>10, <1>11, <1>12, <1>13, <1>17, <1>18, <1>19, <1>20, <1>21,
     <1>22
  DEF LauncherStep

\* The life of processes does not touch commands.
LEMMA ProcessType == ASSUME TypeInv, NEW p \in Pid, ProcessStep(p) PROVE TypeInv'
<1> DEFINE Typed == /\ (proc \in [Pid -> Process \cup {Gone}])'
                    /\ (client \in [Pid -> 0 .. MaxBirth])'
                    /\ (port \in [Service -> Pid \cup {NoPid}])'
                    /\ (births \in 0 .. MaxBirth)'
                    /\ (strays \subseteq Birth)' /\ (served \subseteq Birth)'
<1>1. UNCHANGED <<state, launcher, signalled>>
  BY DEF ProcessStep, Listen, Exit, SupervisorDies, ForeignBorn, ForeignListens, historyVars
<1>2. ASSUME Typed PROVE TypeInv'
  BY <1>1, <1>2, StayFits DEF TypeInv, ServiceTypeOK
<1>3. proc[p] \in Process \cup {Gone} /\ births \in Nat
  BY DEF TypeInv, ServiceTypeOK
<1>4. CASE Listen(p)
  <2>1. proc[p].kind \in Service /\ proc[p].born \in Birth
    BY <1>3, <1>4 DEF Listen, Process, Gone, Service
  <2>2. proc[p].born \in 0 .. MaxBirth
    BY <2>1 DEF Birth
  <2>3. CASE port[proc[p].kind] = NoPid
    <3>1. Typed
      BY <1>4, <2>1, <2>2, <2>3 DEF Listen, TypeInv, ServiceTypeOK
    <3> QED
      BY <1>2, <3>1
  <2>4. CASE port[proc[p].kind] # NoPid
    <3>1. Typed
      BY <1>4, <2>4 DEF Listen, GroupEnds, Released, TypeInv, ServiceTypeOK
    <3> QED
      BY <1>2, <3>1
  <2> QED
    BY <2>3, <2>4
<1>5. CASE Exit(p)
  BY <1>2, <1>5 DEF Exit, GroupEnds, Released, historyVars, TypeInv, ServiceTypeOK
<1>6. CASE SupervisorDies(p)
  <2>1. client[p] \in Birth
    BY <1>6 DEF SupervisorDies, Birth, TypeInv, ServiceTypeOK
  <2>2. Typed
    BY <1>6, <2>1 DEF SupervisorDies, TypeInv, ServiceTypeOK
  <2> QED
    BY <1>2, <2>2
<1>7. CASE ForeignBorn(p)
  <2>1. births + 1 \in Birth /\ births' = births + 1
    BY <1>3, <1>7 DEF ForeignBorn, Born, Birth
  <2> QED
    BY <1>2, <1>7, <2>1 DEF ForeignBorn, Born, Process, Birth, historyVars, TypeInv, ServiceTypeOK
<1>8. ASSUME NEW s \in Service, ForeignListens(p, s) PROVE TypeInv'
  <2>1. proc[p].born \in Birth
    BY <1>3, <1>8 DEF ForeignListens, Process, Gone
  <2> QED
    BY <1>2, <1>8, <2>1 DEF ForeignListens, TypeInv, ServiceTypeOK
<1> QED
  BY <1>4, <1>5, <1>6, <1>7, <1>8 DEF ProcessStep

LEMMA TypeStep == TypeInv /\ [ServiceNext]_serviceVars => TypeInv'
<1> SUFFICES ASSUME TypeInv, [ServiceNext]_serviceVars PROVE TypeInv'
  OBVIOUS
<1>1. CASE UNCHANGED serviceVars
  BY <1>1, StayFits, SameWorld, SameHistory DEF serviceVars, TypeInv, ServiceTypeOK
<1> QED
  BY <1>1, LauncherType, ProcessType DEF ServiceNext

\* Every reachable state is typed: the state file names both services or none, and it names
\* recorded processes (WriteState; a start that keeps one service has read it from the file).
THEOREM ServiceTypeCorrect == ServiceSpec => []ServiceTypeOK
<1>1. TypeInv => ServiceTypeOK
  BY DEF TypeInv
<1> QED
  BY <1>1, InitType, TypeStep, PTL DEF ServiceSpec
-----------------------------------------------------------------------------
\* A mark carries the number of a service: whoever has its id and its number is one.
OfService(m) ==
  m.pid \in Pid => /\ m.born \in 1 .. births
                   /\ proc[m.pid].born = m.born => proc[m.pid].kind # "foreign"

MarksOfServices ==
  /\ \A s \in Service : OfService(state[s])
  /\ \A l \in Launcher, s \in Service : /\ OfService(launcher[l].read[s])
                                        /\ OfService(launcher[l].child[s])

\* In a step nothing but a new process, with a new number, gets an id, and some are killed.
KilledIn(p) == proc'[p].kind = "killed" /\ proc'[p].born = proc[p].born
Aged == /\ births' \in Nat /\ births <= births'
        /\ \A p \in Pid : \/ proc'[p] = proc[p] \/ proc'[p] = Gone \/ KilledIn(p)
                          \/ proc'[p].born = births'  /\ births' = births + 1

LEMMA NobodyIsOfService == OfService(NoMark)
  BY DEF OfService, NoMark

LEMMA MarksAge ==
  ASSUME TypeInv, Aged, NEW m, OfService(m)
  PROVE  OfService(m)'
<1> SUFFICES ASSUME m.pid \in Pid
             PROVE  /\ m.born \in 1 .. births'
                    /\ proc'[m.pid].born = m.born => proc'[m.pid].kind # "foreign"
  BY DEF OfService
<1>1. m.born \in 1 .. births /\ births \in Nat
  BY DEF OfService, TypeInv, ServiceTypeOK
<1>2. m.born \in 1 .. births'
  BY <1>1 DEF Aged
<1>3. Gone.born # m.born
  BY <1>1 DEF Gone
<1> QED
  BY <1>1, <1>2, <1>3 DEF Aged, KilledIn, OfService

LEMMA StepAges == ASSUME TypeInv, [ServiceNext]_serviceVars PROVE Aged
<1>1. births \in Nat /\ proc \in [Pid -> Process \cup {Gone}]
  BY DEF TypeInv, ServiceTypeOK
<1>2. ASSUME NEW l \in Launcher, LauncherStep(l) PROVE Aged
  <2>1. CASE Spawn(l)
    BY <1>1, <2>1 DEF Spawn, Born, Aged
  <2>2. CASE Kill(l)
    <3>1. \A p \in Pid : proc'[p] = proc[p] \/ KilledIn(p)
      BY <1>1, <2>2 DEF Kill, KilledIn, Process, Gone
    <3> QED
      BY <1>1, <2>2, <3>1 DEF Kill, Aged
  <2>3. CASE UNCHANGED <<proc, births>>
    BY <1>1, <2>3 DEF Aged
  <2>4. StartBegins(l) \/ Look(l) \/ Probe(l) \/ Occupied(l) => UNCHANGED <<proc, births>>
    BY DEF StartBegins, Look, Probe, Occupied, processVars
  <2>5. Healthy(l) \/ StartFails(l) \/ WriteState(l) \/ StopBegins(l) => UNCHANGED <<proc, births>>
    BY DEF Healthy, StartFails, WriteState, StopBegins, processVars
  <2>6. \/ Terminate(l) \/ VictimIsGone(l) \/ GivesUp(l) \/ Terminated(l) \/ Interrupt(l)
        => UNCHANGED <<proc, births>>
    BY DEF Terminate, VictimIsGone, GivesUp, Terminated, Interrupt, processVars
  <2> QED
    BY <1>2, <2>1, <2>2, <2>3, <2>4, <2>5, <2>6 DEF LauncherStep
<1>3. ASSUME NEW p \in Pid, ProcessStep(p) PROVE Aged
  <2>1. CASE Listen(p)
    BY <1>1, <2>1 DEF Listen, GroupEnds, Aged
  <2>2. CASE Exit(p)
    BY <1>1, <2>2 DEF Exit, GroupEnds, Aged
  <2>3. CASE SupervisorDies(p)
    BY <1>1, <2>3 DEF SupervisorDies, Aged
  <2>4. CASE ForeignBorn(p)
    BY <1>1, <2>4 DEF ForeignBorn, Born, Aged
  <2>5. ASSUME NEW s \in Service, ForeignListens(p, s) PROVE Aged
    BY <1>1, <2>5 DEF ForeignListens, Aged
  <2> QED
    BY <1>3, <2>1, <2>2, <2>3, <2>4, <2>5 DEF ProcessStep
<1>4. CASE UNCHANGED serviceVars
  BY <1>1, <1>4 DEF serviceVars, processVars, Aged
<1> QED
  BY <1>2, <1>3, <1>4 DEF ServiceNext

\* The marks after a step: those of before, and that of a service just spawned.
Kept(m) == \/ m = NoMark
           \/ \E s \in Service : m = state[s]
           \/ \E l \in Launcher, s \in Service : m \in {launcher[l].read[s], launcher[l].child[s]}

Spawned(m) == m.pid \in Pid => /\ m.born = births' /\ births' \in Nat \ {0}
                               /\ proc'[m.pid].kind \in Service

LEMMA MarksStep ==
  ASSUME TypeInv, MarksOfServices, [ServiceNext]_serviceVars,
         NEW m, Kept(m) \/ Spawned(m)
  PROVE  OfService(m)'
<1>1. CASE Kept(m)
  <2>1. OfService(m)
    BY <1>1, NobodyIsOfService DEF Kept, MarksOfServices
  <2> QED
    BY <2>1, StepAges, MarksAge
<1>2. CASE Spawned(m)
  BY <1>2 DEF Spawned, OfService, Service
<1> QED
  BY <1>1, <1>2

\* Where a command's marks come from.
LEMMA CommandMarks ==
  ASSUME TypeInv, NEW l \in Launcher, LauncherStep(l)
  PROVE  /\ \A s \in Service : Kept(state'[s])
         /\ \A k \in Launcher, s \in Service :
              /\ Kept(launcher'[k].read[s])
              /\ Kept(launcher'[k].child[s]) \/ Spawned(launcher'[k].child[s])
<1> DEFINE Same(c) == \A s \in Service : Kept(c.read[s]) /\ (Kept(c.child[s]) \/ Spawned(c.child[s]))
           Files == \A s \in Service : Kept(state'[s])
<1>1. launcher \in [Launcher -> Command] /\ launcher[l] \in Command
  BY DEF TypeInv, ServiceTypeOK
<1>2. \A k \in Launcher : Same(launcher[k])
  BY DEF Kept
<1>3. Same(Idle)
  BY DEF Kept, Idle, NoState
<1>4. UNCHANGED state \/ state' = NoState => Files
  BY DEF Kept, NoState
<1>5. ASSUME NEW c, Go(l, c), Same(c), Files
      PROVE  /\ Files
             /\ \A k \in Launcher : Same(launcher'[k])
  BY <1>1, <1>2, <1>5 DEF Go
<1>6. ASSUME NEW c, c.read = launcher[l].read, c.child = launcher[l].child PROVE Same(c)
  BY <1>2, <1>6
<1> HIDE DEF Same, Files
<1> SUFFICES Files /\ \A k \in Launcher : Same(launcher'[k])
  BY DEF Same, Files
<1>7. CASE StartBegins(l)
  <2>1. /\ Same([Idle EXCEPT !.at = "occupied", !.start = Service])
        /\ Same([Idle EXCEPT !.at = "look"])
    BY <1>3 DEF Same, Idle
  <2> QED
    BY <1>4, <1>5, <1>7, <2>1 DEF StartBegins
<1>8. CASE Look(l)
  <2>1. Same([launcher[l] EXCEPT !.at = "probe", !.own = {s \in Service : Owned(state[s])}])
    BY <1>1, <1>6 DEF Command
  <2> QED
    BY <1>3, <1>4, <1>5, <1>8, <2>1 DEF Look, Done
<1>9. CASE Probe(l)
  <2>1. ASSUME NEW c, c.read = state, c.child = launcher[l].child PROVE Same(c)
    BY <2>1, <1>2 DEF Kept, Same
  <2> DEFINE replace(ok) == [launcher[l] EXCEPT !.at = "replace", !.read = state,
                               !.start = Service \ (launcher[l].own \cap ok)]
  <2>2. \A ok, kill, then : Same([replace(ok) EXCEPT !.kill = kill, !.then = then])
    BY <1>1, <2>1 DEF Command
  <2>3. PICK ok \in Answers :
          \/ Done(l)
          \/ Go(l, IF ok \ launcher[l].own = {"tunnel"}
                     THEN [replace(ok) EXCEPT !.kill = launcher[l].own \cap {"bridge"},
                                              !.then = "refuse"]
                     ELSE [replace(ok) EXCEPT
                             !.kill = launcher[l].own \ (launcher[l].own \cap ok),
                             !.then = IF launcher[l].own \cap ok = {} THEN "unlink" ELSE "occupied"])
    BY <1>9 DEF Probe
  <2>4. Files
    BY <1>4, <1>9 DEF Probe
  <2>5. CASE Done(l)
    BY <1>3, <1>5, <2>4, <2>5 DEF Done
  <2>6. CASE ~Done(l) /\ ok \ launcher[l].own = {"tunnel"}
    BY <1>5, <2>2, <2>3, <2>4, <2>6
  <2>7. CASE ~Done(l) /\ ok \ launcher[l].own # {"tunnel"}
    BY <1>5, <2>2, <2>3, <2>4, <2>7
  <2> QED
    BY <2>5, <2>6, <2>7
<1>10. CASE Occupied(l)
  <2>1. Same([launcher[l] EXCEPT !.at = "spawn"])
    BY <1>1, <1>6 DEF Command
  <2> QED
    BY <1>3, <1>4, <1>5, <1>10, <2>1 DEF Occupied, Done
<1>11. CASE Spawn(l)
  <2>1. PICK p \in Pid :
          /\ Born(p, NextService(l))
          /\ Go(l, [launcher[l] EXCEPT !.at = "wait",
                      !.child = [@ EXCEPT ![NextService(l)] = [pid |-> p, born |-> births + 1]]])
    BY <1>11 DEF Spawn
  <2>2. NextService(l) \in Service
    BY DEF NextService, Service
  <2>3. Spawned([pid |-> p, born |-> births + 1])
    BY <2>1, <2>2 DEF Born, Spawned, TypeInv, ServiceTypeOK
  <2>4. Same([launcher[l] EXCEPT !.at = "wait",
                !.child = [@ EXCEPT ![NextService(l)] = [pid |-> p, born |-> births + 1]]])
    BY <1>1, <1>2, <2>2, <2>3 DEF Same, Command
  <2> QED
    BY <1>4, <1>5, <1>11, <2>1, <2>4 DEF Spawn
<1>12. CASE Healthy(l)
  <2>1. Same([launcher[l] EXCEPT !.at = IF Pending(l) = {} THEN "write" ELSE "spawn"])
    BY <1>1, <1>6 DEF Command
  <2> QED
    BY <1>4, <1>5, <1>12, <2>1 DEF Healthy
<1>13. CASE StartFails(l)
  <2>1. Same([launcher[l] EXCEPT !.at = "abort", !.then = "refuse",
                !.kill = {s \in Service : launcher[l].child[s] # NoMark}])
    BY <1>1, <1>6 DEF Command
  <2> QED
    BY <1>4, <1>5, <1>13, <2>1 DEF StartFails
<1>14. CASE WriteState(l)
  <2>1. Files
    BY <1>14 DEF WriteState, Kept, Files
  <2> QED
    BY <1>3, <1>5, <1>14, <2>1 DEF WriteState, Done
<1>15. CASE StopBegins(l)
  <2>1. Same([Idle EXCEPT !.at = "stop", !.read = state, !.kill = Service, !.then = "unlink"])
    BY <1>3 DEF Same, Idle, Kept
  <2> QED
    BY <1>4, <1>5, <1>15, <2>1 DEF StopBegins
<1>16. CASE Terminate(l)
  <2>1. Same([launcher[l] EXCEPT !.grace = TRUE])
    BY <1>1, <1>6 DEF Command
  <2> QED
    BY <1>4, <1>5, <1>16, <2>1 DEF Terminate
<1>17. CASE VictimIsGone(l) \/ GivesUp(l) \/ Kill(l)
  <2>1. Same([launcher[l] EXCEPT !.kill = @ \ {Victim(l)}, !.grace = FALSE])
    BY <1>1, <1>6 DEF Command
  <2> QED
    BY <1>4, <1>5, <1>17, <2>1 DEF VictimIsGone, GivesUp, Kill, VictimIsDealtWith
<1>18. CASE Terminated(l)
  <2>1. Same([launcher[l] EXCEPT !.at = "occupied"])
    BY <1>1, <1>6 DEF Command
  <2> QED
    BY <1>3, <1>4, <1>5, <1>18, <2>1 DEF Terminated, Done
<1>19. CASE Interrupt(l)
  BY <1>3, <1>4, <1>5, <1>19 DEF Interrupt, Done
<1> QED
  BY <1>7, <1>8, <1>9, <1>10, <1>11, <1>12, <1>13, <1>14, <1>15, <1>16, <1>17, <1>18, <1>19
  DEF LauncherStep

LEMMA MarksInv == TypeInv /\ MarksOfServices /\ [ServiceNext]_serviceVars => MarksOfServices'
<1> SUFFICES ASSUME TypeInv, MarksOfServices, [ServiceNext]_serviceVars PROVE MarksOfServices'
  OBVIOUS
<1>1. ASSUME UNCHANGED <<state, launcher>> PROVE MarksOfServices'
  <2>1. /\ \A s \in Service : Kept(state[s])
        /\ \A l \in Launcher, s \in Service : Kept(launcher[l].read[s]) /\ Kept(launcher[l].child[s])
    BY DEF Kept
  <2> QED
    BY <1>1, <2>1, MarksStep DEF MarksOfServices
<1>2. ASSUME NEW l \in Launcher, LauncherStep(l) PROVE MarksOfServices'
  BY <1>2, CommandMarks, MarksStep DEF MarksOfServices
<1>3. ASSUME NEW p \in Pid, ProcessStep(p) PROVE UNCHANGED <<state, launcher>>
  BY <1>3 DEF ProcessStep, Listen, Exit, SupervisorDies, ForeignBorn, ForeignListens
<1>4. CASE UNCHANGED serviceVars
  BY <1>1, <1>4 DEF serviceVars
<1> QED
  BY <1>1, <1>2, <1>3, <1>4 DEF ServiceNext

\* Whom a command signals: the process of a mark, and no other.
LEMMA SignalsServices ==
  ASSUME TypeInv, MarksOfServices, NEW l \in Launcher, LauncherStep(l)
  PROVE  signalled' \subseteq signalled \cup Service \cup {"killed"}
<1>1. launcher[l] \in Command
  BY DEF TypeInv, ServiceTypeOK
<1>2. ASSUME VictimOwned(l), launcher[l].kill # {}
      PROVE  proc[VictimMark(l).pid].kind \in Service \cup {"killed"}
  <2>1. Victim(l) \in Service
    BY <1>1, <1>2 DEF Victim, Command, Service
  <2>2. OfService(VictimMark(l))
    BY <2>1 DEF VictimMark, MarksOfServices
  <2> QED
    BY <1>2, <2>2 DEF OfService, VictimOwned, Owned, Process, Gone, TypeInv, ServiceTypeOK
<1>3. CASE Terminate(l)
  BY <1>2, <1>3 DEF Terminate
<1>4. CASE Kill(l)
  BY <1>2, <1>4 DEF Kill, TypeInv, GraceGiven
<1>5. CASE UNCHANGED signalled
  BY <1>5
<1>6. StartBegins(l) \/ Look(l) \/ Probe(l) \/ Occupied(l) \/ Spawn(l) => UNCHANGED signalled
  BY DEF StartBegins, Look, Probe, Occupied, Spawn, historyVars
<1>7. Healthy(l) \/ StartFails(l) \/ WriteState(l) \/ StopBegins(l) => UNCHANGED signalled
  BY DEF Healthy, StartFails, WriteState, StopBegins, historyVars
<1>8. VictimIsGone(l) \/ GivesUp(l) \/ Terminated(l) \/ Interrupt(l) => UNCHANGED signalled
  BY DEF VictimIsGone, GivesUp, Terminated, Interrupt, historyVars
<1> QED
  BY <1>3, <1>4, <1>5, <1>6, <1>7, <1>8 DEF LauncherStep

\* No command signals a process that it did not start, whatever became of the recorded processes
\* and their ids: _terminate_state_process compares the start marker before each signal, and
\* every marker that the state file or a command holds was taken from a process of ours.
THEOREM OnlyServicesSignalled == ServiceSpec => []NoForeignSignal
<1> DEFINE Inv == TypeInv /\ MarksOfServices /\ signalled \subseteq Service \cup {"killed"}
<1>1. ServiceInit => Inv
  <2> SUFFICES ASSUME ServiceInit PROVE MarksOfServices /\ signalled \subseteq Service \cup {"killed"}
    BY InitType
  <2>1. NoState \in [Service -> {NoMark}]
    BY DEF NoState
  <2> QED
    BY <2>1, NobodyIsOfService DEF ServiceInit, MarksOfServices, Idle
<1>2. Inv /\ [ServiceNext]_serviceVars => Inv'
  <2> SUFFICES ASSUME Inv, [ServiceNext]_serviceVars PROVE signalled' \subseteq Service \cup {"killed"}
    BY TypeStep, MarksInv
  <2>1. ASSUME NEW l \in Launcher, LauncherStep(l) PROVE signalled' \subseteq Service \cup {"killed"}
    BY <2>1, SignalsServices
  <2>2. ASSUME NEW p \in Pid, ProcessStep(p) PROVE UNCHANGED signalled
    BY <2>2 DEF ProcessStep, Listen, Exit, SupervisorDies, ForeignBorn, ForeignListens, historyVars
  <2>3. CASE UNCHANGED serviceVars
    BY <2>3 DEF serviceVars, historyVars
  <2> QED
    BY <2>1, <2>2, <2>3 DEF ServiceNext
<1>3. Inv => NoForeignSignal
  BY DEF NoForeignSignal, Service
<1> QED
  BY <1>1, <1>2, <1>3, PTL DEF ServiceSpec
-----------------------------------------------------------------------------
(***************************************************************************)
(* One command at a time: what is running and who knows of it.             *)
(***************************************************************************)
\* A mark's process is at work: it was not killed, and is no stray.
Runs(m) == Owned(m) /\ proc[m.pid].kind # "killed" /\ m.born \notin strays

IsMark(m, p) == m = [pid |-> p, born |-> proc[p].born]

\* What a command has found out about the services, and what it has done, at each point.
Knows(c) ==
  /\ c.at \notin {"spawn", "wait", "abort", "write"} => c.child = NoState
  /\ c.at = "probe" => \A s \in Service \ c.own : ~Runs(state[s])
  /\ c.at = "replace" =>
       /\ c.read = state /\ c.start # {}
       /\ c.then # "refuse" => \A s \in c.start \ c.kill : ~Runs(state[s])
       /\ c.then = "unlink" => c.start = Service
  /\ c.at \in {"occupied", "spawn", "wait", "write"} =>
       /\ c.start # {}
       /\ \A s \in c.start : ~Runs(state[s])
       /\ \A s \in Service \ c.start : c.read[s] = state[s] /\ c.child[s] = NoMark
  /\ c.at = "stop" => /\ c.read = state /\ c.then = "unlink"
                      /\ \A s \in Service \ c.kill : ~Runs(state[s])
  /\ c.at = "abort" => c.then = "refuse" /\ \A s \in Service \ c.kill : ~Runs(c.child[s])
  /\ \A s \in Service : c.child[s] # NoMark => ~Runs(state[s])

\* The service that was spawned last is the one whose endpoint is awaited; the others served.
LatestOf(c) == IF c.child["tunnel"] # NoMark THEN "tunnel" ELSE "bridge"
Awaits(c) ==
  /\ c.at = "spawn" => c.child["tunnel"] = NoMark /\ \E s \in c.start : c.child[s] = NoMark
  /\ c.at = "wait" => /\ \E s \in Service : c.child[s] # NoMark
                      /\ c.child["tunnel"] # NoMark => \A s \in c.start : c.child[s] # NoMark
  /\ c.at \in {"spawn", "wait", "write"} /\ strays = {} =>
       \A s \in Service : \/ c.child[s] = NoMark \/ c.child[s].born \in served
                          \/ c.at = "wait" /\ s = LatestOf(c)

\* A living service is named by the file or is a child of the command, as what it is.
Tracks(c) ==
  /\ \A s \in Service : \A p \in Living(s) : IsMark(state[s], p) \/ IsMark(c.child[s], p)
  /\ c.at # "abort" => \A s \in Service : Owned(c.child[s]) => proc[c.child[s].pid].kind = s

CommandInv(c) == Knows(c) /\ Awaits(c) /\ Tracks(c)

FileInv ==
  \A s \in Service : /\ Runs(state[s]) => proc[state[s].pid].kind = s
                     /\ strays = {} /\ state[s] # NoMark => state[s].born \in served

\* Without strays only a service that serves listens at its endpoint.
Ports ==
  strays = {} => \A s \in Service : port[s] # NoPid => /\ proc[port[s]].kind \in {s, "killed"}
                                                       /\ proc[port[s]].born \in served

LEMMA NobodyOwned == /\ ~Owned(NoMark) /\ ~Runs(NoMark)
                     /\ \A s \in Service : NoState[s] = NoMark
  BY DEF Owned, Runs, NoMark, NoState

LEMMA MarkRuns ==
  ASSUME NEW s \in Service, NEW p \in Living(s), NEW m, IsMark(m, p)
  PROVE  Owned(m) /\ Runs(m) /\ m.pid = p /\ m # NoMark
  BY DEF Living, IsMark, Owned, Runs, NoMark, Service

\* A process that is found by its mark is the one it was, if it was not killed.
LEMMA StaysOwned ==
  ASSUME TypeInv, Aged, NEW m, OfService(m), Owned(m)'
  PROVE  /\ Owned(m) /\ m.pid \in Pid
         /\ proc'[m.pid] = proc[m.pid] \/ proc'[m.pid].kind = "killed"
<1>1. m.pid \in Pid /\ proc'[m.pid].born = m.born /\ m.born \in 1 .. births /\ births \in Nat
  BY DEF Owned, OfService, TypeInv, ServiceTypeOK
<1>2. proc'[m.pid] = proc[m.pid] \/ KilledIn(m.pid)
  BY <1>1 DEF Aged, Gone
<1> QED
  BY <1>1, <1>2 DEF Owned, KilledIn

LEMMA StaysRunning ==
  ASSUME TypeInv, Aged, strays \subseteq strays', NEW m, OfService(m), Runs(m)'
  PROVE  Runs(m) /\ m.pid \in Pid /\ proc'[m.pid] = proc[m.pid]
<1>1. Owned(m)' /\ proc'[m.pid].kind # "killed" /\ m.born \notin strays'
  BY DEF Runs
<1>2. Owned(m) /\ m.pid \in Pid /\ proc'[m.pid] = proc[m.pid]
  BY <1>1, StaysOwned
<1> QED
  BY <1>1, <1>2 DEF Runs

\* No two processes are the same living service.
LEMMA OneOfEach ==
  ASSUME NEW c, Knows(c), Tracks(c), NEW s \in Service, NEW p \in Living(s), NEW q \in Living(s)
  PROVE  p = q
<1>1. p \in Pid /\ q \in Pid
  BY DEF Living
<1>2. \A x \in {p, q} : IsMark(state[s], x) \/ IsMark(c.child[s], x)
  BY DEF Tracks
<1>3. ASSUME NEW x \in {p, q}, NEW y \in {p, q}, IsMark(state[s], x), IsMark(c.child[s], y)
      PROVE  FALSE
  BY <1>1, <1>3, MarkRuns DEF Knows
<1> QED
  BY <1>1, <1>2, <1>3, MarkRuns

\* Processes end, others begin, some listen: what a command knows stays true.
LEMMA LivesEnd ==
  ASSUME TypeInv, Aged, UNCHANGED state, strays \subseteq strays', served \subseteq served',
         \A p \in Pid : proc'[p].kind \in Service => proc'[p] = proc[p],
         NEW c \in Command, CommandInv(c),
         \A s \in Service : OfService(c.child[s]) /\ OfService(state[s]),
         \/ c.at = "abort" \/ c.child = NoState
         \/ \A p \in Pid : proc'[p].kind = "killed" => proc'[p] = proc[p]
  PROVE  CommandInv(c)'
<1>1. \A s \in Service : /\ Runs(state[s])' => Runs(state[s])
                         /\ Runs(c.child[s])' => Runs(c.child[s])
  BY StaysRunning
<1>2. Knows(c)'
  BY <1>1 DEF CommandInv, Knows, Command
<1>3. Awaits(c)'
  BY DEF CommandInv, Awaits, LatestOf
<1>4. ASSUME NEW s \in Service, NEW p \in Living(s)'
      PROVE  IsMark(state[s], p)' \/ IsMark(c.child[s], p)'
  <2>1. p \in Living(s) /\ proc'[p] = proc[p]
    BY DEF Living
  <2> QED
    BY <2>1 DEF CommandInv, Tracks, IsMark
<1>5. ASSUME c.at # "abort", NEW s \in Service, Owned(c.child[s])'
      PROVE  proc'[c.child[s].pid].kind = s
  <2>1. c.child # NoState
    BY <1>5, NobodyOwned DEF Owned, NoMark
  <2>2. /\ Owned(c.child[s]) /\ c.child[s].pid \in Pid
        /\ \/ proc'[c.child[s].pid] = proc[c.child[s].pid]
           \/ proc'[c.child[s].pid].kind = "killed"
    BY <1>5, StaysOwned
  <2>3. proc'[c.child[s].pid] = proc[c.child[s].pid]
    BY <1>5, <2>1, <2>2
  <2> QED
    BY <1>5, <2>2, <2>3 DEF CommandInv, Tracks
<1> QED
  BY <1>2, <1>3, <1>4, <1>5 DEF CommandInv, Tracks

LEMMA FileStays ==
  ASSUME TypeInv, Aged, UNCHANGED state, strays \subseteq strays', served \subseteq served',
         FileInv, MarksOfServices
  PROVE  FileInv'
<1> SUFFICES ASSUME NEW s \in Service
             PROVE  /\ Runs(state[s])' => proc'[state[s].pid].kind = s
                    /\ strays' = {} /\ state[s] # NoMark => state[s].born \in served'
  BY DEF FileInv
<1>1. ASSUME Runs(state[s])' PROVE proc'[state[s].pid].kind = s
  <2>1. Runs(state[s]) /\ proc'[state[s].pid] = proc[state[s].pid]
    BY <1>1, StaysRunning DEF MarksOfServices
  <2> QED
    BY <2>1 DEF FileInv
<1> QED
  BY <1>1 DEF FileInv

\* A command that goes on and changes none of the file, the processes and their history.
LEMMA GoesOn ==
  ASSUME TypeInv, NEW l \in Launcher, NEW c, Go(l, c), CommandInv(c),
         UNCHANGED <<proc, state, strays, served>>
  PROVE  CommandInv(launcher[l])'
<1>1. launcher'[l] = c
  BY DEF Go, TypeInv, ServiceTypeOK
<1>2. Knows(c)'
  BY DEF CommandInv, Knows, Owned, Runs
<1>3. Awaits(c)'
  BY DEF CommandInv, Awaits, LatestOf
<1>4. Tracks(c)'
  BY DEF CommandInv, Tracks, Living, IsMark, Owned
<1>5. CommandInv(c)'
  BY <1>2, <1>3, <1>4 DEF CommandInv
<1> QED
  BY <1>1, <1>5

\* A command ends, or begins, whose children are not alive.
LEMMA EndsAlone ==
  ASSUME NEW c, Tracks(c), \A s \in Service : c.child[s] = NoMark \/ ~Runs(c.child[s]),
         NEW d, d.child = NoState
  PROVE  Tracks(d)
<1>1. ASSUME NEW s \in Service, NEW p \in Living(s) PROVE IsMark(state[s], p)
  <2>2. ~IsMark(c.child[s], p)
    BY MarkRuns
  <2> QED
    BY <2>2 DEF Tracks
<1> QED
  BY <1>1, NobodyOwned DEF Tracks

LEMMA IdleInv == ASSUME Tracks(Idle) PROVE CommandInv(Idle)
  BY NobodyOwned DEF CommandInv, Knows, Awaits, Idle

\* The first half of a start: it looks and decides what to replace.
LEMMA DecidingSteps ==
  ASSUME TypeInv, NEW l \in Launcher, CommandInv(launcher[l]),
         StartBegins(l) \/ StopBegins(l) \/ Look(l) \/ Probe(l) \/ Occupied(l)
  PROVE  CommandInv(launcher[l])'
<1> DEFINE c == launcher[l]
<1>1. c \in Command /\ c.child = NoState /\ Knows(c) /\ Tracks(c)
  BY DEF TypeInv, ServiceTypeOK, CommandInv, Knows, StartBegins, StopBegins, Look, Probe, Occupied, At
<1>2. UNCHANGED <<proc, state, strays, served>>
  BY DEF StartBegins, StopBegins, Look, Probe, Occupied, processVars, historyVars
<1>3. ASSUME NEW d, d.child = NoState PROVE Tracks(d)
  BY <1>1, <1>3, NobodyOwned, EndsAlone
<1>4. Idle.child = NoState
  BY DEF Idle
<1>5. Done(l) => CommandInv(launcher[l])'
  BY <1>2, <1>3, <1>4, IdleInv, GoesOn DEF Done
<1>6. CASE StartBegins(l)
  <2>1. CASE state = NoState
    <3> DEFINE d == [Idle EXCEPT !.at = "occupied", !.start = Service]
    <3>1. d.at = "occupied" /\ d.start = Service /\ d.child = NoState
      BY DEF Idle
    <3>2. Go(l, d)
      BY <1>6, <2>1 DEF StartBegins
    <3> HIDE DEF d
    <3>3. CommandInv(d)
      BY <1>3, <2>1, <3>1, NobodyOwned DEF CommandInv, Knows, Awaits, Service
    <3> QED
      BY <1>2, <3>2, <3>3, GoesOn
  <2>2. CASE state # NoState
    <3> DEFINE d == [Idle EXCEPT !.at = "look"]
    <3>1. d.at = "look" /\ d.child = NoState
      BY DEF Idle
    <3>2. Go(l, d)
      BY <1>6, <2>2 DEF StartBegins
    <3> HIDE DEF d
    <3>3. CommandInv(d)
      BY <1>3, <3>1, NobodyOwned DEF CommandInv, Knows, Awaits
    <3> QED
      BY <1>2, <3>2, <3>3, GoesOn
  <2> QED
    BY <2>1, <2>2
<1>7. CASE StopBegins(l)
  <2> DEFINE d == [Idle EXCEPT !.at = "stop", !.read = state, !.kill = Service, !.then = "unlink"]
  <2>1. /\ d.at = "stop" /\ d.read = state /\ d.kill = Service /\ d.then = "unlink"
        /\ d.child = NoState
    BY DEF Idle
  <2>2. Go(l, d)
    BY <1>7 DEF StopBegins
  <2> HIDE DEF d
  <2>3. CommandInv(d)
    BY <1>3, <2>1, NobodyOwned DEF CommandInv, Knows, Awaits
  <2> QED
    BY <1>2, <2>2, <2>3, GoesOn
<1>8. CASE Look(l)
  <2> DEFINE d == [c EXCEPT !.at = "probe", !.own = {s \in Service : Owned(state[s])}]
  <2>1. d.at = "probe" /\ d.own = {s \in Service : Owned(state[s])} /\ d.child = NoState
    BY <1>1 DEF Command
  <2>2. Done(l) \/ Go(l, d)
    BY <1>8 DEF Look
  <2> HIDE DEF d
  <2>3. CommandInv(d)
    BY <1>3, <2>1, NobodyOwned DEF CommandInv, Knows, Awaits, Runs
  <2> QED
    BY <1>2, <1>5, <2>2, <2>3, GoesOn
<1>9. CASE Probe(l)
  <2> DEFINE replace(ok, kill, then) ==
               [c EXCEPT !.at = "replace", !.read = state, !.start = Service \ (c.own \cap ok),
                         !.kill = kill, !.then = then]
  <2>1. PICK ok \in Answers :
          \/ Done(l)
          \/ /\ c.own \cap ok # Service
             /\ Go(l, IF ok \ c.own = {"tunnel"}
                        THEN replace(ok, c.own \cap {"bridge"}, "refuse")
                        ELSE replace(ok, c.own \ (c.own \cap ok),
                               IF c.own \cap ok = {} THEN "unlink" ELSE "occupied"))
    BY <1>1, <1>9 DEF Probe, Command
  <2>2. CASE Done(l)
    BY <1>5, <2>2
  <2>3. ASSUME NEW kill, NEW then, c.own \cap ok # Service, Go(l, replace(ok, kill, then)),
               then = "refuse" \/ kill = c.own \ (c.own \cap ok),
               then = "unlink" => c.own \cap ok = {}
        PROVE  CommandInv(launcher[l])'
    <3> DEFINE d == replace(ok, kill, then)
    <3>1. /\ d.at = "replace" /\ d.read = state /\ d.start = Service \ (c.own \cap ok)
          /\ d.kill = kill /\ d.then = then /\ d.child = NoState
      BY <1>1 DEF Command
    <3>2. c.own \subseteq Service /\ \A s \in Service \ c.own : ~Runs(state[s])
      BY <1>1, <1>9 DEF Command, Knows, Probe, At
    <3>3. Go(l, d)
      BY <2>3
    <3> HIDE DEF d, c
    <3>4. Knows(d)
      <4>1. d.start # {} /\ (d.then = "unlink" => d.start = Service)
        BY <2>3, <3>1, <3>2
      <4>2. d.then # "refuse" => \A s \in d.start \ d.kill : ~Runs(state[s])
        BY <2>3, <3>1, <3>2
      <4> QED
        BY <3>1, <4>1, <4>2, NobodyOwned DEF Knows
    <3>5. CommandInv(d)
      BY <1>3, <3>1, <3>4 DEF CommandInv, Awaits
    <3> QED
      BY <1>2, <3>3, <3>5, GoesOn
  <2> HIDE DEF replace
  <2>4. CASE ~Done(l) /\ ok \ c.own = {"tunnel"}
    BY <2>1, <2>3, <2>4
  <2>5. CASE ~Done(l) /\ ok \ c.own # {"tunnel"}
    BY <2>1, <2>3, <2>5
  <2> QED
    BY <2>2, <2>4, <2>5
<1>10. CASE Occupied(l)
  <2> DEFINE d == [c EXCEPT !.at = "spawn"]
  <2>1. d.at = "spawn" /\ d.start = c.start /\ d.read = c.read /\ d.child = NoState
    BY <1>1 DEF Command
  <2>2. Done(l) \/ Go(l, d)
    BY <1>10 DEF Occupied
  <2>3. /\ c.at = "occupied" /\ c.start # {} /\ c.start \subseteq Service
        /\ \A s \in c.start : ~Runs(state[s])
        /\ \A s \in Service \ c.start : c.read[s] = state[s]
    BY <1>1, <1>10 DEF Occupied, At, Knows, Command
  <2> HIDE DEF d, c
  <2>4. Knows(d)
    BY <2>1, <2>3, NobodyOwned DEF Knows
  <2>5. Awaits(d)
    BY <2>1, <2>3, NobodyOwned DEF Awaits, Service
  <2>6. CommandInv(d)
    BY <1>3, <2>1, <2>4, <2>5 DEF CommandInv
  <2> QED
    BY <1>2, <1>5, <2>2, <2>6, GoesOn
<1> QED
  BY <1>6, <1>7, <1>8, <1>9, <1>10

\* A start spawns what it has yet to spawn, in its order.
LEMMA SpawnStep ==
  ASSUME TypeInv, MarksOfServices, NEW l \in Launcher, CommandInv(launcher[l]), Spawn(l)
  PROVE  CommandInv(launcher[l])'
<1>1. PICK c : c = launcher[l]
  OBVIOUS
<1>2. PICK n : n = NextService(l)
  OBVIOUS
<1>3. /\ c \in Command /\ c.at = "spawn" /\ Knows(c) /\ Awaits(c) /\ Tracks(c)
      /\ UNCHANGED <<state, strays, served>>
      /\ \A s \in Service : OfService(state[s]) /\ OfService(c.child[s])
  BY <1>1 DEF TypeInv, ServiceTypeOK, MarksOfServices, CommandInv, Spawn, At, historyVars
<1>4. Aged
  BY StepAges DEF ServiceNext, LauncherStep
<1>5. PICK p \in Pid :
        /\ Born(p, n)
        /\ Go(l, [c EXCEPT !.at = "wait",
                    !.child = [@ EXCEPT ![n] = [pid |-> p, born |-> births + 1]]])
  BY <1>1, <1>2 DEF Spawn
<1>6. /\ n \in c.start /\ n \in Service /\ c.child[n] = NoMark /\ c.child["tunnel"] = NoMark
      /\ n = "tunnel" => \A s \in c.start : s # "tunnel" => c.child[s] # NoMark
  BY <1>1, <1>2, <1>3 DEF Awaits, Command, NextService, Pending, Service
<1>7. PICK m : m = [pid |-> p, born |-> births + 1]
  OBVIOUS
<1>8. PICK d : d = [c EXCEPT !.at = "wait", !.child = [@ EXCEPT ![n] = m]]
  OBVIOUS
<1>9. /\ d.at = "wait" /\ d.start = c.start /\ d.read = c.read /\ d.child[n] = m
      /\ \A s \in Service \ {n} : d.child[s] = c.child[s]
  BY <1>3, <1>6, <1>8 DEF Command
<1>10. /\ proc[p] = Gone /\ proc'[p] = [kind |-> n, born |-> births + 1]
       /\ \A q \in Pid \ {p} : proc'[q] = proc[q]
  BY <1>5 DEF Born, FreePid, TypeInv, ServiceTypeOK
<1>11. launcher'[l] = d
  BY <1>5, <1>7, <1>8 DEF Go, TypeInv, ServiceTypeOK
<1>12. m # NoMark /\ m.pid = p
  BY <1>7 DEF NoMark
<1>13. ASSUME NEW s \in Service, Runs(state[s])' PROVE Runs(state[s])
  BY <1>3, <1>4, <1>13, StaysRunning
<1>14. ASSUME NEW s \in Service, Owned(c.child[s])'
       PROVE  Owned(c.child[s]) /\ proc'[c.child[s].pid] = proc[c.child[s].pid]
  <2>1. /\ Owned(c.child[s]) /\ c.child[s].pid \in Pid
        /\ \/ proc'[c.child[s].pid] = proc[c.child[s].pid]
           \/ proc'[c.child[s].pid].kind = "killed"
    BY <1>3, <1>4, <1>14, StaysOwned
  <2> QED
    BY <1>6, <1>10, <2>1 DEF Service
<1>15. Knows(d)'
  <2>1. \A s \in Service : s \in c.start => ~Runs(state[s])'
    BY <1>3, <1>13 DEF Knows, Command
  <2>2. \A s \in Service \ c.start : c.read[s] = state'[s] /\ d.child[s] = NoMark /\ s # n
    BY <1>3, <1>6, <1>9 DEF Knows
  <2>3. c.start # {} /\ c.start \subseteq Service
    BY <1>3, <1>6 DEF Command
  <2>4. \A s \in Service : d.child[s] # NoMark => ~Runs(state[s])'
    BY <2>1, <2>2
  <2> QED
    BY <1>9, <2>1, <2>2, <2>3, <2>4 DEF Knows
<1>16. Awaits(d)'
  <2>1. d.child["tunnel"] # NoMark => n = "tunnel"
    BY <1>6, <1>9 DEF Service
  <2>2. n = "tunnel" => \A s \in c.start : d.child[s] # NoMark
    BY <1>3, <1>6, <1>9, <1>12 DEF Command
  <2>3. ASSUME strays = {}, NEW s \in Service, s # LatestOf(d)
        PROVE  d.child[s] = NoMark \/ d.child[s].born \in served
    BY <1>3, <1>6, <1>9, <1>12, <2>1, <2>3 DEF Awaits, LatestOf, Service
  <2> QED
    BY <1>3, <1>6, <1>9, <1>12, <2>1, <2>2, <2>3 DEF Awaits, LatestOf
<1>17. Tracks(d)'
  <2>1. ASSUME NEW s \in Service, NEW q \in Living(s)'
        PROVE  IsMark(state[s], q)' \/ IsMark(d.child[s], q)'
    <3>1. q \in Pid /\ proc'[q].kind = s /\ proc'[q].born \notin strays
      BY <1>3 DEF Living
    <3>2. CASE q = p
      BY <1>7, <1>9, <1>10, <3>1, <3>2 DEF IsMark
    <3>3. CASE q # p
      <4>1. proc'[q] = proc[q] /\ q \in Living(s)
        BY <1>10, <3>1, <3>3 DEF Living
      <4>2. IsMark(state[s], q) \/ (IsMark(c.child[s], q) /\ s # n)
        BY <1>3, <1>6, <3>1, <4>1, MarkRuns DEF Tracks
      <4> QED
        BY <1>3, <1>9, <4>1, <4>2 DEF IsMark
    <3> QED
      BY <3>2, <3>3
  <2>2. ASSUME NEW s \in Service, Owned(d.child[s])' PROVE proc'[d.child[s].pid].kind = s
    <3>1. CASE s = n
      BY <1>9, <1>10, <1>12, <3>1
    <3>2. CASE s # n
      BY <1>3, <1>9, <1>14, <2>2, <3>2 DEF Tracks
    <3> QED
      BY <3>1, <3>2
  <2> QED
    BY <2>1, <2>2 DEF Tracks
<1>18. CommandInv(d)'
  BY <1>15, <1>16, <1>17 DEF CommandInv
<1> QED
  BY <1>11, <1>18

\* The endpoint that answers is the child's own: nothing but services that are living and served
\* listens, and there is one of each.
LEMMA AnswerIsTheChilds ==
  ASSUME TypeInv, Ports, NEW c, Knows(c), Tracks(c), strays = {}, NEW s \in Service,
         c.at # "abort", Owned(c.child[s]), Served(s)
  PROVE  c.child[s].born \in served
<1> DEFINE p == c.child[s].pid
           q == port[s]
<1>1. p \in Pid /\ proc[p].born = c.child[s].born /\ proc[p].kind = s
  BY DEF Owned, Tracks
<1>2. q \in Pid /\ proc[q].kind = s /\ proc[q].born \in served
  BY DEF TypeInv, ServiceTypeOK, Ports, Served
<1>3. p \in Living(s) /\ q \in Living(s)
  BY <1>1, <1>2 DEF Living
<1>4. p = q
  BY <1>3, OneOfEach
<1> QED
  BY <1>1, <1>2, <1>4

LEMMA WaitingSteps ==
  ASSUME TypeInv, Ports, NEW l \in Launcher, CommandInv(launcher[l]), Healthy(l) \/ StartFails(l)
  PROVE  CommandInv(launcher[l])'
<1> DEFINE c == launcher[l]
<1>1. c \in Command /\ Knows(c) /\ Awaits(c) /\ Tracks(c)
  BY DEF TypeInv, ServiceTypeOK, CommandInv
<1>2. UNCHANGED <<proc, state, strays, served>>
  BY DEF Healthy, StartFails, processVars, historyVars
<1>3. CASE Healthy(l)
  <2> DEFINE d == [c EXCEPT !.at = IF Pending(l) = {} THEN "write" ELSE "spawn"]
  <2>1. /\ d.at = IF Pending(l) = {} THEN "write" ELSE "spawn"
        /\ d.start = c.start /\ d.read = c.read /\ d.child = c.child
    BY <1>1 DEF Command
  <2>2. Go(l, d) /\ c.at = "wait"
    BY <1>3 DEF Healthy, At
  <2>3. Latest(l) = LatestOf(c) /\ LatestOf(c) \in Service
    BY DEF Latest, LatestOf, Service
  <2>4. strays = {} => c.child[LatestOf(c)].born \in served
    BY <1>1, <1>3, <2>3, AnswerIsTheChilds DEF Healthy, At
  <2>5. Pending(l) = {s \in c.start : c.child[s] = NoMark}
    BY DEF Pending
  <2> HIDE DEF d, c
  <2>6. Knows(d)
    BY <1>1, <2>1, <2>2 DEF Knows
  <2>7. Awaits(d)
    <3>1. Pending(l) # {} => c.child["tunnel"] = NoMark /\ \E s \in c.start : c.child[s] = NoMark
      BY <1>1, <2>2, <2>5 DEF Awaits
    <3>2. strays = {} => \A s \in Service : c.child[s] = NoMark \/ c.child[s].born \in served
      BY <1>1, <2>2, <2>4 DEF Awaits
    <3> QED
      BY <2>1, <3>1, <3>2 DEF Awaits
  <2>8. Tracks(d)
    BY <1>1, <2>1, <2>2 DEF Tracks
  <2> QED
    BY <1>2, <2>2, <2>6, <2>7, <2>8, GoesOn DEF CommandInv
<1>4. CASE StartFails(l)
  <2> DEFINE d == [c EXCEPT !.at = "abort", !.then = "refuse",
                     !.kill = {s \in Service : launcher[l].child[s] # NoMark}]
  <2>1. /\ d.at = "abort" /\ d.then = "refuse" /\ d.child = c.child
        /\ d.kill = {s \in Service : c.child[s] # NoMark}
    BY <1>1 DEF Command
  <2>2. Go(l, d)
    BY <1>4 DEF StartFails
  <2> HIDE DEF d, c
  <2>3. Knows(d)
    BY <1>1, <2>1, NobodyOwned DEF Knows
  <2>4. Awaits(d) /\ Tracks(d)
    BY <1>1, <2>1 DEF Awaits, Tracks
  <2> QED
    BY <1>2, <2>2, <2>3, <2>4, GoesOn DEF CommandInv
<1> QED
  BY <1>3, <1>4

LEMMA VictimOfKill ==
  ASSUME TypeInv, NEW l \in Launcher, launcher[l].kill # {}
  PROVE  Victim(l) \in launcher[l].kill /\ Victim(l) \in Service
<1>1. launcher[l].kill \subseteq Service
  BY DEF TypeInv, ServiceTypeOK, Command
<1> QED
  BY <1>1 DEF Victim, Service

\* Who is asked to end keeps its mark.
LEMMA TerminateStep ==
  ASSUME TypeInv, NEW l \in Launcher, CommandInv(launcher[l]), Terminate(l)
  PROVE  CommandInv(launcher[l])'
<1> DEFINE c == launcher[l]
           d == [c EXCEPT !.grace = TRUE]
<1>1. c \in Command /\ Knows(c) /\ Awaits(c) /\ Tracks(c)
  BY DEF TypeInv, ServiceTypeOK, CommandInv
<1>2. UNCHANGED <<proc, state, strays, served>> /\ Go(l, d)
  BY DEF Terminate
<1>3. /\ d.at = c.at /\ d.read = c.read /\ d.own = c.own /\ d.start = c.start
      /\ d.child = c.child /\ d.kill = c.kill /\ d.then = c.then
  BY <1>1 DEF Command
<1> HIDE DEF c, d
<1>4. Knows(d) /\ Awaits(d) /\ Tracks(d)
  BY <1>1, <1>3 DEF Knows, Awaits, Tracks, LatestOf
<1> QED
  BY <1>2, <1>4, GoesOn DEF CommandInv

\* A service is dealt with when nobody who is at work has its mark any more.
LEMMA VictimStep ==
  ASSUME TypeInv, MarksOfServices, NEW l \in Launcher, CommandInv(launcher[l]),
         VictimIsGone(l) \/ GivesUp(l) \/ Kill(l)
  PROVE  CommandInv(launcher[l])'
<1>1. PICK c : c = launcher[l]
  OBVIOUS
<1>2. PICK v : v = Victim(l)
  OBVIOUS
<1>3. PICK m : m = VictimMark(l)
  OBVIOUS
<1>4. PICK d : d = [c EXCEPT !.kill = @ \ {v}, !.grace = FALSE]
  OBVIOUS
<1>5. /\ c \in Command /\ CommandInv(c) /\ c.at \in {"replace", "stop", "abort"} /\ c.kill # {}
      /\ UNCHANGED <<state, served>> /\ strays \subseteq strays'
      /\ \A s \in Service : OfService(state[s]) /\ OfService(c.child[s]) /\ OfService(c.read[s])
      /\ launcher'[l] = d
  <2>1. c.kill # {}
    BY <1>1 DEF VictimIsGone, GivesUp, Kill, TypeInv, GraceGiven
  <2> QED
    BY <1>1, <1>2, <1>4, <2>1
    DEF TypeInv, ServiceTypeOK, MarksOfServices, VictimIsGone, GivesUp, Kill,
        VictimIsDealtWith, Go, At, Terminating, historyVars
<1>6. v \in c.kill /\ v \in Service
  BY <1>1, <1>2, <1>5, VictimOfKill
<1>7. m = IF c.at = "abort" THEN c.child[v] ELSE c.read[v]
  BY <1>1, <1>2, <1>3 DEF VictimMark, At
<1>8. Aged
  BY StepAges DEF ServiceNext, LauncherStep
<1>15. c.at = "abort" \/ c.child = NoState
  BY <1>5 DEF CommandInv, Knows
<1>9. /\ ~Runs(m)'
      /\ \A p \in Pid : proc'[p].kind \in Service => proc'[p] = proc[p]
  <2>1. OfService(m)
    BY <1>5, <1>6, <1>7
  <2>2. CASE VictimIsGone(l)
    BY <1>3, <2>2 DEF VictimIsGone, VictimOwned, Owned, Runs, processVars
  <2>4. CASE GivesUp(l)
    BY <1>3, <2>4 DEF GivesUp, Runs, processVars
  <2>3. CASE Kill(l)
    <3>1. m.pid \in Pid /\ proc' = [proc EXCEPT ![m.pid].kind = "killed"]
      BY <1>3, <2>3 DEF Kill, VictimOwned, Owned
    <3>2. proc[m.pid] \in Process
      BY <1>3, <2>1, <2>3, <3>1
      DEF Kill, VictimOwned, Owned, OfService, TypeInv, ServiceTypeOK, Gone
    <3>3. proc'[m.pid].kind = "killed" /\ \A p \in Pid \ {m.pid} : proc'[p] = proc[p]
      BY <3>1, <3>2 DEF TypeInv, ServiceTypeOK, Process
    <3> QED
      BY <3>1, <3>3 DEF Runs, Service
  <2> QED
    BY <2>2, <2>3, <2>4
<1>10. CommandInv(c)'
  BY <1>5, <1>8, <1>9, <1>15, LivesEnd
<1>11. /\ d.at = c.at /\ d.read = c.read /\ d.own = c.own /\ d.start = c.start
       /\ d.child = c.child /\ d.kill = c.kill \ {v} /\ d.then = c.then
  BY <1>4, <1>5 DEF Command
<1>12. Knows(d)'
  <2>1. Knows(c)'
    BY <1>10 DEF CommandInv
  <2>2. CASE c.at = "replace"
    <3>1. m = state'[v]
      BY <1>5, <1>7, <2>2 DEF CommandInv, Knows
    <3>2. c.then # "refuse" => \A s \in c.start \ d.kill : ~Runs(state[s])'
      BY <1>9, <1>11, <2>1, <2>2, <3>1 DEF Knows
    <3> QED
      BY <1>11, <2>1, <2>2, <3>2 DEF Knows
  <2>3. CASE c.at = "stop"
    <3>1. m = state'[v]
      BY <1>5, <1>7, <2>3 DEF CommandInv, Knows
    <3>2. \A s \in Service \ d.kill : ~Runs(state[s])'
      BY <1>9, <1>11, <2>1, <2>3, <3>1 DEF Knows
    <3> QED
      BY <1>11, <2>1, <2>3, <3>2 DEF Knows
  <2>4. CASE c.at = "abort"
    <3>1. \A s \in Service \ d.kill : ~Runs(c.child[s])'
      BY <1>7, <1>9, <1>11, <2>1, <2>4 DEF Knows
    <3> QED
      BY <1>11, <2>1, <2>4, <3>1 DEF Knows
  <2> QED
    BY <1>5, <2>2, <2>3, <2>4
<1>13. Awaits(d)' /\ Tracks(d)'
  <2>1. Awaits(d)'
    BY <1>5, <1>11 DEF Awaits
  <2>2. Tracks(c)'
    BY <1>10 DEF CommandInv
  <2> QED
    BY <1>11, <2>1, <2>2 DEF Tracks
<1>14. CommandInv(d)'
  BY <1>12, <1>13 DEF CommandInv
<1> QED
  BY <1>5, <1>14

\* When all are dealt with nobody is left whom the file, or the command, names.
LEMMA AllDealtWith ==
  ASSUME NEW l \in Launcher, CommandInv(launcher[l]), Terminated(l)
  PROVE  /\ launcher[l].then = "unlink" => \A s \in Service : ~Runs(state[s])
         /\ At(l, "stop") => \A s \in Service : Living(s) = {}
         /\ \A s \in Service : \/ launcher[l].child[s] = NoMark
                               \/ ~Runs(launcher[l].child[s])
<1> DEFINE c == launcher[l]
<1>1. c.kill = {} /\ Knows(c) /\ Tracks(c) /\ c.at \in {"replace", "stop", "abort"}
  BY DEF Terminated, Terminating, CommandInv
<1>2. c.then = "unlink" => \A s \in Service : ~Runs(state[s])
  BY <1>1 DEF Knows
<1>3. \A s \in Service : c.child[s] = NoMark \/ ~Runs(c.child[s])
  BY <1>1, NobodyOwned DEF Knows
<1>4. ASSUME At(l, "stop"), NEW s \in Service, NEW p \in Living(s) PROVE FALSE
  <2>1. c.then = "unlink"
    BY <1>1, <1>4 DEF Knows, At
  <2>2. IsMark(state[s], p) \/ IsMark(c.child[s], p)
    BY <1>1 DEF Tracks
  <2> QED
    BY <1>2, <1>3, <2>1, <2>2, MarkRuns
<1> QED
  BY <1>2, <1>3, <1>4

LEMMA TerminatedStep ==
  ASSUME TypeInv, NEW l \in Launcher, CommandInv(launcher[l]), Terminated(l)
  PROVE  CommandInv(launcher[l])'
<1>1. PICK c : c = launcher[l]
  OBVIOUS
<1>2. /\ c \in Command /\ Knows(c) /\ Awaits(c) /\ Tracks(c) /\ c.kill = {}
      /\ c.at \in {"replace", "stop", "abort"}
      /\ c.then = "unlink" => \A s \in Service : ~Runs(state[s])
      /\ \A s \in Service : c.child[s] = NoMark \/ ~Runs(c.child[s])
      /\ UNCHANGED <<proc, strays, served>>
      /\ state' = IF c.then = "unlink" THEN NoState ELSE state
  BY <1>1, AllDealtWith
  DEF TypeInv, ServiceTypeOK, CommandInv, Terminated, Terminating, processVars, historyVars
<1>3. \A m : (Owned(m)' <=> Owned(m)) /\ (Runs(m)' <=> Runs(m))
  BY <1>2 DEF Owned, Runs
<1>4. ASSUME NEW s \in Service, NEW p \in Living(s)' PROVE IsMark(state[s], p)'
  <2>1. p \in Pid /\ p \in Living(s)
    BY <1>2 DEF Living
  <2>2. IsMark(state[s], p)
    BY <1>2, <2>1, MarkRuns DEF Tracks
  <2>3. Runs(state[s])
    BY <2>1, <2>2, MarkRuns
  <2> QED
    BY <1>2, <2>2, <2>3 DEF IsMark
<1>5. ASSUME NEW d, d.child = NoState PROVE Tracks(d)'
  BY <1>3, <1>4, <1>5, NobodyOwned DEF Tracks
<1>6. CASE c.at = "replace" /\ c.then # "refuse"
  <2>1. PICK d : d = [c EXCEPT !.at = "occupied"]
    OBVIOUS
  <2>2. d.at = "occupied" /\ d.read = c.read /\ d.start = c.start /\ d.child = NoState
    BY <1>2, <1>6, <2>1 DEF Command, Knows
  <2>3. launcher'[l] = d
    BY <1>1, <1>6, <2>1 DEF Terminated, At, Go, TypeInv, ServiceTypeOK
  <2>4. c.start # {} /\ \A s \in c.start : ~Runs(state[s])
    BY <1>2, <1>6 DEF Knows
  <2>5. \A s \in c.start : ~Runs(state'[s])
    BY <1>2, <2>4, NobodyOwned DEF Command
  <2>6. \A s \in Service \ c.start : c.read[s] = state'[s]
    BY <1>2, <1>6 DEF Knows
  <2>7. \A s \in c.start : ~Runs(state[s])'
    BY <1>3, <2>5
  <2>8. Knows(d)'
    BY <2>2, <2>4, <2>6, <2>7, NobodyOwned DEF Knows
  <2>9. Awaits(d)' /\ Tracks(d)'
    BY <1>5, <2>2 DEF Awaits
  <2>10. CommandInv(d)'
    BY <2>8, <2>9 DEF CommandInv
  <2> QED
    BY <2>3, <2>10
<1>7. CASE ~(c.at = "replace" /\ c.then # "refuse")
  <2>1. launcher'[l] = Idle
    BY <1>1, <1>7 DEF Terminated, At, Done, Go, TypeInv, ServiceTypeOK
  <2>2. Idle.at = "idle" /\ Idle.child = NoState
    BY DEF Idle
  <2>3. Knows(Idle)' /\ Awaits(Idle)' /\ Tracks(Idle)'
    BY <1>5, <2>2, NobodyOwned DEF Knows, Awaits
  <2>4. CommandInv(Idle)'
    BY <2>3 DEF CommandInv
  <2> QED
    BY <2>1, <2>4
<1> QED
  BY <1>6, <1>7

\* The new file names the children, which served, and what was left running.
LEMMA WriteStep ==
  ASSUME TypeInv, NEW l \in Launcher, CommandInv(launcher[l]), FileInv, WriteState(l)
  PROVE  CommandInv(launcher[l])' /\ FileInv'
<1>1. PICK c : c = launcher[l]
  OBVIOUS
<1>2. /\ c \in Command /\ Knows(c) /\ Awaits(c) /\ Tracks(c) /\ c.at = "write"
      /\ \A s \in c.start : c.child[s] # NoMark
      /\ UNCHANGED <<proc, strays, served>> /\ launcher'[l] = Idle
  BY <1>1 DEF TypeInv, ServiceTypeOK, AllSpawned, CommandInv, WriteState, At, Done, Go,
              processVars, historyVars
<1>3. /\ \A s \in c.start : state'[s] = c.child[s] /\ s \in Service
      /\ \A s \in Service \ c.start : state'[s] = state[s] /\ c.child[s] = NoMark
  BY <1>1, <1>2 DEF WriteState, Knows, Command
<1>4. \A m : (Owned(m)' <=> Owned(m)) /\ (Runs(m)' <=> Runs(m))
  BY <1>2 DEF Owned, Runs
<1>5. ASSUME NEW s \in Service, NEW p \in Living(s)' PROVE IsMark(state[s], p)'
  <2>1. p \in Pid /\ p \in Living(s)
    BY <1>2 DEF Living
  <2>2. IsMark(state[s], p) \/ IsMark(c.child[s], p)
    BY <1>2, <2>1 DEF Tracks
  <2>3. CASE s \in c.start
    <3>1. ~Runs(state[s])
      BY <1>2, <2>3 DEF Knows
    <3>2. IsMark(c.child[s], p)
      BY <2>1, <2>2, <3>1, MarkRuns
    <3> QED
      BY <1>2, <1>3, <2>3, <3>2 DEF IsMark
  <2>4. CASE s \notin c.start
    BY <1>2, <1>3, <2>1, <2>2, <2>4, MarkRuns DEF IsMark
  <2> QED
    BY <2>3, <2>4
<1>6. Idle.at = "idle" /\ Idle.child = NoState
  BY DEF Idle
<1>7. Knows(Idle)' /\ Awaits(Idle)' /\ Tracks(Idle)'
  BY <1>4, <1>5, <1>6, NobodyOwned DEF Knows, Awaits, Tracks
<1>8. CommandInv(Idle)'
  BY <1>7 DEF CommandInv
<1>9. FileInv'
  <2> SUFFICES ASSUME NEW s \in Service
               PROVE  /\ Runs(state'[s]) => proc[state'[s].pid].kind = s
                      /\ strays = {} /\ state'[s] # NoMark => state'[s].born \in served
    BY <1>2, <1>4 DEF FileInv, Runs, Owned
  <2>1. CASE s \in c.start
    BY <1>2, <1>3, <2>1 DEF Tracks, Awaits, Runs
  <2>2. CASE s \notin c.start
    BY <1>3, <2>2 DEF FileInv
  <2> QED
    BY <2>1, <2>2
<1> QED
  BY <1>2, <1>8, <1>9

\* Children that an interrupted command leaves are strays.
LEMMA InterruptStep ==
  ASSUME TypeInv, NEW l \in Launcher, CommandInv(launcher[l]), Interrupt(l)
  PROVE  CommandInv(launcher[l])'
<1>1. PICK c : c = launcher[l]
  OBVIOUS
<1>2. /\ Tracks(c) /\ UNCHANGED <<proc, state, served>> /\ launcher'[l] = Idle
      /\ strays' = strays \cup {c.child[s].born : s \in {t \in Service : Owned(c.child[t])}}
  BY <1>1 DEF TypeInv, ServiceTypeOK, CommandInv, Interrupt, Done, Go, processVars
<1>3. ASSUME NEW s \in Service, NEW p \in Living(s)' PROVE IsMark(state[s], p)'
  <2>1. p \in Pid /\ p \in Living(s) /\ proc[p].born \notin strays'
    BY <1>2 DEF Living
  <2>2. ASSUME IsMark(c.child[s], p) PROVE FALSE
    <3>1. Owned(c.child[s]) /\ c.child[s].born = proc[p].born
      BY <2>1, <2>2, MarkRuns DEF IsMark
    <3> QED
      BY <1>2, <2>1, <3>1
  <2>3. IsMark(state[s], p)
    BY <1>2, <2>1, <2>2 DEF Tracks
  <2> QED
    BY <1>2, <2>3 DEF IsMark
<1>4. Idle.at = "idle" /\ Idle.child = NoState
  BY DEF Idle
<1>5. \A s \in Service : Idle.child[s] = NoMark
  BY <1>4, NobodyOwned
<1>6. ~Runs(NoMark)' /\ ~Owned(NoMark)'
  BY DEF Owned, Runs, NoMark
<1>7. Knows(Idle)' /\ Awaits(Idle)' /\ Tracks(Idle)'
  BY <1>3, <1>4, <1>5, <1>6 DEF Knows, Awaits, Tracks
<1>8. CommandInv(Idle)'
  BY <1>7 DEF CommandInv
<1> QED
  BY <1>2, <1>8

\* What processes do by themselves.
LEMMA ProcessesLive ==
  ASSUME TypeInv, NEW p \in Pid, ProcessStep(p)
  PROVE  /\ UNCHANGED <<state, launcher>> /\ strays \subseteq strays' /\ served \subseteq served'
         /\ \A q \in Pid : proc'[q].kind \in Service \cup {"killed"} => proc'[q] = proc[q]
<1>1. UNCHANGED <<state, launcher>> /\ strays \subseteq strays' /\ served \subseteq served'
  BY DEF ProcessStep, Listen, Exit, SupervisorDies, ForeignBorn, ForeignListens, historyVars
<1>2. \/ UNCHANGED proc \/ proc' = [proc EXCEPT ![p] = Gone]
      \/ proc' = [proc EXCEPT ![p] = [kind |-> "foreign", born |-> births + 1]]
  BY DEF ProcessStep, Listen, Exit, SupervisorDies, ForeignBorn, ForeignListens, GroupEnds, Born
<1>3. \A q \in Pid : \/ proc'[q] = proc[q] \/ proc'[q].kind \in {"none", "foreign"}
  BY <1>2 DEF Gone, TypeInv, ServiceTypeOK
<1> QED
  BY <1>1, <1>3 DEF Service

\* An endpoint is left, or its holder stays.
LEMMA PortsStay ==
  ASSUME TypeInv, Ports, strays \subseteq strays', served \subseteq served',
         \A s \in Service : \/ port'[s] = NoPid
                            \/ /\ port'[s] = port[s]
                               /\ \/ proc[port[s]] = Gone
                                  \/ proc'[port[s]] = proc[port[s]]
                                  \/ KilledIn(port[s])
  PROVE  Ports'
  BY DEF Ports, KilledIn, Gone, Service

LEMMA PortsStep ==
  ASSUME TypeInv, Ports, [ServiceNext]_serviceVars
  PROVE  Ports'
<1>1. /\ port \in [Service -> Pid \cup {NoPid}] /\ proc \in [Pid -> Process \cup {Gone}]
      /\ client \in [Pid -> 0 .. MaxBirth]
  BY DEF TypeInv, ServiceTypeOK
<1>2. ASSUME UNCHANGED <<proc, port>>, strays \subseteq strays', served \subseteq served'
      PROVE  Ports'
  BY <1>2, PortsStay
<1>3. ASSUME NEW p, GroupEnds(p), strays \subseteq strays', served \subseteq served'
      PROVE  Ports'
  <2>1. \A s \in Service : \/ port'[s] = NoPid
                           \/ port'[s] = port[s] /\ proc'[port[s]] = proc[port[s]]
    BY <1>1, <1>3 DEF GroupEnds, Released
  <2> QED
    BY <1>3, <2>1, PortsStay
<1>4. ASSUME NEW p \in Pid, NEW kind, Born(p, kind), UNCHANGED <<port, strays, served>> PROVE Ports'
  <2>1. \A q : proc[q] # Gone => proc'[q] = proc[q]
    BY <1>1, <1>4 DEF Born, FreePid
  <2> QED
    BY <1>4, <2>1, PortsStay
<1>5. ASSUME NEW l \in Launcher, LauncherStep(l) PROVE Ports'
  <2>1. CASE Spawn(l)
    BY <1>4, <2>1 DEF Spawn, historyVars
  <2>2. CASE Terminate(l)
    <3>1. \A s \in Service : port'[s] = NoPid \/ port'[s] = port[s]
      BY <1>1, <2>2 DEF Terminate, Released
    <3> QED
      BY <2>2, <3>1, PortsStay DEF Terminate
  <2>3. CASE Kill(l)
    <3>1. \A p \in Pid : proc[p] = Gone \/ proc'[p] = proc[p] \/ KilledIn(p)
      BY <1>1, <2>3 DEF Kill, KilledIn, Process
    <3> QED
      BY <1>1, <2>3, <3>1, PortsStay DEF Kill
  <2>4. CASE Interrupt(l) \/ GivesUp(l)
    BY <1>2, <2>4 DEF Interrupt, GivesUp, processVars
  <2>5. CASE StartBegins(l) \/ Look(l) \/ Probe(l) \/ Occupied(l) \/ Healthy(l)
    BY <1>2, <2>5 DEF StartBegins, Look, Probe, Occupied, Healthy, processVars, historyVars
  <2>6. CASE StartFails(l) \/ WriteState(l) \/ StopBegins(l) \/ VictimIsGone(l) \/ Terminated(l)
    BY <1>2, <2>6 DEF StartFails, WriteState, StopBegins, VictimIsGone, Terminated, processVars,
                      historyVars
  <2> QED
    BY <1>5, <2>1, <2>2, <2>3, <2>4, <2>5, <2>6 DEF LauncherStep
<1>6. ASSUME NEW p \in Pid, Listen(p) PROVE Ports'
  <2>1. CASE port[proc[p].kind] = NoPid
    <3>1. /\ proc[p].kind \in Service /\ port' = [port EXCEPT ![proc[p].kind] = p]
          /\ UNCHANGED <<proc, strays>> /\ served' = served \cup {proc[p].born}
      BY <1>6, <2>1 DEF Listen
    <3>2. \A s \in Service : IF s = proc[p].kind THEN port'[s] = p ELSE port'[s] = port[s]
      BY <1>1, <3>1
    <3> QED
      BY <3>1, <3>2 DEF Ports
  <2>2. CASE port[proc[p].kind] # NoPid
    BY <1>3, <1>6, <2>2 DEF Listen
  <2> QED
    BY <2>1, <2>2
<1>7. ASSUME NEW p \in Pid, SupervisorDies(p) \/ \E s \in Service : ForeignListens(p, s)
      PROVE  Ports'
  <2>1. strays' # {}
    BY <1>7 DEF SupervisorDies, ForeignListens
  <2> QED
    BY <2>1 DEF Ports
<1>8. ASSUME NEW p \in Pid, Exit(p) \/ ForeignBorn(p) PROVE Ports'
  BY <1>3, <1>4, <1>8 DEF Exit, ForeignBorn, historyVars
<1>9. CASE UNCHANGED serviceVars
  BY <1>2, <1>9 DEF serviceVars, processVars, historyVars
<1> QED
  BY <1>5, <1>6, <1>7, <1>8, <1>9 DEF ServiceNext, ProcessStep

LEMMA FileStep ==
  ASSUME TypeInv, MarksOfServices, FileInv, [ServiceNext]_serviceVars,
         \A l \in Launcher : CommandInv(launcher[l])
  PROVE  FileInv'
<1>1. ASSUME UNCHANGED state, strays \subseteq strays', served \subseteq served' PROVE FileInv'
  BY <1>1, StepAges, FileStays
<1>2. ASSUME NEW l \in Launcher, Terminated(l) PROVE FileInv'
  <2>1. CASE state' = NoState
    <3>1. \A s \in Service : state'[s] = NoMark
      BY <2>1, NobodyOwned
    <3> QED
      BY <3>1 DEF FileInv, Runs, Owned, NoMark
  <2>2. CASE state' = state
    BY <1>1, <1>2, <2>2 DEF Terminated, historyVars
  <2> QED
    BY <1>2, <2>1, <2>2 DEF Terminated
<1>3. ASSUME NEW l \in Launcher, LauncherStep(l) PROVE FileInv'
  <2>1. CASE WriteState(l)
    BY <2>1, WriteStep
  <2>2. CASE StartBegins(l) \/ Look(l) \/ Probe(l) \/ Occupied(l) \/ Healthy(l) \/ Spawn(l)
    BY <1>1, <2>2 DEF StartBegins, Look, Probe, Occupied, Healthy, Spawn, historyVars
  <2>3. CASE StartFails(l) \/ StopBegins(l) \/ VictimIsGone(l) \/ Terminate(l) \/ Kill(l)
    BY <1>1, <2>3 DEF StartFails, StopBegins, VictimIsGone, Terminate, Kill, historyVars
  <2>4. CASE Interrupt(l) \/ GivesUp(l)
    BY <1>1, <2>4 DEF Interrupt, GivesUp
  <2> QED
    BY <1>2, <1>3, <2>1, <2>2, <2>3, <2>4 DEF LauncherStep
<1>4. ASSUME NEW p \in Pid, ProcessStep(p) PROVE FileInv'
  BY <1>1, <1>4, ProcessesLive
<1>5. CASE UNCHANGED serviceVars
  BY <1>1, <1>5 DEF serviceVars, historyVars
<1> QED
  BY <1>3, <1>4, <1>5 DEF ServiceNext

\* A service step of the one command that there is, or of the processes beside it.
LEMMA CommandStep ==
  ASSUME TypeInv, MarksOfServices, FileInv, Ports, [ServiceNext]_serviceVars,
         NEW l, Launcher = {l}, CommandInv(launcher[l])
  PROVE  CommandInv(launcher[l])'
<1>1. CASE LauncherStep(l)
  BY <1>1, DecidingSteps, SpawnStep, WaitingSteps, WriteStep, TerminateStep, VictimStep,
     TerminatedStep, InterruptStep DEF LauncherStep
<1>2. PICK c : c = launcher[l]
  OBVIOUS
<1>3. ASSUME UNCHANGED <<state, launcher>>, strays \subseteq strays', served \subseteq served',
             \A q \in Pid : proc'[q].kind \in Service \cup {"killed"} => proc'[q] = proc[q]
      PROVE  CommandInv(launcher[l])'
  <2>1. /\ c \in Command /\ CommandInv(c)
        /\ \A s \in Service : OfService(c.child[s]) /\ OfService(state[s])
    BY <1>2 DEF TypeInv, ServiceTypeOK, MarksOfServices
  <2>2. CommandInv(c)'
    BY <1>3, <2>1, StepAges, LivesEnd
  <2> QED
    BY <1>2, <1>3, <2>2
<1>4. ASSUME NEW p \in Pid, ProcessStep(p) PROVE CommandInv(launcher[l])'
  BY <1>3, <1>4, ProcessesLive
<1>5. CASE UNCHANGED serviceVars
  BY <1>3, <1>5 DEF serviceVars, processVars, historyVars
<1> QED
  BY <1>1, <1>4, <1>5 DEF ServiceNext

\* The invariant of the whole, where the command is l.
SoleInv(l) == TypeInv /\ MarksOfServices /\ FileInv /\ Ports /\ CommandInv(launcher[l])

LEMMA SoleStarts == ASSUME NEW only, Launcher = {only}, ServiceInit PROVE SoleInv(only)
<1>1. \A s \in Service : state[s] = NoMark /\ port[s] = NoPid
  BY NobodyOwned DEF ServiceInit
<1>2. launcher[only] = Idle /\ \A s : Living(s) \cap Pid = {} \/ s = "none"
  BY DEF ServiceInit, Living, Gone
<1>3. Tracks(Idle)
  BY <1>2, NobodyOwned DEF Tracks, Idle, Service, Living
<1>4. MarksOfServices
  BY <1>1, NobodyIsOfService, NobodyOwned DEF ServiceInit, MarksOfServices, Idle
<1>5. FileInv /\ Ports
  BY <1>1, NobodyOwned DEF FileInv, Ports
<1> QED
  BY <1>2, <1>3, <1>4, <1>5, InitType, IdleInv DEF SoleInv

LEMMA SoleKept ==
  ASSUME NEW only, Launcher = {only} PROVE SoleInv(only) /\ [ServiceNext]_serviceVars => SoleInv(only)'
<1> SUFFICES ASSUME SoleInv(only), [ServiceNext]_serviceVars PROVE SoleInv(only)'
  OBVIOUS
<1>1. TypeInv' /\ MarksOfServices'
  BY TypeStep, MarksInv DEF SoleInv
<1>2. FileInv' /\ Ports' /\ CommandInv(launcher[only])'
  BY FileStep, PortsStep, CommandStep DEF SoleInv
<1> QED
  BY <1>1, <1>2 DEF SoleInv

LEMMA SoleInvariant ==
  ASSUME NEW only, Launcher = {only} PROVE ServiceSpec => []SoleInv(only)
<1>1. ServiceInit => SoleInv(only)
  BY SoleStarts
<1>2. SoleInv(only) /\ [ServiceNext]_serviceVars => SoleInv(only)'
  BY SoleKept
<1> QED
  BY <1>1, <1>2, PTL DEF ServiceSpec

\* With one command at a time: whatever dies, answers late or takes an id or an endpoint between
\* its looks, a living Bridge or tunnel is named by the state file or is a child of the command
\* (start_services writes the file last and removes it after both were terminated).
THEOREM NothingLeftUntracked ==
  ASSUME NEW only, Launcher = {only} PROVE ServiceSpec => []NothingUntracked
<1>1. SoleInv(only) => NothingUntracked
  BY DEF SoleInv, CommandInv, Tracks, IsMark, NothingUntracked, Named, InHand
<1>2. ServiceSpec => []SoleInv(only)
  BY SoleInvariant
<1> QED
  BY <1>1, <1>2, PTL

\* With one command at a time there are never two Bridges or two tunnels, not even while one is
\* being replaced (start_services terminates before it spawns).
THEOREM NeverTwo ==
  ASSUME NEW only, Launcher = {only} PROVE ServiceSpec => []AtMostOneOfEach
<1>1. SoleInv(only) => AtMostOneOfEach
  BY OneOfEach DEF SoleInv, CommandInv, AtMostOneOfEach
<1>2. ServiceSpec => []SoleInv(only)
  BY SoleInvariant
<1> QED
  BY <1>1, <1>2, PTL

\* With one command at a time: a stop that is through has left nothing at work, other than
\* strays, even what died or was replaced by another program while it waited (stop_services).
THEOREM StopIsComplete ==
  ASSUME NEW only, Launcher = {only} PROVE ServiceSpec => StopLeavesNothing
<1>1. SoleInv(only) /\ [ServiceNext]_serviceVars
        => [\A l \in Launcher : At(l, "stop") /\ Terminated(l) =>
              \A s \in Service : Living(s) = {}]_serviceVars
  BY AllDealtWith DEF SoleInv
<1>2. ServiceSpec => []SoleInv(only)
  BY SoleInvariant
<1>3. ServiceSpec => [][ServiceNext]_serviceVars
  BY PTL DEF ServiceSpec
<1> QED
  BY <1>1, <1>2, <1>3, PTL DEF StopLeavesNothing

\* With one command at a time: when start reports success each service that it names has itself
\* served its endpoint: the answer that _wait_endpoint got was the child's own, unless a program
\* that is not ours, or the rest of a service that died, listens there.
THEOREM StartedIsServing ==
  ASSUME NEW only, Launcher = {only} PROVE ServiceSpec => StartedMeansServing
<1>1. SoleInv(only) /\ [ServiceNext]_serviceVars
        => [\A l \in Launcher : WriteState(l) /\ strays = {} =>
              \A s \in Service : state'[s].born \in served]_serviceVars
  <2> SUFFICES ASSUME SoleInv(only), [ServiceNext]_serviceVars, WriteState(only), strays = {},
                      NEW s \in Service
               PROVE  state'[s].born \in served
    OBVIOUS
  <2>1. FileInv' /\ UNCHANGED historyVars
    BY FileStep DEF SoleInv, WriteState
  <2>2. state'[s] # NoMark
    BY DEF SoleInv, TypeInv, ServiceTypeOK, WriteState, AllSpawned, RecordKept, At, Command
  <2> QED
    BY <2>1, <2>2 DEF FileInv, historyVars
<1>2. ServiceSpec => []SoleInv(only)
  BY SoleInvariant
<1>3. ServiceSpec => [][ServiceNext]_serviceVars
  BY PTL DEF ServiceSpec
<1> QED
  BY <1>1, <1>2, <1>3, PTL DEF StartedMeansServing
=============================================================================
