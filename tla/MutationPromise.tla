-------------------------- MODULE MutationPromise --------------------------
(***************************************************************************)
(* What the Bridge promises the clients of its mutating tools, without     *)
(* rows, handlers, locks or sessions: for one project at most one mutation *)
(* is open; each is carried out at most once, and a guarded one only after *)
(* it was approved; an interruption never turns a mutation that has been   *)
(* started into one that is reported as done or not done; only a decision  *)
(* resolves what is unknown.                                               *)
(***************************************************************************)
CONSTANTS Project, Op, None

VARIABLES
  serving,   \* does the Bridge serve?
  phase,     \* of each mutation
  owner,     \* its project
  guarded,   \* does it need approval, whatever the configuration says?
  approved   \* was its approval given?

promiseVars == <<serving, phase, owner, guarded, approved>>

Phase == {"none", "pending", "awaiting", "running", "unknown",
          "succeeded", "failed", "cancelled"}
Open == {"pending", "awaiting", "running", "unknown"}

PromiseInit ==
  /\ serving = TRUE
  /\ phase = [o \in Op |-> "none"]
  /\ owner = [o \in Op |-> None]
  /\ guarded = [o \in Op |-> FALSE]
  /\ approved = [o \in Op |-> FALSE]

Becomes(o, next) ==
  /\ serving
  /\ phase' = [phase EXCEPT ![o] = next]
  /\ UNCHANGED serving

Ask(o, p, g) ==
  /\ phase[o] = "none"
  /\ \A q \in Op : owner[q] = p => phase[q] \notin Open
  /\ Becomes(o, "pending")
  /\ owner' = [owner EXCEPT ![o] = p]
  /\ guarded' = [guarded EXCEPT ![o] = g]
  /\ UNCHANGED approved

Step(o, from, to) ==
  /\ phase[o] \in from
  /\ Becomes(o, to)
  /\ UNCHANGED <<owner, guarded, approved>>

Refuse(o)    == Step(o, {"pending"}, "failed")
Hold(o)      == Step(o, {"pending"}, "awaiting")
Withdraw(o)  == ~approved[o] /\ Step(o, {"awaiting"}, "cancelled")
Perform(o)   == ~guarded[o] /\ Step(o, {"pending"}, "running")
PerformApproved(o) == approved[o] /\ Step(o, {"awaiting"}, "running")
Settle(o)    == \E to \in {"succeeded", "failed"} : Step(o, {"running"}, to)
LoseTrack(o) == Step(o, {"running"}, "unknown")
Decide(o)    == \E to \in {"succeeded", "failed"} : Step(o, {"unknown"}, to)

Approve(o) ==
  /\ serving
  /\ phase[o] = "awaiting" /\ ~approved[o]
  /\ approved' = [approved EXCEPT ![o] = TRUE]
  /\ UNCHANGED <<serving, phase, owner, guarded>>

Stop ==
  /\ serving
  /\ serving' = FALSE
  /\ UNCHANGED <<phase, owner, guarded, approved>>

\* What had not been started is given up; what had been is unknown.
AfterRestart(o) ==
  CASE phase[o] = "pending"  -> "failed"
    [] phase[o] = "awaiting" -> "cancelled"
    [] phase[o] = "running"  -> "unknown"
    [] OTHER                 -> phase[o]

Restart ==
  /\ ~serving
  /\ serving' = TRUE
  /\ phase' = [o \in Op |-> AfterRestart(o)]
  /\ UNCHANGED <<owner, guarded, approved>>

PromiseNext ==
  \/ \E o \in Op :
       \/ \E p \in Project, g \in BOOLEAN : Ask(o, p, g)
       \/ Refuse(o) \/ Hold(o) \/ Withdraw(o) \/ Perform(o) \/ PerformApproved(o)
       \/ Settle(o) \/ LoseTrack(o) \/ Decide(o) \/ Approve(o)
  \/ Stop \/ Restart

PromiseSpec == PromiseInit /\ [][PromiseNext]_promiseVars
=============================================================================
