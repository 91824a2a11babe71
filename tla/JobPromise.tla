----------------------------- MODULE JobPromise -----------------------------
(***************************************************************************)
(* What the job API promises its caller, whatever executes the jobs: a job *)
(* is accepted, waits, runs at most once, and settles at most once; a      *)
(* settled job never changes again, and its owner is told of a completion  *)
(* or a failure at most once, and of the one that happened.                *)
(* InProcessJobs is shown to implement this module.                        *)
(***************************************************************************)
CONSTANT Jobs

VARIABLES
  phase,  \* phase[j]: the status a client reads from GET /api/jobs/:id
  told    \* told[j]: the notification the owner has had, or "nothing"

promiseVars == <<phase, told>>

PromiseInit ==
  /\ phase = [j \in Jobs |-> "absent"]
  /\ told = [j \in Jobs |-> "nothing"]

Move(j, from, to) ==
  /\ phase[j] \in from
  /\ phase' = [phase EXCEPT ![j] = to]
  /\ UNCHANGED told

Accept(j) == Move(j, {"absent"}, "queued")
Run(j) == Move(j, {"queued"}, "running")
Complete(j) == Move(j, {"running"}, "done")
Refuse(j) == Move(j, {"queued", "running"}, "failed")
Interrupt(j) == Move(j, {"queued", "running"}, "interrupted")

Tell(j) ==
  /\ phase[j] \in {"done", "failed"}
  /\ told[j] = "nothing"
  /\ told' = [told EXCEPT ![j] = phase[j]]
  /\ UNCHANGED phase

PromiseNext ==
  \E j \in Jobs : \/ Accept(j) \/ Run(j) \/ Complete(j)
                  \/ Refuse(j) \/ Interrupt(j) \/ Tell(j)

PromiseSpec == PromiseInit /\ [][PromiseNext]_promiseVars
=============================================================================
