-------------------------- MODULE DistributedJobs --------------------------
(***************************************************************************)
(* The distributed substrate: the web server only enqueues ids in a BullMQ *)
(* queue; worker processes consume it.  A worker registers its consumer    *)
(* first and only then reconciles what earlier processes left behind:      *)
(* it lists the queued and running jobs, lists them again inside           *)
(* reconcileJobs(), rewrites each as interrupted, and re-enqueues the ids  *)
(* of the first list -- all while its consumer, the other workers and the  *)
(* web server are at work.                                                 *)
(***************************************************************************)
EXTENDS JobRunner, FiniteSets

CONSTANTS
  Workers,      \* worker processes; a slot is <<worker, k>>
  Concurrency,  \* JOB_CONCURRENCY: deliveries a worker handles at once
  Attempts,     \* JOB_ATTEMPTS: deliveries BullMQ makes of a failing job
  ForwardCtx,   \* whether the consumer passes the delivery context to run()
  MaxCrashes,   \* bound on process deaths
  MaxStarts,    \* bound on worker starts beyond the first of each
  QuietStart    \* TRUE: requests come only when every worker is ready

ASSUME DistributedAssumption ==
  /\ Concurrency \in Nat \ {0}
  /\ Attempts \in Nat \ {0}
  /\ ForwardCtx \in BOOLEAN
  /\ MaxCrashes \in Nat
  /\ MaxStarts \in Nat
  /\ QuietStart \in BOOLEAN
  /\ Slots = Workers \X (1..Concurrency)

VARIABLES
  bull,     \* bull[j]: the state of the BullMQ job whose id is j
  tries,    \* tries[j]: its attemptsMade
  worker,   \* worker[w]: where the worker's main() stands
  pending,  \* pending[w]: its first list, still to be re-enqueued
  stale,    \* stale[w]: the list reconcileJobs() still has to rewrite
  crashes,
  starts

queueVars == <<bull, tries>>
workerVars == <<worker, pending, stale, crashes, starts>>
vars == <<jobVars, queueVars, workerVars>>

Host(s) == s[1]
SlotsOf(w) == {s \in Slots : Host(s) = w}
Live(j) == \E s \in Slots : exec[s].pc # "idle" /\ exec[s].job = j

Init ==
  /\ JobInit
  /\ bull = [j \in Jobs |-> "none"]
  /\ tries = [j \in Jobs |-> 0]
  /\ worker = [w \in Workers |-> "down"]
  /\ pending = [w \in Workers |-> {}]
  /\ stale = [w \in Workers |-> {}]
  /\ crashes = 0
  /\ starts = 0

WorkerPcs == {"down", "list", "relist", "reconcile", "requeue", "ready",
              "draining"}

TypeOK ==
  /\ JobTypeOK
  /\ bull \in [Jobs -> {"none", "waiting", "active", "failed"}]
  /\ tries \in [Jobs -> Nat]
  /\ worker \in [Workers -> WorkerPcs]
  /\ pending \in [Workers -> SUBSET Jobs]
  /\ stale \in [Workers -> SUBSET Jobs]
  /\ crashes \in Nat
  /\ starts \in Nat

-----------------------------------------------------------------------------
(* The web server.                                                         *)

Start(j) ==
  /\ QuietStart => \A w \in Workers : worker[w] = "ready"
  /\ StartStep(j)
  /\ UNCHANGED <<queueVars, workerVars>>

\* Seeded fault: an add without the job id, which nothing dedupes.
BullAddAgain(j) ==
  /\ bull' = [bull EXCEPT ![j] = "waiting"]
  /\ tries' = [tries EXCEPT ![j] = 0]

\* Queue.add with jobId: ignored while a BullMQ job of that id exists, the
\* failed ones that removeOnFail keeps included.
BullAdd(j) ==
  IF bull[j] = "none"
  THEN /\ bull' = [bull EXCEPT ![j] = "waiting"]
       /\ tries' = [tries EXCEPT ![j] = 0]
  ELSE UNCHANGED queueVars

Enqueue(j) ==
  /\ StartEnqueue(j)
  /\ BullAdd(j)
  /\ UNCHANGED workerVars

\* The web server dies between the awaits of its start() calls.
WebCrash ==
  /\ crashes < MaxCrashes
  /\ crashes' = crashes + 1
  /\ \E j \in Jobs : call[j] \in InFlight
  /\ LoseCalls
  /\ UNCHANGED <<status, log, runs, notes, exec, late, queueVars,
                 worker, pending, stale, starts>>

-----------------------------------------------------------------------------
(* A worker's consumer.                                                    *)

Consuming(w) == worker[w] \notin {"down", "draining"}

\* Seeded fault: the attempt before the last is taken for the last.
DispatchOffByOne(s, j) ==
  /\ Consuming(Host(s))
  /\ bull[j] = "waiting"
  /\ RunDeliver(s, j, tries[j] + 2 >= Attempts)
  /\ bull' = [bull EXCEPT ![j] = "active"]
  /\ UNCHANGED <<tries, workerVars>>

\* The handler registered by the worker is `(id) => h.jobs.run(id)`: the
\* context BullMQ's attempt count is turned into is dropped (ForwardCtx is
\* FALSE in the source), so run() takes every attempt for the last.
Dispatch(s, j) ==
  /\ Consuming(Host(s))
  /\ bull[j] = "waiting"
  /\ RunDeliver(s, j, IF ForwardCtx THEN tries[j] + 1 = Attempts ELSE TRUE)
  /\ bull' = [bull EXCEPT ![j] = "active"]
  /\ UNCHANGED <<tries, workerVars>>

Step(s) == RunStep(s) /\ UNCHANGED <<queueVars, workerVars>>

\* removeOnComplete: the id may be added again.
Ack(s) ==
  /\ RunEnd(s, "return")
  /\ bull' = [bull EXCEPT ![exec[s].job] = "none"]
  /\ UNCHANGED <<tries, workerVars>>

\* The handler threw: BullMQ retries while attempts are left, after a backoff.
Nack(s) ==
  LET j == exec[s].job
  IN  /\ RunEnd(s, "throw")
      /\ tries' = [tries EXCEPT ![j] = @ + 1]
      /\ bull' = [bull EXCEPT ![j] = IF tries[j] + 1 < Attempts THEN "waiting"
                                                             ELSE "failed"]
      /\ UNCHANGED workerVars

\* BullMQ notices that the lock of an active job was not renewed, because the
\* worker that held it is gone, and delivers it again.
Stalled(j) ==
  /\ bull[j] = "active"
  /\ ~Live(j)
  /\ bull' = [bull EXCEPT ![j] = "waiting"]
  /\ UNCHANGED <<jobVars, tries, workerVars>>

Leftover == (\E g \in late : LateAppend(g)) /\ UNCHANGED <<queueVars, workerVars>>

-----------------------------------------------------------------------------
(* A worker's main().                                                      *)

\* buildHarness() and jobQueue.process(): the consumer is live from here on.
\* The first start of each worker is free, later ones are counted.
WorkerStart(w) ==
  /\ worker[w] = "down"
  /\ starts < Cardinality(Workers) + MaxStarts
  /\ starts' = starts + 1
  /\ worker' = [worker EXCEPT ![w] = "list"]
  /\ UNCHANGED <<jobVars, queueVars, pending, stale, crashes>>

ListedQueued == {j \in Jobs : status[j] = "queued"}   \* seeded fault
Listed == {j \in Jobs : status[j] \in NonTerminal}

WorkerList(w) ==
  /\ worker[w] = "list"
  /\ pending' = [pending EXCEPT ![w] = Listed]
  /\ worker' = [worker EXCEPT ![w] = "relist"]
  /\ UNCHANGED <<jobVars, queueVars, stale, crashes, starts>>

WorkerRelist(w) ==
  /\ worker[w] = "relist"
  /\ stale' = [stale EXCEPT ![w] = Listed]
  /\ worker' = [worker EXCEPT ![w] = "reconcile"]
  /\ UNCHANGED <<jobVars, queueVars, pending, crashes, starts>>

WorkerReconcile(w, j) ==
  /\ worker[w] = "reconcile"
  /\ j \in stale[w]
  /\ ReconcileSave(j)
  /\ stale' = [stale EXCEPT ![w] = @ \ {j}]
  /\ UNCHANGED <<queueVars, worker, pending, crashes, starts>>

WorkerReconciled(w) ==
  /\ worker[w] = "reconcile"
  /\ stale[w] = {}
  /\ worker' = [worker EXCEPT ![w] = "requeue"]
  /\ UNCHANGED <<jobVars, queueVars, pending, stale, crashes, starts>>

WorkerRequeue(w, j) ==
  /\ worker[w] = "requeue"
  /\ j \in pending[w]
  /\ BullAdd(j)
  /\ pending' = [pending EXCEPT ![w] = @ \ {j}]
  /\ UNCHANGED <<jobVars, worker, stale, crashes, starts>>

\* From here on SIGTERM drains; before, it kills (the handlers come last).
WorkerReady(w) ==
  /\ worker[w] = "requeue"
  /\ pending[w] = {}
  /\ worker' = [worker EXCEPT ![w] = "ready"]
  /\ UNCHANGED <<jobVars, queueVars, pending, stale, crashes, starts>>

WorkerDrain(w) ==
  /\ worker[w] = "ready"
  /\ crashes < MaxCrashes
  /\ crashes' = crashes + 1
  /\ worker' = [worker EXCEPT ![w] = "draining"]
  /\ UNCHANGED <<jobVars, queueVars, pending, stale, starts>>

WorkerExit(w) ==
  /\ worker[w] = "draining"
  /\ \A s \in SlotsOf(w) : exec[s].pc = "idle"
  /\ worker' = [worker EXCEPT ![w] = "down"]
  /\ LoseRuns(SlotsOf(w))
  /\ UNCHANGED <<status, log, runs, notes, call, queueVars,
                 pending, stale, crashes, starts>>

\* A crash, or the 30-second cap on the drain.
WorkerCrash(w) ==
  /\ worker[w] # "down"
  /\ crashes < MaxCrashes
  /\ crashes' = crashes + 1
  /\ worker' = [worker EXCEPT ![w] = "down"]
  /\ pending' = [pending EXCEPT ![w] = {}]
  /\ stale' = [stale EXCEPT ![w] = {}]
  /\ LoseRuns(SlotsOf(w))
  /\ UNCHANGED <<status, log, runs, notes, call, queueVars, starts>>

Boot(w) ==
  \/ WorkerStart(w)
  \/ WorkerList(w)
  \/ WorkerRelist(w)
  \/ \E j \in Jobs : WorkerReconcile(w, j)
  \/ WorkerReconciled(w)
  \/ \E j \in Jobs : WorkerRequeue(w, j)
  \/ WorkerReady(w)

Next ==
  \/ \E j \in Jobs : Start(j) \/ Enqueue(j) \/ Stalled(j)
  \/ WebCrash
  \/ \E s \in Slots, j \in Jobs : Dispatch(s, j)
  \/ \E s \in Slots : Step(s) \/ Ack(s) \/ Nack(s)
  \/ Leftover
  \/ \E w \in Workers : Boot(w) \/ WorkerDrain(w) \/ WorkerExit(w) \/ WorkerCrash(w)

Spec == Init /\ [][Next]_vars

\* Workers are supervised (started again when they are down), their event
\* loops run what they started, BullMQ delivers what waits and re-delivers
\* what stalled.  Clients, crashes and SIGTERM are not fair.
Fairness ==
  /\ \A j \in Jobs : /\ WF_vars(call[j] # "none" /\ Start(j))
                     /\ WF_vars(Enqueue(j))
                     /\ WF_vars(Stalled(j))
                     /\ WF_vars(\E s \in Slots : Dispatch(s, j))
  /\ \A s \in Slots : WF_vars(Step(s)) /\ WF_vars(Ack(s)) /\ WF_vars(Nack(s))
  /\ \A w \in Workers : WF_vars(Boot(w)) /\ WF_vars(WorkerExit(w))

FairSpec == Spec /\ Fairness

-----------------------------------------------------------------------------
\* Two workers never execute the same job at the same time.
OneExecutor ==
  \A s, t \in Slots : s # t /\ Executing(s) /\ Executing(t)
                        => exec[s].job # exec[t].job

\* The run-log of a job that is done is exactly one whole run.
DoneMeansOneRun ==
  \A j \in Jobs : status[j] = "done" =>
    \E r \in 1..runs[j] : log[j] = CompleteLog(r)

\* Across crashes, stalled-job redelivery, retries and start-up re-enqueues the
\* runs of a job come one after the other (the id dedupe of RedisJobQueue.enqueue
\* leaves one delivery in flight), and what a crashed, reconciled or retried run
\* wrote is dropped before the next one begins (clearEvents).
RunsAreSerial == OneExecutor /\ DoneMeansOneRun

\* A job never stays on a phantom "running": whenever the process that ran it
\* dies, the next worker start moves it on (reconcileJobs()).
NoPhantomRunning ==
  \A j \in Jobs : status[j] = "running" ~> status[j] # "running"

\* With workers that are up before the requests come and stay up, a job that
\* was created ends done or failed, for good: no redelivery, retry or late refusal
\* rewrites it, and its owner hears of that ending, once, even when the webhook
\* fails after the row of the notification was written and BullMQ therefore
\* delivers the job again.
EveryJobSettles ==
  \A j \in Jobs :
    call[j] # "none" ~> [](status[j] \in Terminal /\ notes[j] = <<status[j]>>)

\* "Idempotent: a job that is already running or terminal is skipped, so
\* redelivery / reconcile re-enqueue never double-runs" (runner.ts:78-79).
\* Where no process dies, nothing justifies a second execution.
NeverDoubleRuns == \A j \in Jobs : runs[j] <= 1

\* "On failure with attempts remaining it resets the job to interrupted and
\* re-throws so the queue retries with backoff; the last attempt marks failed"
\* (runner.ts:80-81): no earlier attempt of a job that ran marks it failed.
FailedOnLastAttempt ==
  \A s \in Slots :
    exec[s].pc = "notify" /\ exec[s].seen = "failed" /\ exec[s].num > 0
      => tries[exec[s].job] + 1 = Attempts
=============================================================================
