----------------------- MODULE DistributedJobsProofs -----------------------
(***************************************************************************)
(* For every set of jobs and workers, every concurrency, number of         *)
(* attempts, crashes and restarts: BullMQ's dedupe by job id leaves one    *)
(* delivery of a job in flight, so no two slots ever hold the same job;    *)
(* and while no run is timed out, the run-log of a job that is done is one *)
(* whole run, whatever crashes, redeliveries and start-up re-enqueues came *)
(* before it; and a run that knows its attempt ends as failed on the last  *)
(* one only.                                                               *)
(***************************************************************************)
EXTENDS DistributedJobs, TLAPS

USE JobRunnerAssumption, DistributedAssumption

Busy(s) == exec[s].pc # "idle"

\* A slot that is busy holds the one delivery of its job.
OneDelivery ==
  /\ \A s \in Slots : Busy(s) => exec[s].job \in Jobs /\ bull[exec[s].job] = "active"
  /\ \A s, t \in Slots : Busy(s) /\ Busy(t) /\ s # t => exec[s].job # exec[t].job

QueueInv == TypeOK /\ OneDelivery

\* start() and the dispatcher do not look into the slots.
LEMMA StartKeepsQueue ==
  ASSUME QueueInv, NEW j \in Jobs, Start(j) \/ Enqueue(j)
  PROVE  QueueInv'
<1>1. UNCHANGED <<log, runs, exec, late, workerVars>>
  BY DEF Start, StartStep, StartCreate, StartAdmit, StartReject, StartNotify, Enqueue,
     StartEnqueue
<1>2. status' \in [Jobs -> Status]
  BY DEF QueueInv, TypeOK, JobTypeOK, Start, StartStep, StartCreate, StartAdmit, StartReject,
     StartNotify, Enqueue, StartEnqueue, Status, Terminal, NonTerminal
<1>3. call' \in [Jobs -> CallPcs]
  BY DEF QueueInv, TypeOK, JobTypeOK, Start, StartStep, StartCreate, StartAdmit, StartReject,
     StartNotify, Enqueue, StartEnqueue, CallPcs
<1>4. notes' \in [Jobs -> Seq(Terminal)]
  <2>1. CASE UNCHANGED notes
    BY <2>1 DEF QueueInv, TypeOK, JobTypeOK
  <2>2. CASE notes' = [notes EXCEPT ![j] = Append(@, "failed")]
    <3>1. Append(notes[j], "failed") \in Seq(Terminal)
      BY DEF QueueInv, TypeOK, JobTypeOK, Terminal
    <3> QED
      BY <2>2, <3>1 DEF QueueInv, TypeOK, JobTypeOK
  <2> QED
    BY <2>1, <2>2 DEF Start, StartStep, StartCreate, StartAdmit, StartReject, StartNotify,
       Enqueue, StartEnqueue
<1>5. /\ bull' \in [Jobs -> {"none", "waiting", "active", "failed"}] /\ tries' \in [Jobs -> Nat]
      /\ \A k \in Jobs : bull[k] = "active" => bull'[k] = "active"
  BY DEF QueueInv, TypeOK, Start, Enqueue, BullAdd, queueVars
<1>6. TypeOK'
  BY <1>1, <1>2, <1>3, <1>4, <1>5 DEF QueueInv, TypeOK, JobTypeOK, workerVars
<1>7. OneDelivery'
  BY <1>1, <1>5 DEF QueueInv, OneDelivery, Busy
<1> QED
  BY <1>6, <1>7 DEF QueueInv

\* A waiting id is held by no slot; the one it is delivered to becomes busy.
LEMMA DispatchKeepsQueue ==
  ASSUME QueueInv, NEW s \in Slots, NEW j \in Jobs, Dispatch(s, j)
  PROVE  QueueInv'
<1>1. /\ exec[s].pc = "idle" /\ bull[j] = "waiting" /\ bull' = [bull EXCEPT ![j] = "active"]
      /\ UNCHANGED <<status, log, runs, notes, call, late, tries, workerVars>>
  BY DEF Dispatch, RunDeliver
<1>2. PICK final \in BOOLEAN : RunDeliver(s, j, final)
  BY DEF Dispatch
<1>3. [pc |-> "get", job |-> j, seen |-> "absent", last |-> final, num |-> 0, sent |-> 0]
        \in Invocation
  BY DEF Invocation, RunPcs, Status
<1>4. /\ exec' \in [Slots -> Invocation] /\ exec'[s].job = j
      /\ \A t \in Slots \ {s} : exec'[t] = exec[t]
  BY <1>2, <1>3 DEF RunDeliver, QueueInv, TypeOK, JobTypeOK
<1>5. TypeOK'
  BY <1>1, <1>4 DEF QueueInv, TypeOK, JobTypeOK, workerVars
<1>6. OneDelivery'
  BY <1>1, <1>4 DEF QueueInv, TypeOK, OneDelivery, Busy
<1> QED
  BY <1>5, <1>6 DEF QueueInv

\* A step of run() moves its own slot and writes its own job's records.
LEMMA StepKeepsQueue ==
  ASSUME QueueInv, NEW s \in Slots, Step(s)
  PROVE  QueueInv'
<1> DEFINE j == exec[s].job
<1>1. UNCHANGED <<call, bull, tries, workerVars>>
  BY DEF Step, RunStep, RunGet, RunGateAdmit, RunGateReject, RunClear, RunBegin, RunAppend,
     RunDone, RunThrow, RunTimeout, Fail, RunNotify, queueVars
<1>2. Busy(s)
  BY DEF Step, RunStep, Busy, RunGet, RunGateAdmit, RunGateReject, RunClear, RunBegin,
     RunAppend, RunDone, RunThrow, RunTimeout, Fail, RunNotify
<1>3. /\ j \in Jobs /\ exec[s] \in Invocation /\ exec \in [Slots -> Invocation]
      /\ status \in [Jobs -> Status] /\ log \in [Jobs -> Seq(Nat \X Nat)]
      /\ runs \in [Jobs -> Nat] /\ notes \in [Jobs -> Seq(Terminal)]
      /\ late \subseteq [slot : Slots, job : Jobs, num : Nat, sent : Nat]
  BY <1>2 DEF QueueInv, OneDelivery, TypeOK, JobTypeOK
<1>4. SUFFICES /\ status' \in [Jobs -> Status] /\ log' \in [Jobs -> Seq(Nat \X Nat)]
               /\ runs' \in [Jobs -> Nat] /\ notes' \in [Jobs -> Seq(Terminal)]
               /\ late' \subseteq [slot : Slots, job : Jobs, num : Nat, sent : Nat]
               /\ exec' \in [Slots -> Invocation] /\ exec'[s].job = j
               /\ \A t \in Slots \ {s} : exec'[t] = exec[t]
  <2>1. TypeOK'
    BY <1>1, <1>4 DEF QueueInv, TypeOK, JobTypeOK, workerVars
  <2>2. UNCHANGED bull /\ bull[j] = "active"
    BY <1>1, <1>2 DEF QueueInv, OneDelivery, queueVars
  <2>3. \A t \in Slots : exec'[t].pc # "idle" => Busy(t) /\ exec'[t].job = exec[t].job
    BY <1>2, <1>4 DEF Busy
  <2>4. OneDelivery'
    <3>1. ASSUME NEW t \in Slots, exec'[t].pc # "idle"
          PROVE  exec'[t].job \in Jobs /\ bull'[exec'[t].job] = "active"
      BY <2>2, <2>3, <3>1 DEF QueueInv, OneDelivery
    <3>2. ASSUME NEW t \in Slots, NEW u \in Slots, exec'[t].pc # "idle",
                 exec'[u].pc # "idle", t # u
          PROVE  exec'[t].job # exec'[u].job
      BY <2>3, <3>2 DEF QueueInv, OneDelivery
    <3> QED
      BY <3>1, <3>2 DEF OneDelivery, Busy
  <2> QED
    BY <2>1, <2>4 DEF QueueInv
<1> USE <1>3 DEF Terminal, NonTerminal, Status, RunPcs
<1>5. CASE RunGet(s)
  <2>1. UNCHANGED <<status, log, runs, notes, late>> /\ status[j] \in Status
    BY <1>5 DEF RunGet
  <2>2. exec' \in [Slots -> Invocation]
    BY <1>5, <2>1 DEF RunGet, Invocation
  <2>3. exec'[s].job = j /\ \A t \in Slots \ {s} : exec'[t] = exec[t]
    BY <1>5 DEF RunGet, Invocation
  <2> QED
    BY <2>1, <2>2, <2>3
<1>6. CASE RunGateAdmit(s)
  <2>1. UNCHANGED <<status, log, runs, notes, late>>
    BY <1>6 DEF RunGateAdmit
  <2>2. exec' \in [Slots -> Invocation]
    BY <1>6 DEF RunGateAdmit, Goto, Invocation
  <2>3. exec'[s].job = j /\ \A t \in Slots \ {s} : exec'[t] = exec[t]
    BY <1>6 DEF RunGateAdmit, Goto, Invocation
  <2> QED
    BY <2>1, <2>2, <2>3
<1>7. CASE RunClear(s)
  <2>1. log' \in [Jobs -> Seq(Nat \X Nat)] /\ UNCHANGED <<status, runs, notes, late>>
    BY <1>7 DEF RunClear
  <2>2. exec' \in [Slots -> Invocation]
    BY <1>7 DEF RunClear, Goto, Invocation
  <2>3. exec'[s].job = j /\ \A t \in Slots \ {s} : exec'[t] = exec[t]
    BY <1>7 DEF RunClear, Goto, Invocation
  <2> QED
    BY <2>1, <2>2, <2>3
<1>8. CASE RunBegin(s)
  <2>1. /\ status' \in [Jobs -> Status] /\ runs' \in [Jobs -> Nat]
        /\ UNCHANGED <<log, notes, late>> /\ runs[j] + 1 \in Nat
    BY <1>8 DEF RunBegin
  <2>2. exec' \in [Slots -> Invocation]
    BY <1>8, <2>1 DEF RunBegin, Invocation
  <2>3. exec'[s].job = j /\ \A t \in Slots \ {s} : exec'[t] = exec[t]
    BY <1>8 DEF RunBegin, Invocation
  <2> QED
    BY <2>1, <2>2, <2>3
<1>9. CASE RunGateReject(s)
  <2>1. status' \in [Jobs -> Status] /\ UNCHANGED <<log, runs, notes, late>>
    BY <1>9 DEF RunGateReject
  <2>2. exec' \in [Slots -> Invocation]
    BY <1>9 DEF RunGateReject, Invocation
  <2>3. exec'[s].job = j /\ \A t \in Slots \ {s} : exec'[t] = exec[t]
    BY <1>9 DEF RunGateReject, Invocation
  <2> QED
    BY <2>1, <2>2, <2>3
<1>10. CASE RunDone(s)
  <2>1. status' \in [Jobs -> Status] /\ UNCHANGED <<log, runs, notes, late>>
    BY <1>10 DEF RunDone
  <2>2. exec' \in [Slots -> Invocation]
    BY <1>10 DEF RunDone, Invocation
  <2>3. exec'[s].job = j /\ \A t \in Slots \ {s} : exec'[t] = exec[t]
    BY <1>10 DEF RunDone, Invocation
  <2> QED
    BY <2>1, <2>2, <2>3
<1>11. CASE RunAppend(s)
  <2>1. /\ exec[s].sent + 1 \in Nat /\ exec[s].num \in Nat
        /\ <<exec[s].num, exec[s].sent + 1>> \in Nat \X Nat
    BY DEF Invocation
  <2>2. Append(log[j], <<exec[s].num, exec[s].sent + 1>>) \in Seq(Nat \X Nat)
    BY <2>1
  <2> QED
    BY <1>11, <2>1, <2>2 DEF RunAppend, Invocation
<1>12. CASE Fail(s) /\ UNCHANGED late
  BY <1>12 DEF Fail, Invocation
<1>13. CASE RunTimeout(s)
  <2>1. /\ status' \in [Jobs -> Status] /\ UNCHANGED <<log, runs, notes>>
        /\ exec' \in [Slots -> Invocation] /\ exec'[s].job = j
        /\ \A t \in Slots \ {s} : exec'[t] = exec[t]
    BY <1>13 DEF RunTimeout, Fail, Invocation
  <2>2. exec[s].num \in Nat /\ exec[s].sent \in Nat
    BY DEF Invocation
  <2>3. late' \subseteq [slot : Slots, job : Jobs, num : Nat, sent : Nat]
    BY <1>13, <2>2 DEF RunTimeout
  <2> QED
    BY <2>1, <2>3
<1>14. ASSUME NEW delivered \in BOOLEAN, RunNotify(s, delivered)
       PROVE  /\ UNCHANGED <<status, log, runs, late>> /\ notes' \in [Jobs -> Seq(Terminal)]
              /\ exec' \in [Slots -> Invocation] /\ exec'[s].job = j
              /\ \A t \in Slots \ {s} : exec'[t] = exec[t]
  <2>1. \A how \in Terminal : Append(notes[j], how) \in Seq(Terminal)
    OBVIOUS
  <2> QED
    BY <1>14, <2>1 DEF RunNotify, Goto, Invocation
<1> QED
  BY <1>5, <1>6, <1>7, <1>8, <1>9, <1>10, <1>11, <1>12, <1>13, <1>14
     DEF Step, RunStep, RunThrow

\* The slots of S fall idle; what they held may become anything.
LEMMA IdleKeepsQueue ==
  ASSUME QueueInv, NEW S \in SUBSET Slots,
         exec' = [s \in Slots |-> IF s \in S THEN Idle ELSE exec[s]],
         \A t \in Slots \ S : Busy(t) => bull'[exec[t].job] = "active"
  PROVE  exec' \in [Slots -> Invocation] /\ OneDelivery'
<1>1. Idle \in Invocation /\ Idle.pc = "idle"
  BY DEF Idle, Invocation, RunPcs, Status
<1>2. \A t \in Slots : exec'[t] = IF t \in S THEN Idle ELSE exec[t]
  OBVIOUS
<1>3. OneDelivery'
  BY <1>1, <1>2 DEF QueueInv, OneDelivery, Busy
<1> QED
  BY <1>1, <1>3 DEF QueueInv, TypeOK, JobTypeOK

LEMMA EndKeepsQueue ==
  ASSUME QueueInv, NEW s \in Slots, Ack(s) \/ Nack(s)
  PROVE  QueueInv'
<1> DEFINE j == exec[s].job
<1>1. /\ Busy(s) /\ exec' = [exec EXCEPT ![s] = Idle]
      /\ UNCHANGED <<status, log, runs, notes, call, late, workerVars>>
  BY DEF Ack, Nack, RunEnd, Busy
<1>2. j \in Jobs /\ \A t \in Slots \ {s} : Busy(t) => exec[t].job \in Jobs \ {j}
  BY <1>1 DEF QueueInv, OneDelivery
<1>3. /\ bull' \in [Jobs -> {"none", "waiting", "active", "failed"}] /\ tries' \in [Jobs -> Nat]
      /\ \A k \in Jobs \ {j} : bull'[k] = bull[k]
  BY <1>2 DEF Ack, Nack, QueueInv, TypeOK
<1>4. exec' = [t \in Slots |-> IF t \in {s} THEN Idle ELSE exec[t]]
  BY <1>1 DEF QueueInv, TypeOK, JobTypeOK
<1>5. \A t \in Slots \ {s} : Busy(t) => bull'[exec[t].job] = "active"
  BY <1>2, <1>3 DEF QueueInv, OneDelivery
<1>6. exec' \in [Slots -> Invocation] /\ OneDelivery'
  <2> DEFINE S == {s}
  <2>1. S \in SUBSET Slots /\ exec' = [t \in Slots |-> IF t \in S THEN Idle ELSE exec[t]]
    BY <1>4
  <2>2. \A t \in Slots \ S : Busy(t) => bull'[exec[t].job] = "active"
    BY <1>5
  <2> HIDE DEF S
  <2> QED
    BY <2>1, <2>2, IdleKeepsQueue
<1> QED
  BY <1>1, <1>3, <1>6 DEF QueueInv, TypeOK, JobTypeOK, workerVars

\* A worker that exits or dies takes its slots with it, and the queue still
\* says "active" of what they held.
LEMMA ExitKeepsQueue ==
  ASSUME QueueInv, NEW w \in Workers, WorkerExit(w) \/ WorkerCrash(w)
  PROVE  QueueInv'
<1>1. /\ exec' = [s \in Slots |-> IF s \in SlotsOf(w) THEN Idle ELSE exec[s]]
      /\ late' \subseteq late
      /\ UNCHANGED <<status, log, runs, notes, call, bull, tries>>
  BY DEF WorkerExit, WorkerCrash, LoseRuns, queueVars
<1>2. SlotsOf(w) \in SUBSET Slots
  BY DEF SlotsOf
<1>3. \A t \in Slots \ SlotsOf(w) : Busy(t) => bull'[exec[t].job] = "active"
  BY <1>1 DEF QueueInv, OneDelivery
<1>4. exec' \in [Slots -> Invocation] /\ OneDelivery'
  BY <1>1, <1>2, <1>3, IdleKeepsQueue
<1>5. /\ worker' \in [Workers -> WorkerPcs] /\ pending' \in [Workers -> SUBSET Jobs]
      /\ stale' \in [Workers -> SUBSET Jobs] /\ crashes' \in Nat /\ starts' \in Nat
  BY DEF WorkerExit, WorkerCrash, QueueInv, TypeOK, WorkerPcs
<1> QED
  BY <1>1, <1>4, <1>5 DEF QueueInv, TypeOK, JobTypeOK

\* A worker's main() adds ids that are not in the queue and rewrites records.
LEMMA BootKeepsQueue ==
  ASSUME QueueInv, NEW w \in Workers, Boot(w) \/ WorkerDrain(w)
  PROVE  QueueInv'
<1> USE DEF Boot, WorkerStart, WorkerList, WorkerRelist, WorkerReconcile, WorkerReconciled,
            WorkerRequeue, WorkerReady, WorkerDrain
<1>1. /\ status' \in [Jobs -> Status] /\ UNCHANGED <<log, runs, notes, call, exec, late>>
  BY DEF ReconcileSave, jobVars, QueueInv, TypeOK, JobTypeOK, Status
<1>2. /\ bull' \in [Jobs -> {"none", "waiting", "active", "failed"}] /\ tries' \in [Jobs -> Nat]
      /\ \A k \in Jobs : bull[k] = "active" => bull'[k] = "active"
  BY DEF BullAdd, queueVars, QueueInv, TypeOK
<1>3. worker' \in [Workers -> WorkerPcs]
  BY DEF QueueInv, TypeOK, WorkerPcs
<1>4. pending' \in [Workers -> SUBSET Jobs] /\ stale' \in [Workers -> SUBSET Jobs]
  BY DEF QueueInv, TypeOK, Listed
<1>5. crashes' \in Nat /\ starts' \in Nat
  BY DEF QueueInv, TypeOK
<1>6. OneDelivery'
  BY <1>1, <1>2 DEF QueueInv, OneDelivery, Busy
<1> QED
  BY <1>1, <1>2, <1>3, <1>4, <1>5, <1>6 DEF QueueInv, TypeOK, JobTypeOK

\* What nobody holds is delivered again; the web server loses its calls; a
\* generator that was timed out writes on.
LEMMA OthersKeepQueue ==
  ASSUME QueueInv, WebCrash \/ Leftover \/ \E j \in Jobs : Stalled(j)
  PROVE  QueueInv'
<1>1. CASE WebCrash
  <2>1. call' \in [Jobs -> CallPcs] /\ crashes' \in Nat
    BY <1>1 DEF WebCrash, LoseCalls, QueueInv, TypeOK, JobTypeOK, CallPcs
  <2> QED
    BY <1>1, <2>1 DEF WebCrash, QueueInv, TypeOK, JobTypeOK, OneDelivery, Busy, queueVars
<1>2. CASE Leftover
  <2>1. PICK g \in late : LateAppend(g) /\ UNCHANGED <<queueVars, workerVars>>
    BY <1>2 DEF Leftover
  <2>2. g \in [slot : Slots, job : Jobs, num : Nat, sent : Nat]
    BY DEF QueueInv, TypeOK, JobTypeOK
  <2>3. <<g.num, g.sent + 1>> \in Nat \X Nat /\ log[g.job] \in Seq(Nat \X Nat)
    BY <2>2 DEF QueueInv, TypeOK, JobTypeOK
  <2>4. Append(log[g.job], <<g.num, g.sent + 1>>) \in Seq(Nat \X Nat)
    BY <2>3
  <2>5. log' \in [Jobs -> Seq(Nat \X Nat)]
    BY <2>1, <2>4 DEF LateAppend, QueueInv, TypeOK, JobTypeOK
  <2>6. [g EXCEPT !.sent = @ + 1] \in [slot : Slots, job : Jobs, num : Nat, sent : Nat]
    BY <2>2
  <2>7. late' \subseteq [slot : Slots, job : Jobs, num : Nat, sent : Nat]
    BY <2>1, <2>6 DEF LateAppend, QueueInv, TypeOK, JobTypeOK
  <2>8. UNCHANGED <<status, runs, notes, call, exec, queueVars, workerVars>>
    BY <2>1 DEF LateAppend
  <2>9. TypeOK'
    BY <2>5, <2>7, <2>8 DEF QueueInv, TypeOK, JobTypeOK, queueVars, workerVars
  <2>10. OneDelivery'
    BY <2>8 DEF QueueInv, OneDelivery, Busy, queueVars
  <2> QED
    BY <2>9, <2>10 DEF QueueInv
<1>3. ASSUME NEW j \in Jobs, Stalled(j)
      PROVE  QueueInv'
  <2>1. /\ bull' = [bull EXCEPT ![j] = "waiting"] /\ UNCHANGED <<jobVars, tries, workerVars>>
        /\ \A s \in Slots : Busy(s) => exec[s].job # j
    BY <1>3 DEF Stalled, Live, Busy
  <2>2. TypeOK'
    BY <2>1 DEF QueueInv, TypeOK, JobTypeOK, jobVars, workerVars
  <2>3. OneDelivery'
    BY <2>1 DEF QueueInv, TypeOK, OneDelivery, Busy, jobVars
  <2> QED
    BY <2>2, <2>3 DEF QueueInv
<1> QED
  BY <1>1, <1>2, <1>3

LEMMA QueueInitEstablishes == Init => QueueInv
<1> SUFFICES ASSUME Init PROVE QueueInv
  OBVIOUS
<1>1. Idle \in Invocation /\ Idle.pc = "idle"
  BY DEF Idle, Invocation, RunPcs, Status
<1>2. TypeOK
  BY <1>1 DEF Init, JobInit, TypeOK, JobTypeOK, Status, CallPcs, WorkerPcs
<1>3. OneDelivery
  BY <1>1 DEF Init, JobInit, OneDelivery, Busy
<1> QED
  BY <1>2, <1>3 DEF QueueInv

LEMMA QueueNextPreserves == QueueInv /\ [Next]_vars => QueueInv'
<1> SUFFICES ASSUME QueueInv, [Next]_vars PROVE QueueInv'
  OBVIOUS
<1>1. CASE UNCHANGED vars
  BY <1>1 DEF vars, jobVars, queueVars, workerVars, QueueInv, TypeOK, JobTypeOK, OneDelivery, Busy
<1>2. CASE Next
  BY <1>2, StartKeepsQueue, DispatchKeepsQueue, StepKeepsQueue, EndKeepsQueue, ExitKeepsQueue,
     BootKeepsQueue, OthersKeepQueue DEF Next
<1> QED
  BY <1>1, <1>2

\* Every variable keeps its type.
THEOREM TypeCorrect == Spec => []TypeOK
<1>1. QueueInv => TypeOK
  BY DEF QueueInv
<1> QED
  BY <1>1, QueueInitEstablishes, QueueNextPreserves, PTL DEF Spec

\* Two workers never execute the same job at the same time (adapters/queue/redis
\* enqueue, index.ts of the worker).
THEOREM NeverTwoExecutors == Spec => []OneExecutor
<1>1. QueueInv => OneExecutor
  BY DEF QueueInv, OneDelivery, OneExecutor, Executing, Busy
<1> QED
  BY <1>1, QueueInitEstablishes, QueueNextPreserves, PTL DEF Spec

-----------------------------------------------------------------------------
(* While no run is timed out (Timeouts is FALSE, JOB_TIMEOUT_MS unset).    *)

\* run() is between the read of the record and its last write of it.
Held(s) == exec[s].pc \in {"gate", "clear", "begin", "stream"}

Written(r, n) == [k \in 1..n |-> <<r, k>>]

\* Only what was created can be listed, only what ran has rows, and what is
\* done has the rows of one run.
JobSerial(j) ==
  /\ call[j] = "none" => status[j] = "absent" /\ \A w \in Workers : j \notin stale[w]
  /\ status[j] \in {"absent", "queued"} => log[j] = <<>>
  /\ status[j] = "done" => \E r \in 1..runs[j] : log[j] = Written(r, Events)

\* The run-log of a job that is held is what the holder wrote.
SlotSerial(s) ==
  /\ exec[s].pc \in {"get", "gate", "clear", "begin"} => exec[s].sent = 0
  /\ Held(s) =>
       LET j == exec[s].job
       IN  /\ call[j] # "none" /\ status[j] # "done"
           /\ exec[s].pc = "gate" /\ exec[s].seen # "interrupted" => log[j] = <<>>
           /\ exec[s].pc = "begin" => log[j] = <<>>
           /\ exec[s].pc = "stream" =>
                /\ status[j] \notin {"absent", "queued"}
                /\ exec[s].num \in 1..runs[j] /\ exec[s].sent \in 0..Events
                /\ log[j] = Written(exec[s].num, exec[s].sent)

SerialInv ==
  /\ QueueInv
  /\ late = {}
  /\ \A j \in Jobs : JobSerial(j)
  /\ \A s \in Slots : SlotSerial(s)

\* What a step that is not run()'s own does to a slot and to a record.
Aside(s) ==
  exec'[s] = exec[s] \/ (exec'[s].pc \in {"idle", "get"} /\ exec'[s].sent = 0)

Rewritten(j) ==
  /\ call'[j] = "none" => call[j] = "none" /\ status'[j] = status[j]
  /\ \/ status'[j] = status[j]
     \/ status'[j] \in {"failed", "interrupted"}
     \/ status'[j] = "queued" /\ call[j] = "none"

\* A step that writes no rows, and rewrites a record only to "failed" or
\* "interrupted", or to "queued" when it creates it, disturbs nothing.
LEMMA RecordsKeepSerial ==
  ASSUME SerialInv, QueueInv', late' \subseteq late, UNCHANGED <<log, runs>>,
         \A s \in Slots : Aside(s), \A j \in Jobs : Rewritten(j),
         \A w \in Workers : \A j \in stale'[w] : call'[j] # "none"
  PROVE  SerialInv'
<1>1. ASSUME NEW j \in Jobs
      PROVE  JobSerial(j)'
  BY DEF SerialInv, JobSerial, Rewritten
<1>2. ASSUME NEW s \in Slots
      PROVE  SlotSerial(s)'
  <2>1. CASE exec'[s].pc \in {"idle", "get"} /\ exec'[s].sent = 0
    BY <2>1 DEF SlotSerial, Held
  <2>2. CASE exec'[s] = exec[s] /\ Held(s)
    <3>1. exec[s].job \in Jobs
      BY <2>2 DEF SerialInv, QueueInv, OneDelivery, Busy, Held
    <3> QED
      BY <2>2, <3>1 DEF SerialInv, SlotSerial, Held, Rewritten
  <2>3. CASE exec'[s] = exec[s] /\ ~Held(s)
    BY <2>3 DEF SerialInv, SlotSerial, Held
  <2> QED
    BY <2>1, <2>2, <2>3 DEF Aside
<1> QED
  BY <1>1, <1>2 DEF SerialInv

\* A step of run() concerns the job it holds and no other slot.
LEMMA HolderKeepsSerial ==
  ASSUME SerialInv, QueueInv', NEW s \in Slots, NEW j \in Jobs, Busy(s), exec[s].job = j,
         UNCHANGED <<call, stale, late>>,
         \A t \in Slots \ {s} : exec'[t] = exec[t],
         \A k \in Jobs \ {j} : status'[k] = status[k] /\ log'[k] = log[k] /\ runs'[k] = runs[k],
         JobSerial(j)', SlotSerial(s)'
  PROVE  SerialInv'
<1>1. ASSUME NEW k \in Jobs \ {j}
      PROVE  JobSerial(k)'
  BY DEF SerialInv, JobSerial
<1>2. ASSUME NEW t \in Slots \ {s}
      PROVE  SlotSerial(t)'
  <2>1. CASE Held(t)
    <3>1. exec[t].job \in Jobs \ {j}
      BY <2>1 DEF SerialInv, QueueInv, OneDelivery, Busy, Held
    <3> QED
      BY <2>1, <3>1 DEF SerialInv, SlotSerial, Held
  <2>2. CASE ~Held(t)
    BY <2>2 DEF SerialInv, SlotSerial, Held
  <2> QED
    BY <2>1, <2>2
<1>3. \A k \in Jobs : JobSerial(k)'
  BY <1>1
<1>4. \A t \in Slots : SlotSerial(t)'
  BY <1>2
<1> QED
  BY <1>3, <1>4 DEF SerialInv

LEMMA WrittenGrows ==
  ASSUME NEW r \in Nat, NEW n \in Nat
  PROVE  Append(Written(r, n), <<r, n + 1>>) = Written(r, n + 1)
<1>1. Written(r, n) \in Seq(Nat \X Nat) /\ Len(Written(r, n)) = n
  BY DEF Written
<1> QED
  BY <1>1 DEF Written

\* The await points of run() while no run can be timed out.
LEMMA StepKeepsSerial ==
  ASSUME ~Timeouts, SerialInv, QueueInv', NEW s \in Slots, NEW j \in Jobs, exec[s].job = j,
         Step(s)
  PROVE  SerialInv'
<1>1. Busy(s) /\ UNCHANGED <<call, stale>>
  BY DEF Step, RunStep, Busy, RunGet, RunGateAdmit, RunGateReject, RunClear, RunBegin,
     RunAppend, RunDone, RunThrow, RunTimeout, Fail, RunNotify, workerVars
<1>2. /\ exec \in [Slots -> Invocation] /\ exec[s] \in Invocation /\ status \in [Jobs -> Status]
      /\ log \in [Jobs -> Seq(Nat \X Nat)] /\ runs \in [Jobs -> Nat]
      /\ JobSerial(j) /\ SlotSerial(s)
  BY DEF SerialInv, QueueInv, TypeOK, JobTypeOK
<1>3. CASE RunGet(s)
  <2>1. /\ UNCHANGED <<status, log, runs, late>> /\ exec'[s].job = j
        /\ \A t \in Slots \ {s} : exec'[t] = exec[t]
        /\ exec'[s].seen = status[j] /\ exec[s].pc = "get" /\ exec'[s].sent = exec[s].sent
        /\ exec'[s].pc = IF status[j] \in Runnable THEN "gate" ELSE "return"
    BY <1>2, <1>3 DEF RunGet, Invocation
  <2>2. JobSerial(j)'
    BY <1>1, <1>2, <2>1 DEF JobSerial
  <2>3. SlotSerial(s)'
    BY <1>1, <1>2, <2>1 DEF SlotSerial, Held, JobSerial, Runnable
  <2> QED
    BY <1>1, <2>1, <2>2, <2>3, HolderKeepsSerial
<1>4. CASE RunGateAdmit(s)
  <2>1. /\ UNCHANGED <<status, log, runs, late>> /\ exec'[s].job = j
        /\ \A t \in Slots \ {s} : exec'[t] = exec[t]
        /\ exec'[s].pc = IF exec[s].seen = "interrupted" THEN "clear" ELSE "begin"
        /\ exec[s].pc = "gate" /\ exec'[s].sent = exec[s].sent
    BY <1>2, <1>4 DEF RunGateAdmit, Goto, Invocation
  <2>2. JobSerial(j)'
    BY <1>1, <1>2, <2>1 DEF JobSerial
  <2>3. SlotSerial(s)'
    BY <1>1, <1>2, <2>1 DEF SlotSerial, Held
  <2> QED
    BY <1>1, <2>1, <2>2, <2>3, HolderKeepsSerial
<1>5. CASE RunClear(s)
  <2>1. /\ UNCHANGED <<status, runs, late>> /\ log'[j] = <<>> /\ exec'[s].job = j
        /\ \A t \in Slots \ {s} : exec'[t] = exec[t]
        /\ \A k \in Jobs \ {j} : log'[k] = log[k]
        /\ exec'[s].pc = "begin" /\ exec[s].pc = "clear" /\ exec'[s].sent = exec[s].sent
    BY <1>2, <1>5 DEF RunClear, Goto, Invocation
  <2>2. call[j] # "none" /\ status[j] # "done" /\ exec[s].sent = 0
    BY <1>2, <2>1 DEF SlotSerial, Held
  <2>3. JobSerial(j)'
    BY <1>1, <2>1, <2>2 DEF JobSerial
  <2>4. SlotSerial(s)'
    BY <1>1, <2>1, <2>2 DEF SlotSerial, Held
  <2> QED
    BY <1>1, <2>1, <2>3, <2>4, HolderKeepsSerial
<1>6. CASE RunBegin(s)
  <2>1. /\ UNCHANGED <<log, late>> /\ status'[j] = "running" /\ runs'[j] = runs[j] + 1
        /\ \A k \in Jobs \ {j} : status'[k] = status[k] /\ runs'[k] = runs[k]
        /\ exec[s].pc = "begin" /\ runs[j] \in Nat
    BY <1>2, <1>6 DEF RunBegin
  <2>2. /\ exec'[s].job = j /\ exec'[s].pc = "stream" /\ exec'[s].num = runs[j] + 1
        /\ exec'[s].sent = exec[s].sent
        /\ \A t \in Slots \ {s} : exec'[t] = exec[t]
    BY <1>2, <1>6 DEF RunBegin, Invocation
  <2>3. call[j] # "none" /\ log[j] = <<>> /\ exec[s].sent = 0
    BY <1>2, <2>1 DEF SlotSerial, Held
  <2>4. JobSerial(j)'
    BY <1>1, <2>1, <2>3 DEF JobSerial
  <2>5. Written(runs[j] + 1, 0) = <<>>
    BY DEF Written
  <2>6. SlotSerial(s)'
    BY <1>1, <2>1, <2>2, <2>3, <2>5 DEF SlotSerial, Held
  <2> QED
    BY <1>1, <2>1, <2>2, <2>4, <2>6, HolderKeepsSerial
<1>7. CASE RunAppend(s)
  <2> DEFINE n == exec[s].sent
             r == exec[s].num
  <2>1. /\ UNCHANGED <<status, runs, late>> /\ exec[s].pc = "stream" /\ n < Events
        /\ log'[j] = Append(log[j], <<r, n + 1>>)
        /\ \A k \in Jobs \ {j} : log'[k] = log[k]
    BY <1>2, <1>7 DEF RunAppend
  <2>2. /\ exec'[s].job = j /\ exec'[s].pc = "stream" /\ exec'[s].num = r
        /\ exec'[s].sent = n + 1
        /\ \A t \in Slots \ {s} : exec'[t] = exec[t]
    BY <1>2, <1>7 DEF RunAppend, Invocation
  <2>3. /\ call[j] # "none" /\ status[j] \notin {"absent", "queued", "done"}
        /\ r \in 1..runs[j] /\ n \in 0..Events /\ log[j] = Written(r, n)
    BY <1>2, <2>1 DEF SlotSerial, Held
  <2>4. r \in Nat /\ n \in Nat
    BY <1>2 DEF Invocation
  <2> HIDE DEF n, r
  <2>5. n + 1 \in 0..Events
    BY <2>1, <2>3
  <2>6. JobSerial(j)'
    BY <1>1, <2>1, <2>3 DEF JobSerial
  <2>7. log'[j] = Written(r, n + 1)
    BY <2>1, <2>3, <2>4, WrittenGrows
  <2>8. SlotSerial(s)'
    BY <1>1, <2>1, <2>2, <2>3, <2>5, <2>7 DEF SlotSerial, Held
  <2> QED
    BY <1>1, <2>1, <2>2, <2>6, <2>8, HolderKeepsSerial
<1>8. CASE RunDone(s)
  <2>1. /\ UNCHANGED <<log, runs, late>> /\ status'[j] = "done"
        /\ exec[s].pc = "stream" /\ exec[s].sent = Events
        /\ \A k \in Jobs \ {j} : status'[k] = status[k]
    BY <1>2, <1>8 DEF RunDone
  <2>2. /\ exec'[s].job = j /\ exec'[s].pc = "notify"
        /\ \A t \in Slots \ {s} : exec'[t] = exec[t]
    BY <1>2, <1>8 DEF RunDone, Invocation
  <2>3. /\ call[j] # "none" /\ exec[s].num \in 1..runs[j]
        /\ log[j] = Written(exec[s].num, Events)
    BY <1>2, <2>1 DEF SlotSerial, Held
  <2>4. JobSerial(j)'
    BY <1>1, <2>1, <2>3 DEF JobSerial
  <2>5. SlotSerial(s)'
    BY <2>2 DEF SlotSerial, Held
  <2> QED
    BY <1>1, <2>1, <2>2, <2>4, <2>5, HolderKeepsSerial
<1>9. CASE RunGateReject(s) \/ RunThrow(s)
  <2>1. /\ UNCHANGED <<log, runs, late>> /\ status'[j] \in {"failed", "interrupted"} /\ Held(s)
        /\ \A k \in Jobs \ {j} : status'[k] = status[k]
    BY <1>2, <1>9 DEF RunGateReject, RunThrow, Fail, Held
  <2>2. /\ exec'[s].job = j /\ exec'[s].pc \in {"notify", "throw"}
        /\ \A t \in Slots \ {s} : exec'[t] = exec[t]
    BY <1>2, <1>9 DEF RunGateReject, RunThrow, Fail, Invocation
  <2>3. call[j] # "none"
    BY <1>2, <2>1 DEF SlotSerial
  <2>4. JobSerial(j)'
    BY <1>1, <2>1, <2>3 DEF JobSerial
  <2>5. SlotSerial(s)'
    BY <2>2 DEF SlotSerial, Held
  <2> QED
    BY <1>1, <2>1, <2>2, <2>4, <2>5, HolderKeepsSerial
<1>10. CASE \E delivered \in BOOLEAN : RunNotify(s, delivered)
  <2>1. /\ UNCHANGED <<status, log, runs, late>> /\ exec'[s].job = j
        /\ exec'[s].pc \in {"return", "throw"}
        /\ \A t \in Slots \ {s} : exec'[t] = exec[t]
    BY <1>2, <1>10 DEF RunNotify, Goto, Invocation
  <2>2. JobSerial(j)'
    BY <1>1, <1>2, <2>1 DEF JobSerial
  <2>3. SlotSerial(s)'
    BY <2>1 DEF SlotSerial, Held
  <2> QED
    BY <1>1, <2>1, <2>2, <2>3, HolderKeepsSerial
<1> QED
  BY <1>3, <1>4, <1>5, <1>6, <1>7, <1>8, <1>9, <1>10 DEF Step, RunStep, RunTimeout

\* start(), the queue and the workers' main() rewrite records only.
LEMMA RecordStepsKeepSerial ==
  ASSUME SerialInv, QueueInv',
         \/ \E j \in Jobs : Start(j) \/ Enqueue(j) \/ Stalled(j)
         \/ WebCrash
         \/ \E s \in Slots, j \in Jobs : Dispatch(s, j)
         \/ \E s \in Slots : Ack(s) \/ Nack(s)
         \/ \E w \in Workers : Boot(w) \/ WorkerDrain(w) \/ WorkerExit(w) \/ WorkerCrash(w)
  PROVE  SerialInv'
<1>1. /\ status \in [Jobs -> Status] /\ call \in [Jobs -> CallPcs]
      /\ exec \in [Slots -> Invocation] /\ stale \in [Workers -> SUBSET Jobs]
      /\ \A j \in Jobs : call[j] = "none" =>
           status[j] = "absent" /\ \A w \in Workers : j \notin stale[w]
  BY DEF SerialInv, JobSerial, QueueInv, TypeOK, JobTypeOK
<1>2. exec' = exec => \A s \in Slots : Aside(s)
  BY DEF Aside
<1>3. ASSUME NEW j \in Jobs, Start(j)
      PROVE  SerialInv'
  <2>1. UNCHANGED <<log, runs, exec, late, stale>>
    BY <1>3 DEF Start, StartStep, StartCreate, StartAdmit, StartReject, StartNotify, workerVars
  <2>2. /\ call'[j] # "none" /\ \A k \in Jobs \ {j} : call'[k] = call[k] /\ status'[k] = status[k]
        /\ \/ status'[j] = status[j]
           \/ status'[j] = "failed"
           \/ status'[j] = "queued" /\ call[j] = "none"
    BY <1>1, <1>3 DEF Start, StartStep, StartCreate, StartAdmit, StartReject, StartNotify
  <2>3. \A k \in Jobs : Rewritten(k)
    BY <2>2 DEF Rewritten
  <2>4. \A w \in Workers : \A k \in stale'[w] : call'[k] # "none"
    BY <1>1, <2>1, <2>2
  <2> QED
    BY <1>2, <2>1, <2>3, <2>4, RecordsKeepSerial
<1>4. ASSUME NEW j \in Jobs, Enqueue(j) \/ Stalled(j)
      PROVE  SerialInv'
  <2>1. UNCHANGED <<status, log, runs, exec, late, stale>>
    BY <1>4 DEF Enqueue, StartEnqueue, Stalled, jobVars, workerVars
  <2>2. \A k \in Jobs : call'[k] = "none" => call[k] = "none"
    BY <1>1, <1>4 DEF Enqueue, StartEnqueue, Stalled, jobVars
  <2>3. \A k \in Jobs : Rewritten(k)
    BY <2>1, <2>2 DEF Rewritten
  <2>4. \A w \in Workers : \A k \in stale'[w] : call'[k] # "none"
    BY <1>1, <2>1, <2>2
  <2> QED
    BY <1>2, <2>1, <2>3, <2>4, RecordsKeepSerial
<1>5. CASE WebCrash
  <2>1. UNCHANGED <<status, log, runs, exec, late, stale>>
    BY <1>5 DEF WebCrash
  <2>2. \A k \in Jobs : call'[k] = "none" => call[k] = "none"
    BY <1>1, <1>5 DEF WebCrash, LoseCalls
  <2>3. \A k \in Jobs : Rewritten(k)
    BY <2>1, <2>2 DEF Rewritten
  <2>4. \A w \in Workers : \A k \in stale'[w] : call'[k] # "none"
    BY <1>1, <2>1, <2>2
  <2> QED
    BY <1>2, <2>1, <2>3, <2>4, RecordsKeepSerial
<1>6. Idle.pc = "idle" /\ Idle.sent = 0
  BY DEF Idle
<1>7. ASSUME UNCHANGED <<status, log, runs, call>>, late' \subseteq late,
             \A w \in Workers : stale'[w] \subseteq stale[w], \A s \in Slots : Aside(s)
      PROVE  SerialInv'
  <2>1. \A k \in Jobs : Rewritten(k)
    BY <1>7 DEF Rewritten
  <2>2. \A w \in Workers : \A k \in stale'[w] : call'[k] # "none"
    BY <1>1, <1>7
  <2> QED
    BY <1>7, <2>1, <2>2, RecordsKeepSerial
<1>8. ASSUME NEW s \in Slots, NEW j \in Jobs, Dispatch(s, j)
      PROVE  SerialInv'
  <2>1. UNCHANGED <<status, log, runs, call, late, stale>>
    BY <1>8 DEF Dispatch, RunDeliver, workerVars
  <2>2. /\ exec'[s].pc = "get" /\ exec'[s].sent = 0
        /\ \A t \in Slots \ {s} : exec'[t] = exec[t]
    BY <1>1, <1>8 DEF Dispatch, RunDeliver
  <2>3. \A t \in Slots : Aside(t)
    BY <2>2 DEF Aside
  <2> QED
    BY <2>1, <2>3, <1>7
<1>9. ASSUME NEW s \in Slots, Ack(s) \/ Nack(s)
      PROVE  SerialInv'
  <2>1. UNCHANGED <<status, log, runs, call, late, stale>>
    BY <1>9 DEF Ack, Nack, RunEnd, workerVars
  <2>2. exec'[s] = Idle /\ \A t \in Slots \ {s} : exec'[t] = exec[t]
    BY <1>1, <1>9 DEF Ack, Nack, RunEnd
  <2>3. \A t \in Slots : Aside(t)
    BY <1>6, <2>2 DEF Aside
  <2> QED
    BY <2>1, <2>3, <1>7
<1>10. ASSUME NEW w \in Workers, WorkerExit(w) \/ WorkerCrash(w)
       PROVE  SerialInv'
  <2>1. UNCHANGED <<status, log, runs, call>> /\ late' \subseteq late
    BY <1>10 DEF WorkerExit, WorkerCrash, LoseRuns
  <2>2. \A v \in Workers : stale'[v] \subseteq stale[v]
    BY <1>1, <1>10 DEF WorkerExit, WorkerCrash
  <2>3. \A t \in Slots : exec'[t] = exec[t] \/ exec'[t] = Idle
    BY <1>10 DEF WorkerExit, WorkerCrash, LoseRuns
  <2>4. \A t \in Slots : Aside(t)
    BY <1>6, <2>3 DEF Aside
  <2> QED
    BY <2>1, <2>2, <2>4, <1>7
<1>11. ASSUME NEW w \in Workers, WorkerDrain(w)
       PROVE  SerialInv'
  <2>1. UNCHANGED <<status, log, runs, call, exec, late, stale>>
    BY <1>11 DEF WorkerDrain, jobVars
  <2> QED
    BY <1>2, <2>1, <1>7
<1>12. ASSUME NEW w \in Workers, Boot(w)
       PROVE  SerialInv'
  <2> USE DEF Boot, WorkerStart, WorkerList, WorkerRelist, WorkerReconcile, WorkerReconciled,
              WorkerRequeue, WorkerReady
  <2>1. UNCHANGED <<log, runs, call, exec, late>>
    BY <1>12 DEF ReconcileSave, jobVars
  <2>2. \A j \in Jobs : \/ status'[j] = status[j]
                        \/ status'[j] = "interrupted" /\ call[j] # "none"
    BY <1>1, <1>12 DEF ReconcileSave, jobVars
  <2>3. \A v \in Workers : \A j \in stale'[v] : call[j] # "none"
    BY <1>1, <1>12 DEF Listed, NonTerminal
  <2>4. \A j \in Jobs : Rewritten(j)
    BY <2>1, <2>2 DEF Rewritten
  <2> QED
    BY <1>2, <2>1, <2>3, <2>4, RecordsKeepSerial
<1> QED
  BY <1>3, <1>4, <1>5, <1>8, <1>9, <1>10, <1>11, <1>12

LEMMA SerialInitEstablishes == Init => SerialInv
<1> SUFFICES ASSUME Init PROVE SerialInv
  OBVIOUS
<1>1. \A j \in Jobs : JobSerial(j)
  BY DEF Init, JobInit, JobSerial
<1>2. \A s \in Slots : SlotSerial(s)
  BY DEF Init, JobInit, SlotSerial, Held, Idle
<1> QED
  BY <1>1, <1>2, QueueInitEstablishes DEF SerialInv, Init, JobInit

LEMMA SerialNextPreserves ==
  ASSUME ~Timeouts, SerialInv, [Next]_vars
  PROVE  SerialInv'
<1>1. QueueInv'
  BY QueueNextPreserves DEF SerialInv
<1>2. CASE UNCHANGED vars
  <2>1. UNCHANGED <<status, log, runs, call, exec, late, stale>>
    BY <1>2 DEF vars, jobVars, workerVars
  <2>2. \A j \in Jobs : JobSerial(j)'
    BY <2>1 DEF SerialInv, JobSerial
  <2>3. \A s \in Slots : SlotSerial(s)'
    BY <2>1 DEF SerialInv, SlotSerial, Held
  <2> QED
    BY <1>1, <2>1, <2>2, <2>3 DEF SerialInv
<1>3. ASSUME NEW s \in Slots, Step(s)
      PROVE  SerialInv'
  <2>1. Busy(s)
    BY <1>3 DEF Step, RunStep, Busy, RunGet, RunGateAdmit, RunGateReject, RunClear, RunBegin,
       RunAppend, RunDone, RunThrow, RunTimeout, Fail, RunNotify
  <2>2. exec[s].job \in Jobs
    BY <2>1 DEF SerialInv, QueueInv, OneDelivery
  <2> QED
    BY <1>1, <1>3, <2>2, StepKeepsSerial
<1>4. ~Leftover
  BY DEF Leftover, SerialInv
<1> QED
  BY <1>1, <1>2, <1>3, <1>4, RecordStepsKeepSerial DEF Next

\* While no run is timed out, the runs of a job come one after the other, and
\* the run-log of a job that is done is one whole run (runner.ts run, index.ts of
\* the worker, adapters/queue/redis enqueue).
THEOREM RunsComeOneByOne == ASSUME ~Timeouts PROVE Spec => []RunsAreSerial
<1>1. SerialInv => RunsAreSerial
  <2>1. SerialInv => OneExecutor
    BY DEF SerialInv, QueueInv, OneDelivery, OneExecutor, Executing, Busy
  <2>2. SerialInv => DoneMeansOneRun
    BY DEF SerialInv, JobSerial, DoneMeansOneRun, CompleteLog, Written
  <2> QED
    BY <2>1, <2>2 DEF RunsAreSerial
<1>2. SerialInv /\ [Next]_vars => SerialInv'
  BY SerialNextPreserves
<1> QED
  BY <1>1, <1>2, SerialInitEstablishes, PTL DEF Spec

-----------------------------------------------------------------------------
(* The last attempt.  run() is told that its attempt is the last either by *)
(* the delivery context, or because there is one attempt only.             *)

AttemptIsKnown == ForwardCtx \/ Attempts = 1

\* A delivery that is due has attempts left, and one taken for the last is the last.
AttemptsCounted ==
  /\ \A j \in Jobs : bull[j] \in {"waiting", "active"} => tries[j] < Attempts
  /\ \A s \in Slots : Busy(s) /\ exec[s].last => tries[exec[s].job] + 1 = Attempts

\* A run that began ends as failed on its last attempt only.
EndsOnLast(s) ==
  /\ exec[s].pc \in {"get", "gate", "clear", "begin"} => exec[s].num = 0
  /\ exec[s].pc = "notify" /\ exec[s].seen = "failed" /\ exec[s].num > 0 => exec[s].last

AttemptInv == QueueInv /\ AttemptsCounted /\ \A s \in Slots : EndsOnLast(s)

LEMMA AttemptStarts == Init => AttemptInv
<1> SUFFICES ASSUME Init PROVE AttemptInv
  OBVIOUS
<1>1. QueueInv
  BY QueueInitEstablishes
<1>2. \A s \in Slots : exec[s] = Idle
  BY DEF Init, JobInit
<1>3. AttemptsCounted
  BY <1>2 DEF Init, AttemptsCounted, Busy, Idle
<1>4. \A s \in Slots : EndsOnLast(s)
  BY <1>2 DEF EndsOnLast, Idle
<1> QED
  BY <1>1, <1>3, <1>4 DEF AttemptInv

\* Where the slots stay and what is due keeps its count, nothing is lost; an id that is not in
\* the queue is added with none of its attempts made.
LEMMA QueueMovesKeepAttempts ==
  ASSUME AttemptInv, QueueInv',
         \A s \in Slots : exec'[s] = exec[s] \/ exec'[s].pc = "idle",
         \A j \in Jobs : \/ tries'[j] = tries[j] /\ (bull'[j] \in {"waiting", "active"} =>
                                                       bull[j] \in {"waiting", "active"})
                         \/ bull[j] # "active" /\ tries'[j] = 0
  PROVE  AttemptInv'
<1>1. \A j \in Jobs : bull'[j] \in {"waiting", "active"} => tries'[j] < Attempts
  <2>1. ASSUME NEW j \in Jobs, bull'[j] \in {"waiting", "active"}
        PROVE  tries'[j] < Attempts
    <3>1. CASE tries'[j] = tries[j] /\ bull[j] \in {"waiting", "active"}
      BY <2>1, <3>1 DEF AttemptInv, AttemptsCounted
    <3>2. CASE tries'[j] = 0
      BY <3>2, DistributedAssumption
    <3> QED
      BY <2>1, <3>1, <3>2
  <2> QED
    BY <2>1
<1>2. ASSUME NEW s \in Slots, exec'[s].pc # "idle", exec'[s].last
      PROVE  tries'[exec'[s].job] + 1 = Attempts
  <2>1. exec'[s] = exec[s] /\ Busy(s) /\ exec[s].last
    BY <1>2 DEF Busy
  <2>2. exec[s].job \in Jobs /\ bull[exec[s].job] = "active"
    BY <2>1 DEF AttemptInv, QueueInv, OneDelivery
  <2>3. tries'[exec[s].job] = tries[exec[s].job]
    BY <2>2
  <2> QED
    BY <2>1, <2>3 DEF AttemptInv, AttemptsCounted
<1>3. AttemptsCounted'
  BY <1>1, <1>2 DEF AttemptsCounted, Busy
<1>4. \A s \in Slots : EndsOnLast(s)'
  BY DEF AttemptInv, EndsOnLast
<1> QED
  BY <1>3, <1>4 DEF AttemptInv

LEMMA DispatchKeepsAttempts ==
  ASSUME AttemptIsKnown, AttemptInv, QueueInv', NEW s \in Slots, NEW j \in Jobs, Dispatch(s, j)
  PROVE  AttemptInv'
<1>1. /\ bull[j] = "waiting" /\ bull' = [bull EXCEPT ![j] = "active"] /\ UNCHANGED tries
      /\ exec \in [Slots -> Invocation] /\ bull \in [Jobs -> {"none", "waiting", "active", "failed"}]
      /\ tries[j] \in Nat /\ tries[j] < Attempts
  BY DEF Dispatch, AttemptInv, AttemptsCounted, QueueInv, TypeOK, JobTypeOK
<1>2. PICK final \in BOOLEAN : RunDeliver(s, j, final) /\ (final => tries[j] + 1 = Attempts)
  <2>1. CASE ForwardCtx
    <3>1. RunDeliver(s, j, tries[j] + 1 = Attempts)
      BY <2>1 DEF Dispatch
    <3>2. (tries[j] + 1 = Attempts) \in BOOLEAN
      OBVIOUS
    <3> QED
      BY <3>1, <3>2
  <2>2. CASE ~ForwardCtx
    <3>1. RunDeliver(s, j, TRUE)
      BY <2>2 DEF Dispatch
    <3>2. tries[j] + 1 = Attempts
      BY <1>1, <2>2 DEF AttemptIsKnown
    <3> QED
      BY <3>1, <3>2
  <2> QED
    BY <2>1, <2>2
<1>3. /\ exec'[s].pc = "get" /\ exec'[s].job = j /\ exec'[s].last = final /\ exec'[s].num = 0
      /\ \A t \in Slots \ {s} : exec'[t] = exec[t]
  BY <1>1, <1>2 DEF RunDeliver
<1>4. AttemptsCounted'
  <2>1. \A k \in Jobs : bull'[k] \in {"waiting", "active"} => tries'[k] < Attempts
    BY <1>1 DEF AttemptInv, AttemptsCounted
  <2>2. ASSUME NEW t \in Slots, exec'[t].pc # "idle", exec'[t].last
        PROVE  tries'[exec'[t].job] + 1 = Attempts
    <3>1. CASE t = s
      BY <1>1, <1>2, <1>3, <2>2, <3>1
    <3>2. CASE t # s
      BY <1>1, <1>3, <2>2, <3>2 DEF AttemptInv, AttemptsCounted, Busy
    <3> QED
      BY <3>1, <3>2
  <2> QED
    BY <2>1, <2>2 DEF AttemptsCounted, Busy
<1>5. \A t \in Slots : EndsOnLast(t)'
  <2>1. EndsOnLast(s)'
    BY <1>3 DEF EndsOnLast
  <2>2. ASSUME NEW t \in Slots \ {s}
        PROVE  EndsOnLast(t)'
    BY <1>3 DEF AttemptInv, EndsOnLast
  <2> QED
    BY <2>1, <2>2
<1> QED
  BY <1>4, <1>5 DEF AttemptInv

\* A run keeps its delivery, and what it was told of it.
LEMMA StepKeepsAttempts ==
  ASSUME AttemptInv, QueueInv', NEW s \in Slots, Step(s)
  PROVE  AttemptInv'
<1>1. UNCHANGED <<bull, tries>> /\ Busy(s) /\ exec \in [Slots -> Invocation]
      /\ exec[s] \in Invocation /\ EndsOnLast(s)
  BY DEF AttemptInv, QueueInv, TypeOK, JobTypeOK, Step, RunStep, Busy, RunGet, RunGateAdmit,
     RunGateReject, RunClear, RunBegin, RunAppend, RunDone, RunThrow, RunTimeout, Fail,
     RunNotify, queueVars
<1>2. /\ exec'[s].job = exec[s].job /\ exec'[s].last = exec[s].last
      /\ \A t \in Slots \ {s} : exec'[t] = exec[t]
      /\ EndsOnLast(s)'
  <2>1. CASE RunGet(s)
    BY <1>1, <2>1 DEF RunGet, Invocation, EndsOnLast
  <2>2. CASE RunGateAdmit(s) \/ RunClear(s)
    BY <1>1, <2>2 DEF RunGateAdmit, RunClear, Goto, Invocation, EndsOnLast
  <2>3. CASE RunGateReject(s)
    BY <1>1, <2>3 DEF RunGateReject, Invocation, EndsOnLast
  <2>4. CASE RunBegin(s)
    BY <1>1, <2>4 DEF RunBegin, Invocation, EndsOnLast
  <2>5. CASE RunAppend(s)
    BY <1>1, <2>5 DEF RunAppend, Invocation, EndsOnLast
  <2>6. CASE RunDone(s)
    BY <1>1, <2>6 DEF RunDone, Invocation, EndsOnLast
  <2>7. CASE Fail(s)
    BY <1>1, <2>7 DEF Fail, Invocation, EndsOnLast
  <2>8. CASE \E delivered \in BOOLEAN : RunNotify(s, delivered)
    BY <1>1, <2>8 DEF RunNotify, Goto, Invocation, EndsOnLast
  <2> QED
    BY <2>1, <2>2, <2>3, <2>4, <2>5, <2>6, <2>7, <2>8 DEF Step, RunStep, RunThrow, RunTimeout
<1>3. AttemptsCounted'
  <2>1. \A t \in Slots : exec'[t].pc # "idle" /\ exec'[t].last =>
                           Busy(t) /\ exec[t].last /\ exec'[t].job = exec[t].job
    BY <1>1, <1>2 DEF Busy
  <2> QED
    BY <1>1, <2>1 DEF AttemptInv, AttemptsCounted, Busy
<1>4. \A t \in Slots : EndsOnLast(t)'
  <2>1. ASSUME NEW t \in Slots \ {s}
        PROVE  EndsOnLast(t)'
    BY <1>2 DEF AttemptInv, EndsOnLast
  <2> QED
    BY <1>2, <2>1
<1> QED
  BY <1>3, <1>4 DEF AttemptInv

\* A delivery that ends is counted, and is due again while attempts are left.
LEMMA EndKeepsAttempts ==
  ASSUME AttemptInv, QueueInv', NEW s \in Slots, Ack(s) \/ Nack(s)
  PROVE  AttemptInv'
<1> DEFINE j == exec[s].job
<1>1. Busy(s) /\ exec' = [exec EXCEPT ![s] = Idle] /\ exec \in [Slots -> Invocation]
  BY DEF AttemptInv, QueueInv, TypeOK, JobTypeOK, Ack, Nack, RunEnd, Busy
<1>2. /\ exec'[s].pc = "idle" /\ \A t \in Slots \ {s} : exec'[t] = exec[t]
      /\ j \in Jobs /\ \A t \in Slots \ {s} : Busy(t) => exec[t].job \in Jobs \ {j}
  BY <1>1 DEF AttemptInv, QueueInv, OneDelivery, Idle
<1>3. /\ bull'[j] \in {"waiting", "active"} => tries'[j] < Attempts
      /\ \A k \in Jobs \ {j} : bull'[k] = bull[k] /\ tries'[k] = tries[k]
  BY <1>2 DEF Ack, Nack, AttemptInv, QueueInv, TypeOK
<1> HIDE DEF j
<1>4. AttemptsCounted'
  <2>1. \A k \in Jobs : bull'[k] \in {"waiting", "active"} => tries'[k] < Attempts
    BY <1>3 DEF AttemptInv, AttemptsCounted
  <2>2. ASSUME NEW t \in Slots, exec'[t].pc # "idle", exec'[t].last
        PROVE  tries'[exec'[t].job] + 1 = Attempts
    BY <1>2, <1>3, <2>2 DEF AttemptInv, AttemptsCounted, Busy
  <2> QED
    BY <2>1, <2>2 DEF AttemptsCounted, Busy
<1>5. \A t \in Slots : EndsOnLast(t)'
  BY <1>2 DEF AttemptInv, EndsOnLast
<1> QED
  BY <1>4, <1>5 DEF AttemptInv

LEMMA AttemptNextPreserves ==
  ASSUME AttemptIsKnown, AttemptInv, [Next]_vars
  PROVE  AttemptInv'
<1>1. QueueInv'
  BY QueueNextPreserves DEF AttemptInv
<1>2. /\ exec \in [Slots -> Invocation] /\ tries \in [Jobs -> Nat]
      /\ bull \in [Jobs -> {"none", "waiting", "active", "failed"}]
  BY DEF AttemptInv, QueueInv, TypeOK, JobTypeOK
<1>3. CASE UNCHANGED vars
  BY <1>1, <1>3, QueueMovesKeepAttempts DEF vars, jobVars, queueVars
<1>4. ASSUME NEW j \in Jobs, Start(j) \/ Enqueue(j)
      PROVE  AttemptInv'
  <2>1. UNCHANGED exec
    BY <1>4 DEF Start, StartStep, StartCreate, StartAdmit, StartReject, StartNotify, Enqueue,
       StartEnqueue
  <2>2. \A k \in Jobs : \/ tries'[k] = tries[k] /\ bull'[k] = bull[k]
                        \/ bull[k] = "none" /\ tries'[k] = 0
    BY <1>2, <1>4 DEF Start, Enqueue, BullAdd, queueVars
  <2> QED
    BY <1>1, <2>1, <2>2, QueueMovesKeepAttempts
<1>5. ASSUME NEW j \in Jobs, Stalled(j)
      PROVE  AttemptInv'
  <2>1. UNCHANGED <<exec, tries>> /\ bull[j] = "active" /\ bull' = [bull EXCEPT ![j] = "waiting"]
    BY <1>5 DEF Stalled, jobVars
  <2> QED
    BY <1>1, <1>2, <2>1, QueueMovesKeepAttempts
<1>6. CASE WebCrash \/ Leftover
  <2>1. UNCHANGED <<exec, tries, bull>>
    BY <1>6 DEF WebCrash, Leftover, LateAppend, queueVars
  <2> QED
    BY <1>1, <2>1, QueueMovesKeepAttempts
<1>7. ASSUME NEW w \in Workers, Boot(w) \/ WorkerDrain(w)
      PROVE  AttemptInv'
  <2> USE DEF Boot, WorkerStart, WorkerList, WorkerRelist, WorkerReconcile, WorkerReconciled,
              WorkerRequeue, WorkerReady, WorkerDrain
  <2>1. UNCHANGED exec
    BY <1>7 DEF ReconcileSave, jobVars
  <2>2. \A k \in Jobs : \/ tries'[k] = tries[k] /\ bull'[k] = bull[k]
                        \/ bull[k] = "none" /\ tries'[k] = 0
    BY <1>2, <1>7 DEF BullAdd, queueVars
  <2> QED
    BY <1>1, <2>1, <2>2, QueueMovesKeepAttempts
<1>8. ASSUME NEW w \in Workers, WorkerExit(w) \/ WorkerCrash(w)
      PROVE  AttemptInv'
  <2>1. UNCHANGED <<tries, bull>> /\ \A s \in Slots : exec'[s] = exec[s] \/ exec'[s] = Idle
    BY <1>8 DEF WorkerExit, WorkerCrash, LoseRuns, queueVars
  <2>2. Idle.pc = "idle"
    BY DEF Idle
  <2> QED
    BY <1>1, <2>1, <2>2, QueueMovesKeepAttempts
<1> QED
  BY <1>1, <1>3, <1>4, <1>5, <1>6, <1>7, <1>8, DispatchKeepsAttempts, StepKeepsAttempts,
     EndKeepsAttempts DEF Next

\* A job that ran is marked failed on its last attempt only, wherever run() can know which one
\* that is: when the delivery context reaches it, or when JOB_ATTEMPTS is left at 1.
THEOREM FailsOnLastAttempt ==
  ASSUME AttemptIsKnown
  PROVE  Spec => []FailedOnLastAttempt
<1>1. AttemptInv => FailedOnLastAttempt
  BY DEF AttemptInv, EndsOnLast, AttemptsCounted, FailedOnLastAttempt, Busy
<1>2. AttemptInv /\ [Next]_vars => AttemptInv'
  BY AttemptNextPreserves
<1> QED
  BY <1>1, <1>2, AttemptStarts, PTL DEF Spec
=============================================================================
