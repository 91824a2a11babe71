----------------------------- MODULE JobRunner -----------------------------
(***************************************************************************)
(* The background job runner: `start()`, which persists a job and hands    *)
(* its id to a queue, and `run()`, which drives one delivered id to a      *)
(* terminal status while it appends the orchestrator's events to the       *)
(* persisted run-log.  Every await of the code is a boundary between two   *)
(* actions, because another call, another process or a crash can come in   *)
(* between.                                                                *)
(*                                                                         *)
(* The module has no next-state relation of its own: what `enqueue` and a  *)
(* handler's return mean is the queue's business, and InProcessJobs and    *)
(* DistributedJobs supply one each.                                        *)
(***************************************************************************)
EXTENDS Naturals, Sequences

CONSTANTS
  Jobs,      \* job ids (one start() call each: ids are random UUIDs)
  Slots,     \* concurrent invocations of run() that the processes can hold
  Events,    \* events an orchestrator yields when it is not cut short
  Timeouts,  \* TRUE when JOB_TIMEOUT_MS is set
  NoJob      \* the job of a slot that runs nothing

ASSUME JobRunnerAssumption ==
  /\ Events \in Nat \ {0}
  /\ Timeouts \in BOOLEAN
  /\ NoJob \notin Jobs

VARIABLES
  status,  \* status[j]: the status column of job j in the repository
  log,     \* log[j]: the job_events rows of j in order, each <<run, n>>
  runs,    \* runs[j]: how many times j was set running (names the runs)
  notes,   \* notes[j]: the notifications created for j, in order
  call,    \* call[j]: where the start() call that creates j stands
  exec,    \* exec[s]: the run() invocation in slot s
  late     \* generators that outlived their timed-out run(): they still append

jobVars == <<status, log, runs, notes, call, exec, late>>

Terminal == {"done", "failed"}
NonTerminalAndFailed == {"queued", "running", "failed"}  \* seeded fault
NonTerminal == {"queued", "running"}         \* what listNonTerminal() selects
Runnable == {"queued", "interrupted"}        \* what run() accepts
Status == {"absent", "interrupted"} \cup Terminal \cup NonTerminal
CallPcs == {"none", "created", "admitted", "rejected", "returned", "lost"}
RunPcs == {"idle", "get", "gate", "clear", "begin", "stream", "notify",
           "return", "throw"}

Invocation == [pc : RunPcs, job : Jobs \cup {NoJob}, seen : Status,
               last : BOOLEAN, num : Nat, sent : Nat]

Idle == [pc |-> "idle", job |-> NoJob, seen |-> "absent", last |-> TRUE,
         num |-> 0, sent |-> 0]

Executing(s) == exec[s].pc \in {"clear", "begin", "stream"}

\* The rows a run that is never cut short leaves behind.
CompleteLog(r) == [n \in 1..Events |-> <<r, n>>]

JobInit ==
  /\ status = [j \in Jobs |-> "absent"]
  /\ log = [j \in Jobs |-> <<>>]
  /\ runs = [j \in Jobs |-> 0]
  /\ notes = [j \in Jobs |-> <<>>]
  /\ call = [j \in Jobs |-> "none"]
  /\ exec = [s \in Slots |-> Idle]
  /\ late = {}

JobTypeOK ==
  /\ status \in [Jobs -> Status]
  /\ log \in [Jobs -> Seq(Nat \X Nat)]
  /\ runs \in [Jobs -> Nat]
  /\ notes \in [Jobs -> Seq(Terminal)]
  /\ call \in [Jobs -> CallPcs]
  /\ exec \in [Slots -> Invocation]
  /\ late \subseteq [slot : Slots, job : Jobs, num : Nat, sent : Nat]

-----------------------------------------------------------------------------
(* start(): create the record, ask the quota gate, then enqueue the id.    *)

StartCreate(j) ==
  /\ call[j] = "none"
  /\ call' = [call EXCEPT ![j] = "created"]
  /\ status' = [status EXCEPT ![j] = "queued"]
  /\ UNCHANGED <<log, runs, notes, exec, late>>

\* canRun() may answer either way.  A refusal is saved over whatever the
\* record holds by then: save() writes the whole record.
StartAdmit(j) ==
  /\ call[j] = "created"
  /\ call' = [call EXCEPT ![j] = "admitted"]
  /\ UNCHANGED <<status, log, runs, notes, exec, late>>

\* Seeded fault: a status that no reader knows is saved.
StartRejectMisnamed(j) ==
  /\ call[j] = "created"
  /\ call' = [call EXCEPT ![j] = "rejected"]
  /\ status' = [status EXCEPT ![j] = "rejected"]
  /\ UNCHANGED <<log, runs, notes, exec, late>>

StartReject(j) ==
  /\ call[j] = "created"
  /\ call' = [call EXCEPT ![j] = "rejected"]
  /\ status' = [status EXCEPT ![j] = "failed"]
  /\ UNCHANGED <<log, runs, notes, exec, late>>

StartNotify(j) ==
  /\ call[j] = "rejected"
  /\ call' = [call EXCEPT ![j] = "returned"]
  /\ notes' = [notes EXCEPT ![j] = Append(@, "failed")]
  /\ UNCHANGED <<status, log, runs, exec, late>>

\* queue.enqueue(job.id): the composing module adds the queue's side.
StartEnqueue(j) ==
  /\ call[j] = "admitted"
  /\ call' = [call EXCEPT ![j] = "returned"]
  /\ UNCHANGED <<status, log, runs, notes, exec, late>>

-----------------------------------------------------------------------------
(* run(): one invocation, in slot s.                                       *)

Goto(s, pc) == exec' = [exec EXCEPT ![s].pc = pc]

\* The queue hands j to a free slot; final says that ctx.attempt has reached
\* ctx.maxAttempts, which decides what a failure means.
RunDeliver(s, j, final) ==
  /\ exec[s].pc = "idle"
  /\ exec' = [exec EXCEPT ![s] = [pc |-> "get", job |-> j, seen |-> "absent",
                                  last |-> final, num |-> 0, sent |-> 0]]
  /\ UNCHANGED <<status, log, runs, notes, call, late>>

\* Seeded fault: a redelivered job is not skipped.
RunGetAny(s) ==
  /\ exec[s].pc = "get"
  /\ exec' = [exec EXCEPT ![s].seen = status[exec[s].job], ![s].pc = "gate"]
  /\ UNCHANGED <<status, log, runs, notes, call, late>>

\* The record is read once; the status seen here decides everything below.
RunGet(s) ==
  /\ exec[s].pc = "get"
  /\ LET seen == status[exec[s].job]
     IN  exec' = [exec EXCEPT ![s].seen = seen,
                              ![s].pc = IF seen \in Runnable THEN "gate"
                                                             ELSE "return"]
  /\ UNCHANGED <<status, log, runs, notes, call, late>>

\* Seeded fault: an interrupted job runs on top of its old run-log.
RunGateAdmitKeepingLog(s) ==
  /\ exec[s].pc = "gate"
  /\ Goto(s, "begin")
  /\ UNCHANGED <<status, log, runs, notes, call, late>>

RunGateAdmit(s) ==
  /\ exec[s].pc = "gate"
  /\ Goto(s, IF exec[s].seen = "interrupted" THEN "clear" ELSE "begin")
  /\ UNCHANGED <<status, log, runs, notes, call, late>>

\* Seeded fault: the refusal is announced and not saved.
RunGateRejectUnsaved(s) ==
  /\ exec[s].pc = "gate"
  /\ exec' = [exec EXCEPT ![s].pc = "notify", ![s].seen = "failed"]
  /\ UNCHANGED <<status, log, runs, notes, call, late>>

RunGateReject(s) ==
  /\ exec[s].pc = "gate"
  /\ status' = [status EXCEPT ![exec[s].job] = "failed"]
  /\ exec' = [exec EXCEPT ![s].pc = "notify", ![s].seen = "failed"]
  /\ UNCHANGED <<log, runs, notes, call, late>>

RunClear(s) ==
  /\ exec[s].pc = "clear"
  /\ log' = [log EXCEPT ![exec[s].job] = <<>>]
  /\ Goto(s, "begin")
  /\ UNCHANGED <<status, runs, notes, call, late>>

RunBegin(s) ==
  LET j == exec[s].job
  IN  /\ exec[s].pc = "begin"
      /\ status' = [status EXCEPT ![j] = "running"]
      /\ runs' = [runs EXCEPT ![j] = @ + 1]
      /\ exec' = [exec EXCEPT ![s].pc = "stream", ![s].num = runs[j] + 1]
      /\ UNCHANGED <<log, notes, call, late>>

RunAppend(s) ==
  LET j == exec[s].job
      n == exec[s].sent + 1
  IN  /\ exec[s].pc = "stream"
      /\ exec[s].sent < Events
      /\ log' = [log EXCEPT ![j] = Append(@, <<exec[s].num, n>>)]
      /\ exec' = [exec EXCEPT ![s].sent = n]
      /\ UNCHANGED <<status, runs, notes, call, late>>

\* Seeded fault: done is saved while events are still to come.
RunDoneEarly(s) ==
  /\ exec[s].pc = "stream"
  /\ status' = [status EXCEPT ![exec[s].job] = "done"]
  /\ exec' = [exec EXCEPT ![s].pc = "notify", ![s].seen = "done"]
  /\ UNCHANGED <<log, runs, notes, call, late>>

RunDone(s) ==
  /\ exec[s].pc = "stream"
  /\ exec[s].sent = Events
  /\ status' = [status EXCEPT ![exec[s].job] = "done"]
  /\ exec' = [exec EXCEPT ![s].pc = "notify", ![s].seen = "done"]
  /\ UNCHANGED <<log, runs, notes, call, late>>

\* Seeded fault: the last attempt too goes back to interrupted.
FailNeverLast(s) ==
  /\ exec[s].pc = "stream"
  /\ status' = [status EXCEPT ![exec[s].job] = "interrupted"]
  /\ exec' = [exec EXCEPT ![s].pc = "throw", ![s].seen = "failed"]
  /\ UNCHANGED <<log, runs, notes, call>>

\* The catch block.  With attempts left the record goes back to interrupted
\* and the error is rethrown to the queue; otherwise the job has failed.
Fail(s) ==
  /\ exec[s].pc = "stream"
  /\ status' = [status EXCEPT ![exec[s].job] =
                  IF exec[s].last THEN "failed" ELSE "interrupted"]
  /\ exec' = [exec EXCEPT ![s].pc = IF exec[s].last THEN "notify" ELSE "throw",
                          ![s].seen = "failed"]
  /\ UNCHANGED <<log, runs, notes, call>>

\* The resolver throws: an unknown kind, a missing skill, a storage error.
RunThrow(s) ==
  /\ Fail(s)
  /\ UNCHANGED late

\* Promise.race was won by the timer.  The generator cannot be cancelled: it
\* stays behind and keeps appending.
RunTimeout(s) ==
  /\ Timeouts
  /\ Fail(s)
  /\ late' = IF exec[s].sent < Events
             THEN late \cup {[slot |-> s, job |-> exec[s].job,
                              num |-> exec[s].num, sent |-> exec[s].sent]}
             ELSE late

LateAppend(g) ==
  /\ g \in late
  /\ log' = [log EXCEPT ![g.job] = Append(@, <<g.num, g.sent + 1>>)]
  /\ late' = (late \ {g}) \cup (IF g.sent + 1 < Events
                                THEN {[g EXCEPT !.sent = @ + 1]} ELSE {})
  /\ UNCHANGED <<status, runs, notes, call, exec>>

\* Seeded fault: every ending is announced as a success.
RunNotifySuccess(s, delivered) ==
  /\ exec[s].pc = "notify"
  /\ notes' = [notes EXCEPT ![exec[s].job] = Append(@, "done")]
  /\ Goto(s, IF delivered THEN "return" ELSE "throw")
  /\ UNCHANGED <<status, log, runs, call, late>>

\* onComplete: the notification row is written, then delivered.  A webhook
\* that cannot be reached makes run() reject after the job is settled.
RunNotify(s, delivered) ==
  LET j == exec[s].job
  IN  /\ exec[s].pc = "notify"
      /\ notes' = [notes EXCEPT ![j] =
                     Append(@, IF exec[s].seen = "done" THEN "done"
                                                        ELSE "failed")]
      /\ Goto(s, IF delivered THEN "return" ELSE "throw")
      /\ UNCHANGED <<status, log, runs, call, late>>

\* The invocation is over; the composing module adds the acknowledgement.
RunEnd(s, how) ==
  /\ exec[s].pc = how
  /\ exec' = [exec EXCEPT ![s] = Idle]
  /\ UNCHANGED <<status, log, runs, notes, call, late>>

\* The steps a run() takes by itself, between its delivery and its return.
RunStep(s) ==
  \/ RunGet(s)
  \/ RunGateAdmit(s)
  \/ RunGateReject(s)
  \/ RunClear(s)
  \/ RunBegin(s)
  \/ RunAppend(s)
  \/ RunDone(s)
  \/ RunThrow(s)
  \/ RunTimeout(s)
  \/ \E delivered \in BOOLEAN : RunNotify(s, delivered)

\* The steps start() takes before it hands the job to the queue.
StartStep(j) ==
  \/ StartCreate(j)
  \/ StartAdmit(j)
  \/ StartReject(j)
  \/ StartNotify(j)

\* Seeded fault: a job that was running is put back in line.
ReconcileSaveQueued(j) ==
  /\ status' = [status EXCEPT ![j] = "queued"]
  /\ UNCHANGED <<log, runs, notes, call, exec, late>>

\* reconcileJobs(): one record of the listed ones, rewritten from the copy
\* that was listed.
ReconcileSave(j) ==
  /\ status' = [status EXCEPT ![j] = "interrupted"]
  /\ UNCHANGED <<log, runs, notes, call, exec, late>>

\* What dies with a process that executes jobs: the run() invocations in its
\* slots S and the generators they left behind.
LoseRuns(S) ==
  /\ exec' = [s \in Slots |-> IF s \in S THEN Idle ELSE exec[s]]
  /\ late' = {g \in late : g.slot \notin S}

\* What dies with a process that serves requests: the start() calls in flight.
InFlight == {"created", "admitted", "rejected"}

LoseCalls ==
  call' = [j \in Jobs |-> IF call[j] \in InFlight THEN "lost" ELSE call[j]]
=============================================================================
