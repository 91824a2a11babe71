------------------------ MODULE InProcessJobsProofs ------------------------
(***************************************************************************)
(* For every set of jobs, every number of slots, events and crashes: the   *)
(* in-process substrate runs a job at most once, never rewrites a settled  *)
(* status, completes the run-log of every job that is done, tells the      *)
(* truth once, and so implements JobPromise; and a client of its events    *)
(* has received the run-log up to where its stream stands.                 *)
(***************************************************************************)
EXTENDS JobStream, SequenceTheorems, TLAPS

USE JobRunnerAssumption, InProcessAssumption

\* What one job owes the invariant besides its token.
JobOK(j) ==
  /\ runs[j] <= 1
  /\ status[j] = "done" => log[j] = CompleteLog(1)
  /\ Len(notes[j]) <= 1
  /\ notes[j] # <<>> => status[j] = notes[j][1]

LEMMA JobOKs ==
  (\A j \in Jobs : JobOK(j)) <=> RunsOnce /\ DoneMeansComplete /\ ToldTheTruth
  BY DEF JobOK, RunsOnce, DoneMeansComplete, ToldTheTruth

\* What the handler of start() does before the queue is involved.
LEMMA StartPreserves ==
  ASSUME IInv, NEW j \in Jobs, Start(j)
  PROVE  IInv'
<1> USE DEF IInv, TypeOK, JobTypeOK, Invocation, Start, StartStep, hostVars, CallPcs, Status,
            Terminal, NonTerminal
<1>0. server = "up" /\ UNCHANGED hostVars
  OBVIOUS
<1>1. CASE StartCreate(j)
  BY <1>0, <1>1, SMTT(30) DEF StartCreate, OneToken, Busy, CallMatches, Fresh, SlotMatches, SlotOK, Wrote,
     LateMatches, DownMatches, RunsOnce, DoneMeansComplete, ToldTheTruth
<1>2. CASE StartAdmit(j)
  BY <1>0, <1>2, SMTT(30) DEF StartAdmit, OneToken, Busy, CallMatches, Fresh, SlotMatches, SlotOK, Wrote,
     LateMatches, DownMatches, RunsOnce, DoneMeansComplete, ToldTheTruth
<1>3. CASE StartReject(j)
  BY <1>0, <1>3, SMTT(30) DEF StartReject, OneToken, Busy, CallMatches, Fresh, SlotMatches, SlotOK, Wrote,
     LateMatches, DownMatches, RunsOnce, DoneMeansComplete, ToldTheTruth
<1>4. CASE StartNotify(j)
  BY <1>0, <1>4, SMTT(30) DEF StartNotify, OneToken, Busy, CallMatches, Fresh, SlotMatches, SlotOK, Wrote,
     LateMatches, DownMatches, RunsOnce, DoneMeansComplete, ToldTheTruth
<1> QED
  BY <1>1, <1>2, <1>3, <1>4

\* Handing the id over: the token moves from the call to the dispatch, and
\* from the dispatch to a slot.
LEMMA EnqueuePreserves ==
  ASSUME IInv, NEW j \in Jobs, Enqueue(j)
  PROVE  IInv'
<1> USE DEF IInv, Terminal, NonTerminal
<1>1. /\ call[j] = "admitted" /\ dispatched[j] = 0 /\ server = "up"
      /\ call'[j] = "returned" /\ dispatched'[j] = 1
      /\ \A k \in Jobs \ {j} : call'[k] = call[k] /\ dispatched'[k] = dispatched[k]
      /\ UNCHANGED <<status, log, runs, notes, exec, late, server, stale, crashes>>
  BY DEF Enqueue, StartEnqueue, OneToken, TypeOK, JobTypeOK
<1>2. TypeOK'
  BY <1>1 DEF Enqueue, StartEnqueue, TypeOK, JobTypeOK, CallPcs
<1>3. OneToken'
  BY <1>1 DEF OneToken, Busy
<1>4. CallMatches'
  BY <1>1 DEF CallMatches, Fresh
<1>5. SlotMatches'
  BY <1>1 DEF SlotMatches, SlotOK, Busy, Fresh, Wrote
<1>6. LateMatches' /\ DownMatches' /\ RunsOnce' /\ DoneMeansComplete' /\ ToldTheTruth'
  BY <1>1 DEF LateMatches, DownMatches, RunsOnce, DoneMeansComplete, ToldTheTruth, CompleteLog
<1> QED
  BY <1>2, <1>3, <1>4, <1>5, <1>6

LEMMA DispatchPreserves ==
  ASSUME IInv, NEW s \in Slots, NEW j \in Jobs, Dispatch(s, j)
  PROVE  IInv'
<1> USE DEF IInv, Terminal, NonTerminal
<1>1. /\ exec[s].pc = "idle" /\ dispatched[j] = 1 /\ dispatched'[j] = 0
      /\ dispatched' \in [Jobs -> Nat]
      /\ \A k \in Jobs \ {j} : dispatched'[k] = dispatched[k]
      /\ UNCHANGED <<status, log, runs, notes, call, late, server, stale, crashes>>
  BY DEF Dispatch, RunDeliver, OneToken, TypeOK
<1>2. /\ exec'[s].pc = "get" /\ exec'[s].job = j /\ exec'[s].last
      /\ exec'[s].sent = 0
      /\ \A t \in Slots \ {s} : exec'[t] = exec[t]
  BY DEF Dispatch, RunDeliver, TypeOK, JobTypeOK
<1>3. TypeOK'
  BY <1>1 DEF Dispatch, RunDeliver, TypeOK, JobTypeOK, Invocation, Status, RunPcs
<1>4. Fresh(j) /\ call[j] = "returned" /\ server = "up"
  BY <1>1 DEF OneToken, CallMatches, DownMatches, TypeOK
<1>5. OneToken'
  BY <1>1, <1>2, <1>4 DEF OneToken, Busy
<1>6. CallMatches'
  BY <1>1 DEF CallMatches, Fresh
<1>7. SlotMatches'
  <2> SUFFICES ASSUME NEW t \in Slots
               PROVE  SlotOK(t)'
    BY DEF SlotMatches
  <2>1. CASE t = s
    BY <1>1, <1>2, <1>4, <2>1 DEF SlotOK, Busy, Fresh
  <2>2. CASE t # s
    BY <1>1, <1>2, <2>2 DEF SlotMatches, SlotOK, Busy, Fresh, Wrote
  <2> QED
    BY <2>1, <2>2
<1>8. LateMatches' /\ DownMatches' /\ RunsOnce' /\ DoneMeansComplete' /\ ToldTheTruth'
  BY <1>1, <1>2, <1>4 DEF LateMatches, DownMatches, RunsOnce, DoneMeansComplete, ToldTheTruth,
     CompleteLog
<1> QED
  BY <1>3, <1>5, <1>6, <1>7, <1>8

\* The holder of a job's token may rewrite that job's record: no other slot,
\* call or dispatch depends on it.
LEMMA OwnerWrites ==
  ASSUME IInv, NEW s \in Slots, NEW j \in Jobs, Busy(s), exec[s].job = j,
         TypeOK',
         UNCHANGED <<call, hostVars>>,
         \A t \in Slots \ {s} : exec'[t] = exec[t],
         exec'[s].pc = "idle" \/ exec'[s].job = j,
         \A k \in Jobs \ {j} : /\ status'[k] = status[k] /\ log'[k] = log[k]
                               /\ runs'[k] = runs[k] /\ notes'[k] = notes[k],
         SlotOK(s)',
         JobOK(j)',
         status[j] = "failed" => status'[j] = "failed",
         \A g \in late' : g \in late \/ status'[g.job] = "failed"
  PROVE  IInv'
<1> USE DEF IInv, Terminal, NonTerminal, hostVars
<1>1. call[j] = "returned" /\ dispatched[j] = 0 /\ server = "up" /\ stale = {}
  BY DEF OneToken, DownMatches, TypeOK
<1>2. \A t \in Slots \ {s} : Busy(t) => exec[t].job \in Jobs \ {j}
  BY DEF OneToken
<1>3. OneToken'
  BY <1>1, <1>2 DEF OneToken, Busy
<1>4. CallMatches'
  BY <1>1 DEF CallMatches, Fresh
<1>5. SlotMatches'
  <2> SUFFICES ASSUME NEW t \in Slots \ {s}
               PROVE  SlotOK(t)'
    BY DEF SlotMatches
  <2>1. SlotOK(t) /\ exec'[t] = exec[t] /\ (Busy(t) => exec[t].job \in Jobs \ {j})
    BY <1>2 DEF SlotMatches
  <2>2. CASE Busy(t)
    BY <2>1, <2>2 DEF SlotOK, Busy, Fresh, Wrote
  <2>3. CASE ~Busy(t)
    BY <2>1, <2>3 DEF SlotOK, Busy
  <2> QED
    BY <2>2, <2>3
<1>6. LateMatches'
  BY DEF LateMatches, TypeOK, JobTypeOK
<1>7. DownMatches'
  BY <1>1 DEF DownMatches
<1>8. \A k \in Jobs : JobOK(k)'
  BY JobOKs DEF JobOK, CompleteLog
<1>9. RunsOnce' /\ DoneMeansComplete' /\ ToldTheTruth'
  BY <1>8 DEF JobOK, RunsOnce, DoneMeansComplete, ToldTheTruth
<1> QED
  BY <1>3, <1>4, <1>5, <1>6, <1>7, <1>9

\* A step of run() in slot s: each await of the handler.
LEMMA StepPreserves ==
  ASSUME IInv, NEW s \in Slots, NEW j \in Jobs, Busy(s), exec[s].job = j, Step(s)
  PROVE  IInv'
<1> USE DEF Terminal, NonTerminal
<1>0. UNCHANGED hostVars
  BY DEF Step
<1>1. /\ TypeOK /\ SlotOK(s) /\ server = server'
      /\ \A k \in Jobs : JobOK(k)
  BY <1>0, JobOKs DEF IInv, SlotMatches, OneToken, hostVars
<1>2. exec[s] \in Invocation /\ exec \in [Slots -> Invocation]
  BY <1>1 DEF TypeOK, JobTypeOK
<1>3. CASE RunGet(s)
  <2> USE DEF RunGet
  <2>1. Busy(s) /\ UNCHANGED <<status, log, runs, notes, call, late>>
    BY <1>3 DEF Busy
  <2>2. TypeOK'
    BY <1>0, <1>1, <1>2, <1>3 DEF TypeOK, JobTypeOK, Invocation, RunPcs, hostVars
  <2>3. SlotOK(s)' /\ exec'[s].job = j /\ \A t \in Slots \ {s} : exec'[t] = exec[t]
    BY <1>1, <1>3, <2>1 DEF SlotOK, Busy, Fresh, Runnable, TypeOK, JobTypeOK
  <2>4. JobOK(j)'
    BY <1>1, <2>1 DEF JobOK, CompleteLog
  <2> QED
    BY <1>0, <1>1, <2>1, <2>2, <2>3, <2>4, OwnerWrites
<1>4. CASE RunGateAdmit(s)
  <2> USE DEF RunGateAdmit, Goto
  <2>1. Busy(s) /\ UNCHANGED <<status, log, runs, notes, call, late>>
    BY <1>4 DEF Busy
  <2>2. TypeOK'
    BY <1>0, <1>1, <1>2, <1>4 DEF TypeOK, JobTypeOK, Invocation, RunPcs, hostVars
  <2>3. SlotOK(s)' /\ exec'[s].job = j /\ \A t \in Slots \ {s} : exec'[t] = exec[t]
    BY <1>1, <1>4, <2>1 DEF SlotOK, Busy, Fresh, TypeOK, JobTypeOK
  <2>4. JobOK(j)'
    BY <1>1, <2>1 DEF JobOK, CompleteLog
  <2> QED
    BY <1>0, <1>1, <2>1, <2>2, <2>3, <2>4, OwnerWrites
<1>5. CASE RunGateReject(s)
  <2> USE DEF RunGateReject
  <2>1. Busy(s) /\ UNCHANGED <<log, runs, notes, call, late>> /\ Fresh(j)
    BY <1>1, <1>5 DEF Busy, SlotOK
  <2>2. TypeOK'
    BY <1>0, <1>1, <1>2, <1>5 DEF TypeOK, JobTypeOK, Invocation, RunPcs, Status, hostVars
  <2>3. /\ exec'[s].pc = "notify" /\ exec'[s].seen = "failed"
        /\ exec'[s].job = j /\ exec'[s].last = exec[s].last
        /\ \A t \in Slots \ {s} : exec'[t] = exec[t]
        /\ status'[j] = "failed" /\ \A k \in Jobs \ {j} : status'[k] = status[k]
    BY <1>1, <1>5, <2>1 DEF TypeOK, JobTypeOK
  <2>4. SlotOK(s)'
    BY <1>1, <2>1, <2>3 DEF SlotOK, Busy, Fresh
  <2>5. JobOK(j)'
    BY <1>1, <2>1, <2>3 DEF JobOK, Fresh
  <2> QED
    BY <1>0, <1>1, <2>1, <2>2, <2>3, <2>4, <2>5, OwnerWrites
<1>6. CASE RunClear(s)
  BY <1>1, <1>6 DEF RunClear, SlotOK
<1>7. CASE RunBegin(s)
  <2> USE DEF RunBegin
  <2>1. Busy(s) /\ UNCHANGED <<log, notes, call, late>> /\ Fresh(j) /\ exec[s].sent = 0
    BY <1>1, <1>7 DEF Busy, SlotOK
  <2>2. TypeOK'
    <3>1. runs[j] + 1 \in Nat /\ runs' \in [Jobs -> Nat] /\ status' \in [Jobs -> Status]
      BY <1>1, <1>7 DEF TypeOK, JobTypeOK, Status
    <3>2. exec' \in [Slots -> Invocation]
      BY <1>2, <1>7, <3>1 DEF Invocation, RunPcs
    <3> QED
      BY <1>0, <1>1, <2>1, <3>1, <3>2 DEF TypeOK, JobTypeOK, hostVars
  <2>3. /\ exec'[s].pc = "stream" /\ exec'[s].num = 1 /\ exec'[s].sent = 0
        /\ exec'[s].job = j /\ exec'[s].last = exec[s].last
        /\ \A t \in Slots \ {s} : exec'[t] = exec[t]
        /\ status'[j] = "running" /\ runs'[j] = 1
        /\ \A k \in Jobs \ {j} : status'[k] = status[k] /\ runs'[k] = runs[k]
    BY <1>1, <1>7, <2>1 DEF TypeOK, JobTypeOK, Fresh
  <2>4. SlotOK(s)'
    BY <1>1, <2>1, <2>3 DEF SlotOK, Busy, Fresh, Wrote
  <2>5. JobOK(j)'
    BY <1>1, <2>1, <2>3 DEF JobOK, Fresh
  <2> QED
    BY <1>0, <1>1, <2>1, <2>2, <2>3, <2>4, <2>5, OwnerWrites DEF Fresh
<1>8. CASE RunAppend(s)
  <2> USE DEF RunAppend
  <2> DEFINE n == exec[s].sent + 1
  <2>1. /\ Busy(s) /\ UNCHANGED <<status, runs, notes, call, late>>
        /\ exec[s].num = 1 /\ exec[s].sent \in 0..(Events - 1)
        /\ log[j] = Wrote(s) /\ status[j] = "running" /\ runs[j] = 1 /\ notes[j] = <<>>
    BY <1>1, <1>2, <1>8 DEF Busy, SlotOK
  <2>2. TypeOK'
    <3>1. <<exec[s].num, n>> \in Nat \X Nat /\ log[j] \in Seq(Nat \X Nat)
      BY <1>1, <1>2, <2>1 DEF Invocation, TypeOK, JobTypeOK
    <3>2. Append(log[j], <<exec[s].num, n>>) \in Seq(Nat \X Nat)
      BY <3>1
    <3>3. log' \in [Jobs -> Seq(Nat \X Nat)]
      BY <1>1, <1>8, <3>2 DEF TypeOK, JobTypeOK
    <3>4. exec[s].sent + 1 \in Nat
      BY <2>1
    <3>5. exec' \in [Slots -> Invocation]
      BY <1>2, <1>8, <3>4 DEF Invocation, RunPcs
    <3> QED
      BY <1>0, <1>1, <2>1, <3>3, <3>5 DEF TypeOK, JobTypeOK, hostVars
  <2>3. /\ exec'[s].pc = "stream" /\ exec'[s].num = 1 /\ exec'[s].sent = n
        /\ exec'[s].job = j /\ exec'[s].last = exec[s].last
        /\ \A t \in Slots \ {s} : exec'[t] = exec[t]
        /\ log'[j] = Append(Wrote(s), <<1, n>>)
        /\ \A k \in Jobs \ {j} : log'[k] = log[k]
    BY <1>1, <1>8, <2>1 DEF TypeOK, JobTypeOK
  <2>4. Append(Wrote(s), <<1, n>>) = [m \in 1..n |-> <<1, m>>]
    BY <2>1 DEF Wrote
  <2>5. SlotOK(s)'
    BY <1>1, <2>1, <2>3, <2>4 DEF SlotOK, Busy, Wrote
  <2>6. JobOK(j)'
    BY <1>1, <2>1 DEF JobOK
  <2> QED
    BY <1>0, <1>1, <2>1, <2>2, <2>3, <2>5, <2>6, OwnerWrites
<1>9. CASE RunDone(s)
  <2> USE DEF RunDone
  <2>1. /\ Busy(s) /\ UNCHANGED <<log, runs, notes, call, late>>
        /\ log[j] = CompleteLog(1) /\ status[j] = "running" /\ runs[j] = 1 /\ notes[j] = <<>>
    BY <1>1, <1>2, <1>9 DEF Busy, SlotOK, Wrote, CompleteLog
  <2>2. TypeOK'
    BY <1>0, <1>1, <1>2, <1>9 DEF TypeOK, JobTypeOK, Invocation, RunPcs, Status, hostVars
  <2>3. /\ exec'[s].pc = "notify" /\ exec'[s].seen = "done"
        /\ exec'[s].job = j /\ exec'[s].last = exec[s].last
        /\ \A t \in Slots \ {s} : exec'[t] = exec[t]
        /\ status'[j] = "done" /\ \A k \in Jobs \ {j} : status'[k] = status[k]
    BY <1>1, <1>9, <2>1 DEF TypeOK, JobTypeOK
  <2>4. SlotOK(s)'
    BY <1>1, <2>1, <2>3 DEF SlotOK, Busy
  <2>5. JobOK(j)'
    BY <1>1, <2>1, <2>3 DEF JobOK, CompleteLog
  <2> QED
    BY <1>0, <1>1, <2>1, <2>2, <2>3, <2>4, <2>5, OwnerWrites
<1>10. ASSUME Fail(s), \A g \in late' : g \in late \/ g.job = j, TypeOK'
       PROVE  IInv'
  <2> USE DEF Fail
  <2>1. /\ Busy(s) /\ UNCHANGED <<log, runs, notes, call>> /\ exec[s].last
        /\ status[j] = "running" /\ runs[j] = 1 /\ notes[j] = <<>>
    BY <1>1, <1>2, <1>10 DEF Busy, SlotOK
  <2>2. /\ exec'[s].pc = "notify" /\ exec'[s].seen = "failed"
        /\ exec'[s].job = j /\ exec'[s].last = exec[s].last
        /\ \A t \in Slots \ {s} : exec'[t] = exec[t]
        /\ status'[j] = "failed" /\ \A k \in Jobs \ {j} : status'[k] = status[k]
    BY <1>1, <1>2, <1>10, <2>1 DEF TypeOK, JobTypeOK, Invocation
  <2>3. SlotOK(s)'
    BY <1>1, <2>1, <2>2 DEF SlotOK, Busy
  <2>4. JobOK(j)'
    BY <1>1, <2>1, <2>2 DEF JobOK
  <2> QED
    BY <1>0, <1>1, <1>10, <2>1, <2>2, <2>3, <2>4, OwnerWrites
<1>11. CASE RunThrow(s)
  <2>1. TypeOK'
    BY <1>0, <1>1, <1>2, <1>11 DEF RunThrow, Fail, TypeOK, JobTypeOK, Invocation, RunPcs, Status, hostVars
  <2> QED
    BY <1>10, <1>11, <2>1 DEF RunThrow
<1>12. CASE RunTimeout(s)
  <2>2. TypeOK'
    <3>1. status' \in [Jobs -> Status]
      BY <1>1, <1>12 DEF RunTimeout, Fail, TypeOK, JobTypeOK, Status
    <3>2. exec' \in [Slots -> Invocation]
      BY <1>2, <1>12 DEF RunTimeout, Fail, Invocation, RunPcs, Status
    <3>3. exec[s].num \in Nat /\ exec[s].sent \in Nat
      BY <1>2 DEF Invocation
    <3>4. late' \subseteq [slot : Slots, job : Jobs, num : Nat, sent : Nat]
      BY <1>1, <1>12, <3>3 DEF RunTimeout, TypeOK, JobTypeOK
    <3> QED
      BY <1>0, <1>1, <1>12, <3>1, <3>2, <3>4 DEF RunTimeout, Fail, TypeOK, JobTypeOK, hostVars
  <2>3. \A g \in late' : g \in late \/ g.job = j
    BY <1>12 DEF RunTimeout
  <2> QED
    BY <1>10, <1>12, <2>2, <2>3 DEF RunTimeout
<1>13. ASSUME NEW delivered \in BOOLEAN, RunNotify(s, delivered)
       PROVE  IInv'
  <2> USE DEF RunNotify, Goto
  <2>1. /\ Busy(s) /\ UNCHANGED <<status, log, runs, call, late>>
        /\ exec[s].seen \in Terminal /\ status[j] = exec[s].seen /\ notes[j] = <<>>
    BY <1>1, <1>2, <1>13 DEF Busy, SlotOK
  <2>2. TypeOK'
    <3>1. notes' \in [Jobs -> Seq(Terminal)]
      BY <1>1, <1>13, <2>1 DEF TypeOK, JobTypeOK
    <3>2. exec' \in [Slots -> Invocation]
      BY <1>2, <1>13 DEF Invocation, RunPcs
    <3> QED
      BY <1>0, <1>1, <2>1, <3>1, <3>2 DEF TypeOK, JobTypeOK, hostVars
  <2>3. /\ exec'[s].pc \in {"return", "throw"}
        /\ exec'[s].job = j /\ exec'[s].last = exec[s].last
        /\ \A t \in Slots \ {s} : exec'[t] = exec[t]
        /\ notes'[j] = <<status[j]>> /\ \A k \in Jobs \ {j} : notes'[k] = notes[k]
    BY <1>1, <1>13, <2>1 DEF TypeOK, JobTypeOK
  <2>4. SlotOK(s)'
    BY <1>1, <2>1, <2>3 DEF SlotOK, Busy
  <2>5. JobOK(j)'
    BY <1>1, <2>1, <2>3 DEF JobOK, CompleteLog
  <2> QED
    BY <1>0, <1>1, <2>1, <2>2, <2>3, <2>4, <2>5, OwnerWrites
<1> QED
  BY <1>3, <1>4, <1>5, <1>6, <1>7, <1>8, <1>9, <1>11, <1>12, <1>13 DEF Step, RunStep

\* A step of run() is taken by an invocation that holds a token.
LEMMA BusyStep ==
  ASSUME IInv, NEW s \in Slots, Step(s)
  PROVE  IInv'
<1>1. Busy(s)
  BY DEF Step, RunStep, Busy, RunGet, RunGateAdmit, RunGateReject, RunClear, RunBegin,
     RunAppend, RunDone, RunThrow, RunTimeout, Fail, RunNotify
<1>2. exec[s].job \in Jobs
  BY <1>1 DEF IInv, OneToken
<1>3. PICK j \in Jobs : exec[s].job = j
  BY <1>2
<1> QED
  BY <1>1, <1>3, StepPreserves

\* The end of a run() gives the token up.
LEMMA FinishPreserves ==
  ASSUME IInv, NEW s \in Slots, Finish(s)
  PROVE  IInv'
<1>1. Busy(s) /\ UNCHANGED <<status, log, runs, notes, call, late, hostVars>>
  BY DEF Finish, RunEnd, Busy
<1>2. exec[s].job \in Jobs
  BY <1>1 DEF IInv, OneToken
<1>3. PICK j \in Jobs : exec[s].job = j
  BY <1>2
<1>4. exec' = [exec EXCEPT ![s] = Idle]
  BY DEF Finish, RunEnd
<1>5. TypeOK'
  <2>1. Idle \in Invocation
    BY DEF Idle, Invocation, RunPcs, Status
  <2> QED
    BY <1>1, <1>4, <2>1 DEF IInv, TypeOK, JobTypeOK, hostVars
<1>6. exec'[s].pc = "idle" /\ \A t \in Slots \ {s} : exec'[t] = exec[t]
  BY <1>4 DEF IInv, TypeOK, JobTypeOK, Idle
<1>7. SlotOK(s)'
  BY <1>6 DEF SlotOK, Busy
<1>8. JobOK(j)'
  BY <1>1, JobOKs DEF IInv, JobOK, CompleteLog
<1> QED
  BY <1>1, <1>3, <1>5, <1>6, <1>7, <1>8, OwnerWrites

\* A generator that outlived its run() only writes to the log of a job that
\* has already failed.
LEMMA LeftoverPreserves ==
  ASSUME IInv, Leftover
  PROVE  IInv'
<1> USE DEF Terminal, NonTerminal
<1>1. PICK g \in late : LateAppend(g) /\ UNCHANGED hostVars
  BY DEF Leftover
<1>2. /\ UNCHANGED <<status, runs, notes, call, exec, hostVars>>
      /\ status[g.job] = "failed" /\ g.job \in Jobs
      /\ g \in [slot : Slots, job : Jobs, num : Nat, sent : Nat]
  BY <1>1 DEF LateAppend, IInv, LateMatches, TypeOK, JobTypeOK
<1>3. \A k \in Jobs : status[k] # "failed" => log'[k] = log[k]
  BY <1>1, <1>2 DEF LateAppend, IInv, TypeOK, JobTypeOK
<1>4. TypeOK'
  <2>1. Append(log[g.job], <<g.num, g.sent + 1>>) \in Seq(Nat \X Nat)
    <3>1. log[g.job] \in Seq(Nat \X Nat) /\ <<g.num, g.sent + 1>> \in Nat \X Nat
      BY <1>2 DEF IInv, TypeOK, JobTypeOK
    <3> QED
      BY <3>1
  <2>2. log' \in [Jobs -> Seq(Nat \X Nat)]
    BY <1>1, <1>2, <2>1 DEF LateAppend, IInv, TypeOK, JobTypeOK
  <2>3. late' \subseteq [slot : Slots, job : Jobs, num : Nat, sent : Nat]
    <3>1. [g EXCEPT !.sent = @ + 1] \in [slot : Slots, job : Jobs, num : Nat, sent : Nat]
      BY <1>2
    <3> QED
      BY <1>1, <3>1 DEF LateAppend, IInv, TypeOK, JobTypeOK
  <2> QED
    BY <1>2, <2>2, <2>3 DEF IInv, TypeOK, JobTypeOK, hostVars
<1>5. \A h \in late' : h.job = g.job \/ h \in late
  BY <1>1, <1>2 DEF LateAppend
<1>6. OneToken'
  BY <1>2 DEF IInv, OneToken, Busy, hostVars
<1>7. CallMatches'
  BY <1>2, <1>3 DEF IInv, CallMatches, Fresh, hostVars, OneToken
<1>8. SlotMatches'
  <2> SUFFICES ASSUME NEW t \in Slots
               PROVE  SlotOK(t)'
    BY DEF SlotMatches
  <2>1. SlotOK(t) /\ (Busy(t) => exec[t].job \in Jobs)
    BY DEF IInv, SlotMatches, OneToken
  <2>2. \A k \in Jobs : Fresh(k) => Fresh(k)'
    BY <1>2, <1>3 DEF Fresh
  <2> QED
    BY <1>2, <1>3, <2>1, <2>2 DEF SlotOK, Busy, Wrote
<1>9. LateMatches' /\ DownMatches'
  BY <1>1, <1>2, <1>5 DEF IInv, LateMatches, DownMatches, Busy, hostVars
<1>10. RunsOnce' /\ DoneMeansComplete' /\ ToldTheTruth'
  BY <1>2, <1>3 DEF IInv, RunsOnce, DoneMeansComplete, ToldTheTruth, CompleteLog
<1> QED
  BY <1>4, <1>6, <1>7, <1>8, <1>9, <1>10 DEF IInv

\* The server dies: every token it held is gone.
LEMMA CrashPreserves ==
  ASSUME IInv, Crash
  PROVE  IInv'
<1> USE DEF Terminal, NonTerminal
<1>1. /\ server' = "down" /\ stale' = {} /\ crashes' = crashes + 1
      /\ dispatched' = [j \in Jobs |-> 0]
      /\ exec' = [s \in Slots |-> Idle]
      /\ late' = {}
      /\ UNCHANGED <<status, log, runs, notes>>
  BY DEF Crash, LoseRuns, IInv, TypeOK, JobTypeOK
<1>2. \A j \in Jobs : call'[j] = IF call[j] \in InFlight THEN "lost" ELSE call[j]
  BY DEF Crash, LoseCalls
<1>3. call' \in [Jobs -> CallPcs]
  BY DEF Crash, LoseCalls, IInv, TypeOK, JobTypeOK, CallPcs
<1>4. TypeOK'
  <2>1. Idle \in Invocation
    BY DEF Idle, Invocation, RunPcs, Status
  <2> QED
    BY <1>1, <1>3, <2>1 DEF IInv, TypeOK, JobTypeOK
<1>5. \A s \in Slots : ~Busy(s)'
  BY <1>1 DEF Busy, Idle
<1>6. OneToken'
  BY <1>1, <1>5 DEF OneToken
<1>7. CallMatches'
  BY <1>1, <1>2 DEF IInv, CallMatches, Fresh, InFlight
<1>8. SlotMatches'
  BY <1>1 DEF SlotMatches, SlotOK, Idle, Busy
<1>9. LateMatches' /\ DownMatches'
  BY <1>1, <1>2, <1>5 DEF LateMatches, DownMatches, InFlight
<1>10. RunsOnce' /\ DoneMeansComplete' /\ ToldTheTruth'
  BY <1>1 DEF IInv, RunsOnce, DoneMeansComplete, ToldTheTruth, CompleteLog
<1> QED
  BY <1>4, <1>6, <1>7, <1>8, <1>9, <1>10 DEF IInv

\* The server comes back: it lists, rewrites and listens, and while it does
\* nothing else moves.
LEMMA BootPreserves ==
  ASSUME IInv, Boot \/ Listen
  PROVE  IInv'
<1> USE DEF Terminal, NonTerminal
<1>1. UNCHANGED <<jobVars, dispatched, crashes>> /\ server # "up"
  BY DEF Boot, Listen
<1>2. TypeOK' /\ OneToken' /\ CallMatches' /\ SlotMatches' /\ LateMatches'
  BY <1>1 DEF Boot, Listen, jobVars, IInv, TypeOK, JobTypeOK, OneToken, CallMatches, Fresh,
     SlotMatches, SlotOK, Busy, Wrote, LateMatches
<1>3. DownMatches'
  BY <1>1 DEF Boot, Listen, jobVars, IInv, DownMatches, Busy
<1>4. RunsOnce' /\ DoneMeansComplete' /\ ToldTheTruth'
  BY <1>1 DEF jobVars, IInv, RunsOnce, DoneMeansComplete, ToldTheTruth, CompleteLog
<1> QED
  BY <1>2, <1>3, <1>4 DEF IInv

LEMMA ReconcilePreserves ==
  ASSUME IInv, NEW j \in Jobs, Reconcile(j)
  PROVE  IInv'
<1> USE DEF Terminal, NonTerminal
<1>1. /\ server = "boot" /\ status[j] \in NonTerminal
      /\ status'[j] = "interrupted"
      /\ \A k \in Jobs \ {j} : status'[k] = status[k]
      /\ stale' = stale \ {j}
      /\ UNCHANGED <<log, runs, notes, call, exec, late, dispatched, server, crashes>>
  BY DEF Reconcile, ReconcileSave, IInv, TypeOK, JobTypeOK, DownMatches
<1>2. /\ \A s \in Slots : ~Busy(s)
      /\ \A k \in Jobs : dispatched[k] = 0 /\ call[k] \notin InFlight
      /\ late = {}
  BY <1>1 DEF IInv, DownMatches
<1>3. TypeOK'
  BY <1>1 DEF Reconcile, ReconcileSave, IInv, TypeOK, JobTypeOK, Status
<1>4. OneToken' /\ LateMatches'
  BY <1>1, <1>2 DEF IInv, OneToken, Busy, LateMatches
<1>5. CallMatches'
  BY <1>1, <1>2 DEF IInv, CallMatches, Fresh, InFlight
<1>6. SlotMatches'
  BY <1>1, <1>2 DEF IInv, SlotMatches, SlotOK, Busy
<1>7. DownMatches'
  BY <1>1, <1>2, SMTT(20) DEF IInv, TypeOK, DownMatches, Busy
<1>8. notes[j] = <<>>
  <2>1. notes[j] \in Seq(Terminal) /\ (notes[j] # <<>> => status[j] = notes[j][1])
    BY DEF IInv, TypeOK, JobTypeOK, ToldTheTruth
  <2>2. notes[j] # <<>> => notes[j][1] \in Terminal
    BY <2>1
  <2> QED
    BY <1>1, <2>1, <2>2
<1>9. RunsOnce' /\ DoneMeansComplete' /\ ToldTheTruth'
  BY <1>1, <1>8 DEF IInv, RunsOnce, DoneMeansComplete, ToldTheTruth, CompleteLog
<1> QED
  BY <1>3, <1>4, <1>5, <1>6, <1>7, <1>9 DEF IInv

LEMMA InitEstablishes == Init => IInv
<1> SUFFICES ASSUME Init PROVE IInv
  OBVIOUS
<1> USE DEF Init, JobInit, Terminal, NonTerminal
<1>1. TypeOK
  BY DEF TypeOK, JobTypeOK, Status, CallPcs, Idle, Invocation, RunPcs
<1>2. \A s \in Slots : ~Busy(s)
  BY DEF Busy, Idle
<1>3. OneToken /\ CallMatches /\ LateMatches /\ DownMatches
  BY <1>2 DEF OneToken, CallMatches, LateMatches, DownMatches, Fresh
<1>4. SlotMatches
  BY DEF SlotMatches, SlotOK, Busy, Idle
<1>5. RunsOnce /\ DoneMeansComplete /\ ToldTheTruth
  BY DEF RunsOnce, DoneMeansComplete, ToldTheTruth
<1> QED
  BY <1>1, <1>3, <1>4, <1>5 DEF IInv

LEMMA NextPreserves == IInv /\ [Next]_vars => IInv'
<1> SUFFICES ASSUME IInv, [Next]_vars PROVE IInv'
  OBVIOUS
<1>1. CASE UNCHANGED vars
  BY <1>1 DEF vars, jobVars, hostVars, IInv, TypeOK, JobTypeOK, OneToken, CallMatches, Fresh,
     SlotMatches, SlotOK, Busy, Wrote, LateMatches, DownMatches, RunsOnce, DoneMeansComplete,
     ToldTheTruth, CompleteLog
<1>2. CASE Next
  BY <1>2, StartPreserves, EnqueuePreserves, DispatchPreserves, BusyStep, FinishPreserves,
     LeftoverPreserves, CrashPreserves, BootPreserves, ReconcilePreserves DEF Next
<1> QED
  BY <1>1, <1>2

\* The state invariants of the in-process substrate, for every instance.
THEOREM Invariance == Spec => []IInv
<1> QED
  BY InitEstablishes, NextPreserves, PTL DEF Spec

\* Every variable keeps its type.
THEOREM TypeCorrect == Spec => []TypeOK
<1>1. IInv => TypeOK
  BY DEF IInv
<1> QED
  BY <1>1, Invariance, PTL

\* No job is executed twice (runner.ts run(), InProcessJobQueue, recovery.ts).
THEOREM AtMostOneExecution == Spec => []RunsOnce
<1>1. IInv => RunsOnce
  BY DEF IInv
<1> QED
  BY <1>1, Invariance, PTL

\* The run-log of a job that is done is complete, whatever timed-out runs of
\* other jobs still write.
THEOREM DoneLogsAreComplete == Spec => []DoneMeansComplete
<1>1. IInv => DoneMeansComplete
  BY DEF IInv
<1> QED
  BY <1>1, Invariance, PTL

\* The owner is told at most once, and the truth.
THEOREM OwnersAreToldTheTruth == Spec => []ToldTheTruth
<1>1. IInv => ToldTheTruth
  BY DEF IInv
<1> QED
  BY <1>1, Invariance, PTL

-----------------------------------------------------------------------------
(* The in-process substrate implements JobPromise: under the inductive     *)
(* invariant each of its steps is one step of the promise, seen through    *)
(* status and the first notification, or changes neither.                  *)

Told == [j \in Jobs |-> IF notes[j] = <<>> THEN "nothing" ELSE notes[j][1]]

\* The two ways a step of the substrate shows: a move of one job's status, or
\* the first notification of one job.
Moved(from, to) ==
  \E j \in Jobs : /\ status[j] \in from
                  /\ status' = [status EXCEPT ![j] = to]
                  /\ UNCHANGED notes

Heard ==
  \E j \in Jobs : /\ status[j] \in Terminal
                  /\ notes[j] = <<>>
                  /\ notes' = [notes EXCEPT ![j] = <<status[j]>>]
                  /\ UNCHANGED status

Visible ==
  \/ Moved({"absent"}, "queued")
  \/ Moved({"queued"}, "running")
  \/ Moved({"running"}, "done")
  \/ Moved({"queued", "running"}, "failed")
  \/ Moved({"queued", "running"}, "interrupted")
  \/ Heard
  \/ UNCHANGED <<status, notes>>

\* start(): the record appears, is refused, and its owner hears of it.
LEMMA StartVisible ==
  ASSUME IInv, NEW j \in Jobs, Start(j)
  PROVE  Visible
<1> USE DEF IInv, CallMatches, Fresh, TypeOK, JobTypeOK
<1>1. CASE StartCreate(j)
  BY <1>1 DEF StartCreate, Visible, Moved
<1>2. CASE StartAdmit(j)
  BY <1>2 DEF StartAdmit, Visible
<1>3. CASE StartReject(j)
  BY <1>3 DEF StartReject, Visible, Moved
<1>4. CASE StartNotify(j)
  <2>1. /\ status[j] = "failed" /\ notes[j] = <<>> /\ UNCHANGED status
        /\ notes' = [notes EXCEPT ![j] = Append(notes[j], "failed")]
    BY <1>4 DEF StartNotify
  <2>2. Append(notes[j], "failed") = <<status[j]>>
    BY <2>1
  <2>3. notes' = [notes EXCEPT ![j] = <<status[j]>>]
    BY <2>1, <2>2
  <2> QED
    BY <2>1, <2>3 DEF Visible, Heard, Terminal
<1> QED
  BY <1>1, <1>2, <1>3, <1>4 DEF Start, StartStep

\* run(): the record starts running, ends, and its owner hears of it.
LEMMA StepVisible ==
  ASSUME IInv, NEW s \in Slots, Step(s)
  PROVE  Visible
<1> DEFINE j == exec[s].job
<1>1. ASSUME Busy(s)
      PROVE  j \in Jobs /\ SlotOK(s)
  BY <1>1 DEF IInv, OneToken, SlotMatches
<1>2. CASE RunGet(s) \/ RunGateAdmit(s) \/ RunClear(s) \/ RunAppend(s)
  BY <1>2 DEF RunGet, RunGateAdmit, RunClear, RunAppend, Visible
<1>3. CASE RunGateReject(s)
  BY <1>1, <1>3 DEF RunGateReject, Busy, SlotOK, Fresh, Visible, Moved
<1>4. CASE RunBegin(s)
  BY <1>1, <1>4 DEF RunBegin, Busy, SlotOK, Fresh, Visible, Moved
<1>5. CASE RunDone(s)
  BY <1>1, <1>5 DEF RunDone, Busy, SlotOK, Visible, Moved
<1>6. CASE Fail(s)
  BY <1>1, <1>6 DEF Fail, Busy, SlotOK, Visible, Moved
<1>7. ASSUME NEW delivered \in BOOLEAN, RunNotify(s, delivered)
      PROVE  Visible
  <2>1. /\ j \in Jobs /\ status[j] = exec[s].seen /\ exec[s].seen \in Terminal
        /\ notes[j] = <<>> /\ UNCHANGED status
    BY <1>1, <1>7 DEF RunNotify, Busy, SlotOK
  <2>2. notes' = [notes EXCEPT ![j] = Append(notes[j], status[j])]
    BY <1>7, <2>1 DEF RunNotify, Terminal
  <2>3. Append(notes[j], status[j]) = <<status[j]>>
    BY <2>1
  <2>4. notes' = [notes EXCEPT ![j] = <<status[j]>>]
    BY <2>2, <2>3
  <2> QED
    BY <2>1, <2>4 DEF Visible, Heard
<1> QED
  BY <1>2, <1>3, <1>4, <1>5, <1>6, <1>7 DEF Step, RunStep, RunThrow, RunTimeout

LEMMA StepsAreVisible == IInv /\ [Next]_vars => Visible
<1> SUFFICES ASSUME IInv, [Next]_vars PROVE Visible
  OBVIOUS
<1>1. CASE UNCHANGED vars
  BY <1>1 DEF vars, jobVars, Visible
<1>2. ASSUME NEW j \in Jobs, Start(j)
      PROVE  Visible
  BY <1>2, StartVisible
<1>3. ASSUME NEW j \in Jobs, Enqueue(j)
      PROVE  Visible
  BY <1>3 DEF Enqueue, StartEnqueue, Visible
<1>4. ASSUME NEW j \in Jobs, Reconcile(j)
      PROVE  Visible
  BY <1>4 DEF Reconcile, ReconcileSave, IInv, DownMatches, NonTerminal, Visible, Moved
<1>5. ASSUME NEW s \in Slots, Step(s)
      PROVE  Visible
  BY <1>5, StepVisible
<1>6. ASSUME NEW s \in Slots, Finish(s)
      PROVE  Visible
  BY <1>6 DEF Finish, RunEnd, Visible
<1>7. ASSUME NEW s \in Slots, NEW j \in Jobs, Dispatch(s, j)
      PROVE  Visible
  BY <1>7 DEF Dispatch, RunDeliver, Visible
<1>8. CASE Leftover
  BY <1>8 DEF Leftover, LateAppend, Visible
<1>9. CASE Crash \/ Boot \/ Listen
  BY <1>9 DEF Crash, Boot, Listen, jobVars, Visible
<1> QED
  BY <1>1, <1>2, <1>3, <1>4, <1>5, <1>6, <1>7, <1>8, <1>9 DEF Next

\* A settled status is never rewritten: no redelivery, late refusal, timed-out
\* generator or restart touches it (runner.ts run(), recovery.ts).
THEOREM SettledStatusIsFinal == Spec => SettledIsFinal
<1>1. IInv /\ [Next]_vars => [\A j \in Jobs : Settled(j) => status'[j] = status[j]]_vars
  <2> SUFFICES ASSUME IInv, [Next]_vars, NEW j \in Jobs, Settled(j)
               PROVE  status'[j] = status[j]
    OBVIOUS
  <2>1. status \in [Jobs -> Status]
    BY DEF IInv, TypeOK, JobTypeOK
  <2> QED
    BY <2>1, StepsAreVisible DEF Visible, Moved, Heard, Settled, Terminal
<1> QED
  BY <1>1, Invariance, PTL DEF Spec, SettledIsFinal

\* What the clients of the job API are promised is what the in-process
\* substrate does (JobPromise through status and the first notification).
THEOREM PromiseKept == Spec => ImplementsPromise
<1>1. Init => Promise!PromiseInit
  BY DEF Init, JobInit, Promise!PromiseInit
<1>2. IInv /\ [Next]_vars => [Promise!PromiseNext]_(Promise!promiseVars)
  <2> SUFFICES ASSUME IInv, [Next]_vars
               PROVE  Promise!PromiseNext \/ UNCHANGED Promise!promiseVars
    OBVIOUS
  <2> USE DEF Promise!PromiseNext
  <2>1. status \in [Jobs -> Status] /\ notes \in [Jobs -> Seq(Terminal)]
    BY DEF IInv, TypeOK, JobTypeOK
  <2>2. ASSUME NEW from, NEW to, Moved(from, to)
        PROVE  \E j \in Jobs : Promise!Move(j, from, to)
    BY <2>2 DEF Moved, Promise!Move
  <2>3. ASSUME Heard
        PROVE  Promise!PromiseNext
    <3>1. PICK j \in Jobs : /\ status[j] \in Terminal
                            /\ notes[j] = <<>>
                            /\ notes' = [notes EXCEPT ![j] = <<status[j]>>]
                            /\ UNCHANGED status
      BY <2>3 DEF Heard
    <3>2. notes'[j] # <<>> /\ notes'[j][1] = status[j]
      BY <2>1, <3>1
    <3>3. \A k \in Jobs \ {j} : notes'[k] = notes[k]
      BY <2>1, <3>1
    <3>4. Told' = [Told EXCEPT ![j] = status[j]]
      BY <3>2, <3>3 DEF Told
    <3>5. Promise!Tell(j)
      BY <3>1, <3>4 DEF Promise!Tell, Told, Terminal
    <3> QED
      BY <3>5
  <2> QED
    BY <2>2, <2>3, StepsAreVisible
       DEF Visible, Promise!Accept, Promise!Run, Promise!Complete, Promise!Refuse,
           Promise!Interrupt, Promise!promiseVars
<1> QED
  BY <1>1, <1>2, Invariance, PTL DEF Spec, ImplementsPromise, Promise!PromiseSpec

-----------------------------------------------------------------------------
(* The event stream, however its polls fall between the steps of the jobs: *)
(* a run-log only grows, because in process no log is ever cleared; the    *)
(* loop's position is the number of events it has written; and the status  *)
(* that ends a stream is settled.                                          *)

Rows == Nat \X Nat

\* A sequence that has grown by one row at most.
Grown(old, new) == new = old \/ \E row \in Rows : new = Append(old, row)

\* The rows of g are the first ones of l.
Begins(g, l) == Len(g) <= Len(l) /\ \A n \in 1..Len(g) : g[n] = l[n]

LEMMA BeginsIsPrefix ==
  ASSUME NEW g \in Seq(Rows), NEW l \in Seq(Rows), Begins(g, l)
  PROVE  g = SubSeq(l, 1, Len(g))
<1>1. Len(g) \in Nat /\ Len(l) \in Nat /\ Len(g) <= Len(l)
  BY DEF Begins
<1>2. \A n \in 1..Len(g) : l[n] \in Rows
  BY <1>1, ElementOfSeq
<1> DEFINE p == SubSeq(l, 1, Len(g))
<1>3. /\ p \in Seq(Rows)
      /\ Len(p) = IF 1 <= Len(g) THEN Len(g) - 1 + 1 ELSE 0
      /\ \A n \in 1..(Len(g) - 1 + 1) : p[n] = l[1 + n - 1]
  BY <1>1, <1>2, SubSeqProperties
<1>4. Len(p) = Len(g) /\ \A n \in 1..Len(g) : g[n] = p[n]
  BY <1>1, <1>3 DEF Begins
<1> HIDE DEF p
<1> QED
  BY <1>3, <1>4, SeqEqual DEF p

LEMMA BeginsOfGrown ==
  ASSUME NEW g \in Seq(Rows), NEW l \in Seq(Rows), NEW m, Begins(g, l), Grown(l, m)
  PROVE  Begins(g, m)
<1>1. CASE m = l
  BY <1>1
<1>2. ASSUME NEW row \in Rows, m = Append(l, row)
      PROVE  Begins(g, m)
  <2>1. Len(m) = Len(l) + 1 /\ \A n \in 1..Len(l) : m[n] = l[n]
    BY <1>2, AppendProperties
  <2> QED
    BY <2>1 DEF Begins
<1> QED
  BY <1>1, <1>2 DEF Grown

\* A poll that writes what is left of the rows has written all of them.
LEMMA CaughtUpByRead ==
  ASSUME NEW g \in Seq(Rows), NEW l \in Seq(Rows), Begins(g, l)
  PROVE  g \o SubSeq(l, Len(g) + 1, Len(l)) = l
<1>1. Len(g) \in Nat /\ Len(l) \in Nat /\ Len(g) <= Len(l)
  BY DEF Begins
<1>2. g = SubSeq(l, 1, Len(g))
  BY BeginsIsPrefix
<1>3. /\ 1 \in 1..Len(l) + 1
      /\ Len(g) \in 1 - 1 .. Len(l)
      /\ Len(l) \in Len(g)..Len(l)
  BY <1>1
<1>4. SubSeq(l, 1, Len(g)) \o SubSeq(l, Len(g) + 1, Len(l)) = SubSeq(l, 1, Len(l))
  BY <1>3, ConcatAdjacentSubSeq
<1>5. SubSeq(l, 1, Len(l)) = l
  BY SubSeqFull
<1> QED
  BY <1>2, <1>4, <1>5

LEMMA BeginsItself ==
  ASSUME NEW l \in Seq(Rows)
  PROVE  Begins(l, l)
  BY DEF Begins

-----------------------------------------------------------------------------
\* No step of the in-process substrate takes a row back: run() clears a log
\* only when it resumes an interrupted job, which is never dispatched here.
LEMMA LogsGrow ==
  ASSUME IInv, [Next]_vars, NEW j \in Jobs
  PROVE  Grown(log[j], log'[j])
<1> USE DEF Grown
<1>1. CASE UNCHANGED vars
  BY <1>1 DEF vars, jobVars
<1>2. ASSUME NEW k \in Jobs, Start(k) \/ Enqueue(k) \/ Reconcile(k)
      PROVE  Grown(log[j], log'[j])
  BY <1>2 DEF Start, StartStep, StartCreate, StartAdmit, StartReject, StartNotify, Enqueue,
     StartEnqueue, Reconcile, ReconcileSave
<1>3. ASSUME NEW s \in Slots, Step(s)
      PROVE  Grown(log[j], log'[j])
  <2>1. SlotOK(s) /\ log \in [Jobs -> Seq(Rows)] /\ exec[s] \in Invocation
    BY DEF IInv, SlotMatches, TypeOK, JobTypeOK, Rows
  <2>2. CASE RunAppend(s)
    <3>1. exec[s].sent + 1 \in Nat /\ exec[s].num \in Nat
      BY <2>1 DEF Invocation
    <3>2. <<exec[s].num, exec[s].sent + 1>> \in Rows
      BY <3>1 DEF Rows
    <3>3. log' = [log EXCEPT ![exec[s].job] =
                    Append(log[exec[s].job], <<exec[s].num, exec[s].sent + 1>>)]
      BY <2>2 DEF RunAppend
    <3> QED
      BY <2>1, <3>2, <3>3
  <2>3. CASE RunClear(s)
    BY <2>1, <2>3 DEF RunClear, SlotOK
  <2>4. CASE ~RunAppend(s) /\ ~RunClear(s)
    BY <1>3, <2>4 DEF Step, RunStep, RunGet, RunGateAdmit, RunGateReject, RunBegin, RunDone,
       RunThrow, RunTimeout, Fail, RunNotify
  <2> QED
    BY <2>2, <2>3, <2>4
<1>4. ASSUME NEW s \in Slots, Finish(s)
      PROVE  Grown(log[j], log'[j])
  BY <1>4 DEF Finish, RunEnd
<1>5. ASSUME NEW s \in Slots, NEW k \in Jobs, Dispatch(s, k)
      PROVE  Grown(log[j], log'[j])
  BY <1>5 DEF Dispatch, RunDeliver
<1>6. CASE Leftover
  <2>1. PICK g \in late : LateAppend(g)
    BY <1>6 DEF Leftover
  <2>2. g \in [slot : Slots, job : Jobs, num : Nat, sent : Nat] /\ log \in [Jobs -> Seq(Rows)]
    BY DEF IInv, TypeOK, JobTypeOK, Rows
  <2>3. <<g.num, g.sent + 1>> \in Rows
    BY <2>2 DEF Rows
  <2>4. log' = [log EXCEPT ![g.job] = Append(log[g.job], <<g.num, g.sent + 1>>)]
    BY <2>1 DEF LateAppend
  <2> QED
    BY <2>2, <2>3, <2>4
<1>7. CASE Crash \/ Boot \/ Listen
  BY <1>7 DEF Crash, Boot, Listen, jobVars
<1> QED
  BY <1>1, <1>2, <1>3, <1>4, <1>5, <1>6, <1>7 DEF Next

\* A job that is done or failed stays as it is.
LEMMA TerminalStays ==
  ASSUME IInv, [Next]_vars, NEW j \in Jobs, status[j] \in Terminal
  PROVE  status'[j] \in Terminal
<1>1. status \in [Jobs -> Status]
  BY DEF IInv, TypeOK, JobTypeOK
<1> QED
  BY <1>1, StepsAreVisible DEF Visible, Moved, Heard, Terminal

-----------------------------------------------------------------------------
\* Where the stream of a job stands.
TailOK(j) ==
  /\ sent[j] = Len(got[j])
  /\ Begins(got[j], log[j])
  /\ tail[j] = "closed" => status[j] \in Terminal

StreamInv ==
  /\ IInv
  /\ tail \in [Jobs -> {"none", "read", "check", "closed"}]
  /\ sent \in [Jobs -> Nat]
  /\ got \in [Jobs -> Seq(Rows)]
  /\ \A j \in Jobs : TailOK(j)

LEMMA StreamInvImplies == StreamInv => StreamTypeOK /\ ReplayIsPrefix
<1> SUFFICES ASSUME StreamInv PROVE StreamTypeOK /\ ReplayIsPrefix
  OBVIOUS
<1>1. StreamTypeOK
  BY DEF StreamInv, StreamTypeOK, IInv, Rows
<1>2. ASSUME NEW j \in Jobs
      PROVE  /\ Len(got[j]) <= Len(log[j])
             /\ got[j] = SubSeq(log[j], 1, Len(got[j]))
             /\ tail[j] = "closed" => status[j] \in Terminal
  <2>1. got[j] \in Seq(Rows) /\ log[j] \in Seq(Rows) /\ TailOK(j)
    BY DEF StreamInv, IInv, TypeOK, JobTypeOK, Rows
  <2> QED
    BY <2>1, BeginsIsPrefix DEF TailOK, Begins
<1> QED
  BY <1>1, <1>2 DEF ReplayIsPrefix

LEMMA StreamInitEstablishes == StreamInit => StreamInv
<1> SUFFICES ASSUME StreamInit PROVE StreamInv
  OBVIOUS
<1>1. IInv
  BY InitEstablishes DEF StreamInit
<1>2. \A j \in Jobs : got[j] = <<>> /\ log[j] = <<>> /\ sent[j] = 0 /\ tail[j] = "none"
  BY DEF StreamInit, Init, JobInit
<1>3. Begins(<<>>, <<>>) /\ Len(<<>>) = 0
  BY DEF Begins
<1>4. \A j \in Jobs : TailOK(j)
  BY <1>2, <1>3 DEF TailOK
<1> QED
  BY <1>1, <1>4 DEF StreamInv, StreamInit

\* The job moves under a stream that does not.
LEMMA JobStepKeepsTails ==
  ASSUME StreamInv, [Next]_vars, UNCHANGED tailVars
  PROVE  StreamInv'
<1>1. IInv'
  BY NextPreserves DEF StreamInv
<1>2. ASSUME NEW j \in Jobs
      PROVE  TailOK(j)'
  <2>1. Grown(log[j], log'[j]) /\ (status[j] \in Terminal => status'[j] \in Terminal)
    BY LogsGrow, TerminalStays DEF StreamInv
  <2>2. got[j] \in Seq(Rows) /\ log[j] \in Seq(Rows) /\ TailOK(j)
    BY DEF StreamInv, IInv, TypeOK, JobTypeOK, Rows
  <2>3. Begins(got[j], log'[j])
    BY <2>1, <2>2, BeginsOfGrown DEF TailOK
  <2> QED
    BY <2>1, <2>2, <2>3 DEF TailOK, tailVars
<1> QED
  BY <1>1, <1>2 DEF StreamInv, tailVars

LEMMA StreamNextPreserves == StreamInv /\ [StreamNext]_streamVars => StreamInv'
<1> SUFFICES ASSUME StreamInv, [StreamNext]_streamVars PROVE StreamInv'
  OBVIOUS
<1>1. CASE JobStep /\ UNCHANGED tailVars
  BY <1>1, JobStepKeepsTails DEF JobStep, Next
<1>2. CASE UNCHANGED streamVars
  BY <1>2, JobStepKeepsTails DEF streamVars
<1>3. CASE StreamCrash
  <2>1. IInv' /\ UNCHANGED <<log, status>>
    BY <1>3, CrashPreserves DEF StreamCrash, StreamInv, Crash
  <2>2. \A j \in Jobs : \/ tail'[j] = "none" /\ sent'[j] = 0 /\ got'[j] = <<>>
                        \/ tail'[j] = tail[j] /\ sent'[j] = sent[j] /\ got'[j] = got[j]
    BY <1>3 DEF StreamCrash
  <2>3. \A j \in Jobs : log[j] \in Seq(Rows)
    BY DEF StreamInv, IInv, TypeOK, JobTypeOK, Rows
  <2>4. ASSUME NEW j \in Jobs
        PROVE  TailOK(j)'
    BY <2>1, <2>2, <2>3 DEF StreamInv, TailOK, Begins
  <2>5. /\ tail' \in [Jobs -> {"none", "read", "check", "closed"}]
        /\ sent' \in [Jobs -> Nat]
        /\ got' \in [Jobs -> Seq(Rows)]
    BY <1>3 DEF StreamCrash, StreamInv
  <2> QED
    BY <2>1, <2>4, <2>5 DEF StreamInv
<1>4. ASSUME NEW j \in Jobs, TailOpen(j) \/ TailCheck(j)
      PROVE  StreamInv'
  <2>1. IInv' /\ UNCHANGED <<log, status, sent, got>>
    BY <1>4, NextPreserves DEF TailOpen, TailCheck, StreamInv, vars, jobVars
  <2>2. /\ tail' \in [Jobs -> {"none", "read", "check", "closed"}]
        /\ \A k \in Jobs : tail'[k] = "closed" => tail[k] = "closed" \/ status[k] \in Terminal
    BY <1>4 DEF TailOpen, TailCheck, StreamInv
  <2> QED
    BY <2>1, <2>2 DEF StreamInv, TailOK
<1>5. ASSUME NEW j \in Jobs, TailRead(j)
      PROVE  StreamInv'
  <2>1. IInv' /\ UNCHANGED <<log, status>>
    BY <1>5, NextPreserves DEF TailRead, StreamInv, vars, jobVars
  <2>2. got[j] \in Seq(Rows) /\ log[j] \in Seq(Rows) /\ TailOK(j)
    BY DEF StreamInv, IInv, TypeOK, JobTypeOK, Rows
  <2>3. got[j] \o SubSeq(log[j], Len(got[j]) + 1, Len(log[j])) = log[j]
    BY <2>2, CaughtUpByRead DEF TailOK
  <2>4. got' = [got EXCEPT ![j] = log[j]]
    BY <1>5, <2>2, <2>3 DEF TailRead, TailOK
  <2>5. sent' = [sent EXCEPT ![j] = Len(log[j])]
    <3>1. /\ sent[j] \in Nat /\ Len(log[j]) \in Nat /\ sent[j] <= Len(log[j])
          /\ (IF sent[j] < Len(log[j]) THEN Len(log[j]) ELSE sent[j]) = Len(log[j])
      BY <2>2 DEF StreamInv, TailOK, Begins
    <3> QED
      BY <1>5, <3>1 DEF TailRead
  <2>6. tail' = [tail EXCEPT ![j] = "check"]
    BY <1>5 DEF TailRead
  <2>7. Begins(log[j], log[j])
    BY <2>2, BeginsItself
  <2>8. ASSUME NEW k \in Jobs
        PROVE  TailOK(k)'
    BY <2>1, <2>4, <2>5, <2>6, <2>7 DEF StreamInv, TailOK
  <2> QED
    BY <2>1, <2>2, <2>4, <2>5, <2>6, <2>8 DEF StreamInv
<1> QED
  BY <1>1, <1>2, <1>3, <1>4, <1>5 DEF StreamNext

\* Every variable of the stream keeps its type.
THEOREM StreamTypeCorrect == StreamSpec => []StreamTypeOK
<1> QED
  BY StreamInitEstablishes, StreamNextPreserves, StreamInvImplies, PTL DEF StreamSpec

\* A client has received the run-log up to where its stream stands, and its
\* stream is closed only for a job that has ended (server.ts, GET
\* /api/jobs/:id/events).
THEOREM ClientsReadThePrefix == StreamSpec => []ReplayIsPrefix
<1> QED
  BY StreamInitEstablishes, StreamNextPreserves, StreamInvImplies, PTL DEF StreamSpec
=============================================================================
