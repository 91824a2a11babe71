--------------------------- MODULE InProcessJobs ---------------------------
(***************************************************************************)
(* The default substrate: the web server consumes its own queue.  enqueue  *)
(* starts a detached run() in the same process, nothing is redelivered,    *)
(* and a server that comes back marks whatever its predecessor left queued *)
(* or running as interrupted before it listens.                            *)
(***************************************************************************)
EXTENDS JobRunner, FiniteSets

CONSTANT MaxCrashes   \* bound on how often the server dies

ASSUME InProcessAssumption == MaxCrashes \in Nat

VARIABLES
  dispatched,  \* dispatched[j]: detached runs of j that have not begun
  server,      \* "up", "down", or "boot" while reconcileJobs() runs
  stale,       \* the jobs reconcileJobs() has listed and not yet rewritten
  crashes

hostVars == <<dispatched, server, stale, crashes>>
vars == <<jobVars, hostVars>>

Init ==
  /\ JobInit
  /\ dispatched = [j \in Jobs |-> 0]
  /\ server = "up"
  /\ stale = {}
  /\ crashes = 0

TypeOK ==
  /\ JobTypeOK
  /\ dispatched \in [Jobs -> Nat]
  /\ server \in {"up", "down", "boot"}
  /\ stale \subseteq Jobs
  /\ crashes \in Nat

-----------------------------------------------------------------------------
Start(j) ==
  /\ server = "up"
  /\ StartStep(j)
  /\ UNCHANGED hostVars

\* InProcessJobQueue.enqueue: the consumer is registered by buildHarness, so
\* the id is dispatched at once.
Enqueue(j) ==
  /\ server = "up"
  /\ StartEnqueue(j)
  /\ dispatched' = [dispatched EXCEPT ![j] = @ + 1]
  /\ UNCHANGED <<server, stale, crashes>>

\* The consumer is `(id) => jobs.run(id)`: the context is the default one, so
\* the first attempt is the last.
Dispatch(s, j) ==
  /\ dispatched[j] > 0
  /\ RunDeliver(s, j, TRUE)
  /\ dispatched' = [dispatched EXCEPT ![j] = @ - 1]
  /\ UNCHANGED <<server, stale, crashes>>

Step(s) == RunStep(s) /\ UNCHANGED hostVars

\* A rejected run() is swallowed by the dispatcher.
Finish(s) ==
  /\ \E how \in {"return", "throw"} : RunEnd(s, how)
  /\ UNCHANGED hostVars

Leftover == (\E g \in late : LateAppend(g)) /\ UNCHANGED hostVars

\* A crash, or SIGTERM: the shutdown handler does not drain the queue.
Crash ==
  /\ server # "down"
  /\ crashes < MaxCrashes
  /\ crashes' = crashes + 1
  /\ server' = "down"
  /\ stale' = {}
  /\ dispatched' = [j \in Jobs |-> 0]
  /\ LoseRuns(Slots)
  /\ LoseCalls
  /\ UNCHANGED <<status, log, runs, notes>>

\* Seeded fault: what was running is not listed.
BootQueuedOnly ==
  /\ server = "down"
  /\ server' = "boot"
  /\ stale' = {j \in Jobs : status[j] = "queued"}
  /\ UNCHANGED <<jobVars, dispatched, crashes>>

Boot ==
  /\ server = "down"
  /\ server' = "boot"
  /\ stale' = {j \in Jobs : status[j] \in NonTerminal}
  /\ UNCHANGED <<jobVars, dispatched, crashes>>

Reconcile(j) ==
  /\ server = "boot"
  /\ j \in stale
  /\ ReconcileSave(j)
  /\ stale' = stale \ {j}
  /\ UNCHANGED <<dispatched, server, crashes>>

\* Seeded fault: the server re-dispatches what it marked interrupted.
ListenRequeueing ==
  /\ server = "boot"
  /\ stale = {}
  /\ server' = "up"
  /\ dispatched' = [j \in Jobs |-> IF status[j] = "interrupted" THEN 1 ELSE 0]
  /\ UNCHANGED <<jobVars, stale, crashes>>

\* The server listens once reconcileJobs() has resolved.
Listen ==
  /\ server = "boot"
  /\ stale = {}
  /\ server' = "up"
  /\ UNCHANGED <<jobVars, dispatched, stale, crashes>>

Next ==
  \/ \E j \in Jobs : Start(j) \/ Enqueue(j) \/ Reconcile(j)
  \/ \E s \in Slots : Step(s) \/ Finish(s)
  \/ \E s \in Slots, j \in Jobs : Dispatch(s, j)
  \/ Leftover
  \/ Crash
  \/ Boot
  \/ Listen

Spec == Init /\ [][Next]_vars

\* The event loop runs what it has started, and an orchestrator's loops are
\* bounded, so a run() ends; a server that died is started again.  Clients
\* are not fair: a job need not be created.
Fairness ==
  /\ \A j \in Jobs : WF_vars(call[j] # "none" /\ Start(j)) /\ WF_vars(Enqueue(j))
  /\ \A j \in Jobs : WF_vars(\E s \in Slots : Dispatch(s, j))
  /\ \A s \in Slots : WF_vars(Step(s)) /\ WF_vars(Finish(s))
  /\ WF_vars(Boot) /\ WF_vars(\E j \in Jobs : Reconcile(j)) /\ WF_vars(Listen)

FairSpec == Spec /\ Fairness

-----------------------------------------------------------------------------
\* A job that ended is done for good: no later delivery, refusal or restart
\* rewrites the status a client may already have read (runner.ts run(),
\* reconcileJobs()).
Settled(j) == status[j] \in Terminal \cup {"interrupted"}

SettledIsFinal == [][\A j \in Jobs : Settled(j) => status'[j] = status[j]]_vars

\* A job is executed at most once over its whole life, restarts included: the
\* queue never holds two dispatches of one id and a reconciled job is not run
\* again (InProcessJobQueue, reconcileJobs without re-enqueue).
RunsOnce == \A j \in Jobs : runs[j] <= 1

\* The run-log a client replays for a job that is done holds every event of
\* its run exactly once and in order, whatever timed-out runs of other jobs
\* still append (appendEvent / clearEvents / withTimeout).
DoneMeansComplete ==
  \A j \in Jobs : status[j] = "done" => log[j] = CompleteLog(1)

\* The owner is told at most once how a job ended, and never of an outcome
\* that the record contradicts (onComplete on the three paths of start() and
\* run()).
ToldTheTruth ==
  \A j \in Jobs : /\ Len(notes[j]) <= 1
                  /\ notes[j] # <<>> => status[j] = notes[j][1]

\* The API's promise, with the record's status as the client's view.
Promise == INSTANCE JobPromise WITH
  phase <- status,
  told <- [j \in Jobs |-> IF notes[j] = <<>> THEN "nothing" ELSE notes[j][1]]

ImplementsPromise == Promise!PromiseSpec

\* No user waits forever on a phantom job: every job that was created ends as
\* done, failed or interrupted, however the server dies and comes back; and the
\* owner is told of a done or failed one, unless a crash came in between.
EveryJobSettles ==
  \A j \in Jobs :
    call[j] # "none" ~> /\ Settled(j)
                        /\ status[j] \in Terminal => notes[j] # <<>> \/ crashes > 0

-----------------------------------------------------------------------------
(* The inductive invariant behind the safety properties.  A job has one    *)
(* token: its start() call, then its dispatch, then the slot that runs it. *)
(* Whoever holds the token is the only one that writes the record, so each *)
(* position of the token says what the record and the run-log hold.        *)

Busy(s) == exec[s].pc # "idle"

OneToken ==
  /\ \A j \in Jobs : /\ dispatched[j] \in {0, 1}
                     /\ dispatched[j] = 1 => call[j] = "returned"
  /\ \A s \in Slots : Busy(s) => /\ exec[s].job \in Jobs
                                 /\ call[exec[s].job] = "returned"
                                 /\ dispatched[exec[s].job] = 0
  /\ \A s, t \in Slots : Busy(s) /\ Busy(t) /\ s # t
                           => exec[s].job # exec[t].job

Fresh(j) == status[j] = "queued" /\ runs[j] = 0 /\ log[j] = <<>> /\ notes[j] = <<>>

CallMatches ==
  \A j \in Jobs :
    /\ call[j] = "none" => /\ status[j] = "absent" /\ runs[j] = 0
                           /\ log[j] = <<>> /\ notes[j] = <<>>
    /\ call[j] \in {"created", "admitted"} => Fresh(j)
    /\ call[j] = "rejected" => status[j] = "failed" /\ notes[j] = <<>>
    /\ dispatched[j] = 1 => Fresh(j)

Wrote(s) == [n \in 1..exec[s].sent |-> <<1, n>>]

SlotOK(s) ==
  LET e == exec[s]
      j == exec[s].job
  IN  /\ e.pc # "clear"
      /\ Busy(s) => e.last
      /\ e.pc \in {"get", "gate", "begin"} => Fresh(j) /\ e.sent = 0
      /\ e.pc = "gate" => e.seen = "queued"
      /\ e.pc = "stream" => /\ status[j] = "running" /\ runs[j] = 1
                            /\ notes[j] = <<>>
                            /\ e.num = 1 /\ e.sent \in 0..Events
                            /\ log[j] = Wrote(s)
      /\ e.pc = "notify" => /\ e.seen \in Terminal /\ status[j] = e.seen
                            /\ notes[j] = <<>>

SlotMatches == \A s \in Slots : SlotOK(s)

LateMatches == \A g \in late : status[g.job] = "failed"

\* Nothing of the old process is left while the server is down or booting.
DownMatches ==
  /\ server # "up" => /\ \A s \in Slots : ~Busy(s)
                      /\ \A j \in Jobs : dispatched[j] = 0 /\ call[j] \notin InFlight
                      /\ late = {}
  /\ server # "boot" => stale = {}
  /\ \A j \in stale : status[j] \in NonTerminal

IInv ==
  /\ TypeOK
  /\ OneToken
  /\ CallMatches
  /\ SlotMatches
  /\ LateMatches
  /\ DownMatches
  /\ RunsOnce
  /\ DoneMeansComplete
  /\ ToldTheTruth
=============================================================================
