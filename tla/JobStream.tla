----------------------------- MODULE JobStream -----------------------------
(***************************************************************************)
(* GET /api/jobs/:id/events: a server-sent-event stream that tails the     *)
(* persisted run-log of one job by polling.  A poll is two reads: the      *)
(* events, which are written from position `sent` on, and then the record, *)
(* whose status decides whether the stream ends.  A client that loses the  *)
(* connection opens a new stream, which replays from the start.            *)
(* The job is produced by InProcessJobs.                                   *)
(***************************************************************************)
EXTENDS InProcessJobs

CONSTANT Watched   \* the jobs whose stream a client opens

ASSUME StreamAssumption == Watched \subseteq Jobs

VARIABLES
  tail,  \* tail[j]: the stream's loop: "none", "read", "check" or "closed"
  sent,  \* sent[j]: the loop's counter of rows already looked at
  got    \* got[j]: the events the client of the stream has received

tailVars == <<tail, sent, got>>
streamVars == <<vars, tailVars>>

StreamInit ==
  /\ Init
  /\ tail = [j \in Jobs |-> "none"]
  /\ sent = [j \in Jobs |-> 0]
  /\ got = [j \in Jobs |-> <<>>]

StreamTypeOK ==
  /\ TypeOK
  /\ tail \in [Jobs -> {"none", "read", "check", "closed"}]
  /\ sent \in [Jobs -> Nat]
  /\ got \in [Jobs -> Seq(Nat \X Nat)]

TailOpen(j) ==
  /\ server = "up"
  /\ j \in Watched
  /\ tail[j] = "none"
  /\ status[j] # "absent"
  /\ tail' = [tail EXCEPT ![j] = "read"]
  /\ UNCHANGED <<vars, sent, got>>

\* Seeded fault: the position is not advanced past what was written.
TailReadAgain(j) ==
  /\ tail[j] = "read"
  /\ got' = [got EXCEPT ![j] = @ \o SubSeq(log[j], sent[j] + 1, Len(log[j]))]
  /\ tail' = [tail EXCEPT ![j] = "check"]
  /\ UNCHANGED <<vars, sent>>

TailRead(j) ==
  LET rows == log[j]
  IN  /\ tail[j] = "read"
      /\ got' = [got EXCEPT ![j] = @ \o SubSeq(rows, sent[j] + 1, Len(rows))]
      /\ sent' = [sent EXCEPT ![j] = IF @ < Len(rows) THEN Len(rows) ELSE @]
      /\ tail' = [tail EXCEPT ![j] = "check"]
      /\ UNCHANGED vars

\* Seeded faults: whatever does not run ends the stream; only done ends it.
TailCheckNotRunning(j) ==
  /\ tail[j] = "check"
  /\ tail' = [tail EXCEPT ![j] = IF status[j] # "running" THEN "closed" ELSE "read"]
  /\ UNCHANGED <<vars, sent, got>>

TailCheckDone(j) ==
  /\ tail[j] = "check"
  /\ tail' = [tail EXCEPT ![j] = IF status[j] = "done" THEN "closed" ELSE "read"]
  /\ UNCHANGED <<vars, sent, got>>

\* Only done and failed end the stream; any other status means another poll
\* after 300 ms.
TailCheck(j) ==
  /\ tail[j] = "check"
  /\ tail' = [tail EXCEPT ![j] = IF status[j] \in Terminal THEN "closed"
                                                           ELSE "read"]
  /\ UNCHANGED <<vars, sent, got>>

\* The connections die with the server; a client that had its stream closed
\* keeps what it received.
StreamCrash ==
  LET cut == {j \in Jobs : tail[j] \in {"read", "check"}}
  IN  /\ Crash
      /\ tail' = [j \in Jobs |-> IF j \in cut THEN "none" ELSE tail[j]]
      /\ sent' = [j \in Jobs |-> IF j \in cut THEN 0 ELSE sent[j]]
      /\ got' = [j \in Jobs |-> IF j \in cut THEN <<>> ELSE got[j]]

JobStep ==
  \/ \E j \in Jobs : Start(j) \/ Enqueue(j) \/ Reconcile(j)
  \/ \E s \in Slots : Step(s) \/ Finish(s)
  \/ \E s \in Slots, j \in Jobs : Dispatch(s, j)
  \/ Leftover
  \/ Boot
  \/ Listen

StreamNext ==
  \/ JobStep /\ UNCHANGED tailVars
  \/ StreamCrash
  \/ \E j \in Jobs : TailOpen(j) \/ TailRead(j) \/ TailCheck(j)

StreamSpec == StreamInit /\ [][StreamNext]_streamVars

\* The polling loop runs by itself; the client reconnects as EventSource does.
StreamFairness ==
  /\ \A j \in Jobs : /\ WF_streamVars(call[j] # "none" /\ Start(j) /\ UNCHANGED tailVars)
                     /\ WF_streamVars(Enqueue(j) /\ UNCHANGED tailVars)
                     /\ WF_streamVars((\E s \in Slots : Dispatch(s, j)) /\ UNCHANGED tailVars)
                     /\ WF_streamVars(TailRead(j))
                     /\ WF_streamVars(TailCheck(j))
  /\ \A s \in Slots : /\ WF_streamVars(Step(s) /\ UNCHANGED tailVars)
                      /\ WF_streamVars(Finish(s) /\ UNCHANGED tailVars)
  /\ WF_streamVars(Boot /\ UNCHANGED tailVars)
  /\ WF_streamVars((\E j \in Jobs : Reconcile(j)) /\ UNCHANGED tailVars)
  /\ WF_streamVars(Listen /\ UNCHANGED tailVars)

FairStreamSpec == StreamSpec /\ StreamFairness

-----------------------------------------------------------------------------
\* What a client has received is the run-log up to where the loop stands: no
\* event twice, none skipped, none out of order, across reconnects; and its
\* stream is closed only for a job that has ended, for good: a client that
\* stopped listening missed no later status.
ReplayIsPrefix ==
  \A j \in Jobs : /\ Len(got[j]) <= Len(log[j])
                  /\ got[j] = SubSeq(log[j], 1, Len(got[j]))
                  /\ tail[j] = "closed" => status[j] \in Terminal

\* Every stream of a job that is done or failed comes to its end.
StreamEnds ==
  \A j \in Jobs : status[j] \in Terminal /\ tail[j] # "none"
                    ~> tail[j] \in {"closed", "none"}
=============================================================================
