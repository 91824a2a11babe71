------------------------------- MODULE Agent -------------------------------
(***************************************************************************)
(* The tool-using agent and its confirmations.  A run loops: the model     *)
(* picks a step, the tool's declared risk decides (read: allowed,          *)
(* low_write: to be approved, high_write: denied), the tool is invoked and *)
(* the audit row written.  A run that a person streams asks that person:   *)
(* it leaves a callback in a mailbox kept per agent task and waits for the *)
(* answer, which POST /api/agent/:id/confirm hands to whatever callback    *)
(* the mailbox holds, or for a 60-second timer.  The event stream can be   *)
(* opened again, and each stream is a run of its own.  A run of a          *)
(* background job asks nobody: a list of tools was authorized beforehand.  *)
(***************************************************************************)
EXTENDS Naturals, Sequences, FiniteSets

CONSTANTS
  Streams,     \* runs of one agent task that a person watches
  Background,  \* runs that a background job makes
  Tools,
  Risk,        \* Risk[t]: what the declaration of tool t says
  AllowTools,  \* tools that were authorized for the background runs
  MaxSteps,    \* steps a run may take (8 in the source)
  NoRun        \* the owner of an empty mailbox

AgentRuns == Streams \cup Background

ASSUME AgentAssumption ==
  /\ Streams \cap Background = {}
  /\ NoRun \notin AgentRuns
  /\ Risk \in [Tools -> {"read", "low_write", "high_write"}]
  /\ AllowTools \subseteq Tools
  /\ MaxSteps \in Nat \ {0}

VARIABLES
  agent,    \* agent[r]: where run r stands
  mailbox,  \* the run whose callback confirmMailbox holds
  shown,    \* prompts on a person's screen that were not answered
  answers,  \* answers on their way to the server
  invoked,  \* the tool invocations made so far
  audit     \* audit[r]: the audit rows of r, as <<step, status>>

agentVars == <<agent, mailbox, shown, answers, invoked, audit>>

\* A prompt is named by its run and step; by is the prompt whose answer let
\* the current call through, or Nobody.
Prompts == AgentRuns \X (1..MaxSteps)
Nobody == <<NoRun, 0>>
AgentPcs == {"idle", "decide", "wait", "invoke", "audit", "over"}
Verdicts == {"executed", "error", "denied"}

AgentRun == [pc : AgentPcs, step : 1..(MaxSteps + 1), tool : Tools \cup {"none"},
             by : Prompts \cup {Nobody}, verdict : Verdicts \cup {"none"}]
NewRun == [pc |-> "idle", step |-> 1, tool |-> "none", by |-> Nobody,
           verdict |-> "none"]
Invocations == [run : AgentRuns, step : 1..MaxSteps, tool : Tools,
                by : Prompts \cup {Nobody}]

AgentInit ==
  /\ agent = [r \in AgentRuns |-> NewRun]
  /\ mailbox = NoRun
  /\ shown = {}
  /\ answers = {}
  /\ invoked = {}
  /\ audit = [r \in AgentRuns |-> <<>>]

AgentTypeOK ==
  /\ agent \in [AgentRuns -> AgentRun]
  /\ mailbox \in Streams \cup {NoRun}
  /\ shown \subseteq Prompts
  /\ answers \subseteq [prompt : Prompts, approved : BOOLEAN]
  /\ invoked \subseteq Invocations
  /\ audit \in [AgentRuns -> Seq((1..MaxSteps) \X Verdicts)]

\* Seeded fault: one round too many.
OnwardPastLast(r) == [NewRun EXCEPT !.pc = IF agent[r].step <= MaxSteps THEN "decide" ELSE "over",
                                    !.step = agent[r].step + 1]

\* The next round of the loop, or its end when the steps are used up.
Onward(r) == [NewRun EXCEPT !.pc = IF agent[r].step < MaxSteps THEN "decide" ELSE "over",
                            !.step = agent[r].step + 1]

-----------------------------------------------------------------------------
(* GET /api/agent/:id/events, or the job that runs the agent.              *)

AgentOpen(r) ==
  /\ agent[r].pc = "idle"
  /\ agent' = [agent EXCEPT ![r].pc = "decide"]
  /\ UNCHANGED <<mailbox, shown, answers, invoked, audit>>

\* A clarifying question, which nobody answers here, or an unknown tool.
AgentTalk(r) ==
  /\ agent[r].pc = "decide"
  /\ agent' = [agent EXCEPT ![r] = Onward(r)]
  /\ UNCHANGED <<mailbox, shown, answers, invoked, audit>>

\* The answer is given; or the model or the audit store fails, and the run
\* ends with an error event.
AgentFinish(r) ==
  /\ agent[r].pc \in {"decide", "audit"}
  /\ agent' = [agent EXCEPT ![r].pc = "over"]
  /\ UNCHANGED <<mailbox, shown, answers, invoked, audit>>

Choose(r, t, next) ==
  /\ agent[r].pc = "decide"
  /\ agent' = [agent EXCEPT ![r].tool = t, ![r].pc = next,
                            ![r].verdict = IF next = "audit" THEN "denied" ELSE "none"]

AgentAllowed(r, t) ==
  /\ Risk[t] = "read"
  /\ Choose(r, t, "invoke")
  /\ UNCHANGED <<mailbox, shown, answers, invoked, audit>>

AgentDenied(r, t) ==
  /\ Risk[t] = "high_write"
  /\ Choose(r, t, "audit")
  /\ UNCHANGED <<mailbox, shown, answers, invoked, audit>>

\* The background policy: approve() looks the tool up.
AgentLookup(r, t) ==
  /\ r \in Background
  /\ Risk[t] = "low_write"
  /\ Choose(r, t, IF t \in AllowTools THEN "invoke" ELSE "audit")
  /\ UNCHANGED <<mailbox, shown, answers, invoked, audit>>

\* approve() of a stream: the callback takes the mailbox over, whoever was in it.
AgentAsk(r, t) ==
  /\ r \in Streams
  /\ Risk[t] = "low_write"
  /\ Choose(r, t, "wait")
  /\ mailbox' = r
  /\ shown' = shown \cup {<<r, agent[r].step>>}
  /\ UNCHANGED <<answers, invoked, audit>>

-----------------------------------------------------------------------------
(* The person, and POST /api/agent/:id/confirm.                            *)

\* A person answers a prompt while it is open; the answer travels.
Answer(r, approved) ==
  LET prompt == <<r, agent[r].step>>
  IN  /\ agent[r].pc = "wait"
      /\ prompt \in shown
      /\ shown' = shown \ {prompt}
      /\ answers' = answers \cup {[prompt |-> prompt, approved |-> approved]}
      /\ UNCHANGED <<agent, mailbox, invoked, audit>>

\* Without a callback in the mailbox the answer is lost (404).  With one, the
\* run behind it goes on, whichever prompt the answer was given to.
ConfirmArrives(a) ==
  LET r == mailbox
  IN  /\ a \in answers
      /\ answers' = answers \ {a}
      /\ mailbox' = NoRun
      /\ agent' = IF r = NoRun THEN agent
                  ELSE [agent EXCEPT ![r].pc = IF a.approved THEN "invoke" ELSE "audit",
                                     ![r].by = IF a.approved THEN a.prompt ELSE Nobody,
                                     ![r].verdict = IF a.approved THEN "none" ELSE "denied"]
      /\ UNCHANGED <<shown, invoked, audit>>

\* Seeded faults: silence means yes; the entry stays; only a run that is still
\* in the mailbox is answered by its timer.
TimerApproves(r) ==
  /\ agent[r].pc = "wait"
  /\ agent' = [agent EXCEPT ![r].pc = "invoke"]
  /\ mailbox' = NoRun
  /\ UNCHANGED <<shown, answers, invoked, audit>>

TimerKeepsEntry(r) ==
  /\ agent[r].pc = "wait"
  /\ agent' = [agent EXCEPT ![r].pc = "audit", ![r].verdict = "denied"]
  /\ UNCHANGED <<mailbox, shown, answers, invoked, audit>>

TimerOfEntry(r) ==
  /\ agent[r].pc = "wait"
  /\ mailbox = r
  /\ agent' = [agent EXCEPT ![r].pc = "audit", ![r].verdict = "denied"]
  /\ mailbox' = NoRun
  /\ UNCHANGED <<shown, answers, invoked, audit>>

\* 60 seconds of silence: the mailbox is emptied, even of the callback of
\* another stream, and the call is denied.
Timer(r) ==
  /\ agent[r].pc = "wait"
  /\ agent' = [agent EXCEPT ![r].pc = "audit", ![r].verdict = "denied"]
  /\ mailbox' = NoRun
  /\ UNCHANGED <<shown, answers, invoked, audit>>

-----------------------------------------------------------------------------
ThisCall(r) == [run |-> r, step |-> agent[r].step, tool |-> agent[r].tool,
                by |-> agent[r].by]

\* Seeded fault: a tool that reports an error is not recorded.
InvokeErrorUnrecorded(r, ok) ==
  /\ agent[r].pc = "invoke"
  /\ invoked' = invoked \cup {ThisCall(r)}
  /\ agent' = IF ok THEN [agent EXCEPT ![r].pc = "audit", ![r].verdict = "executed"]
                    ELSE [agent EXCEPT ![r] = Onward(r)]
  /\ UNCHANGED <<mailbox, shown, answers, audit>>

Invoke(r, ok) ==
  /\ agent[r].pc = "invoke"
  /\ invoked' = invoked \cup {ThisCall(r)}
  /\ agent' = [agent EXCEPT ![r].pc = "audit",
                            ![r].verdict = IF ok THEN "executed" ELSE "error"]
  /\ UNCHANGED <<mailbox, shown, answers, audit>>

\* A tool that throws ends the run, with no row.
InvokeThrows(r) ==
  /\ agent[r].pc = "invoke"
  /\ invoked' = invoked \cup {ThisCall(r)}
  /\ agent' = [agent EXCEPT ![r].pc = "over"]
  /\ UNCHANGED <<mailbox, shown, answers, audit>>

RecordAudit(r) ==
  /\ agent[r].pc = "audit"
  /\ audit' = [audit EXCEPT ![r] = Append(@, <<agent[r].step, agent[r].verdict>>)]
  /\ agent' = [agent EXCEPT ![r] = Onward(r)]
  /\ UNCHANGED <<mailbox, shown, answers, invoked>>

AgentStep(r) ==
  \/ AgentTalk(r)
  \/ AgentFinish(r)
  \/ \E t \in Tools : \/ AgentAllowed(r, t) \/ AgentDenied(r, t)
                      \/ AgentLookup(r, t) \/ AgentAsk(r, t)
  \/ \E ok \in BOOLEAN : Invoke(r, ok)
  \/ InvokeThrows(r)
  \/ RecordAudit(r)

StreamsNext ==
  \/ \E r \in Streams : \/ AgentOpen(r) \/ AgentStep(r) \/ Timer(r)
                        \/ \E approved \in BOOLEAN : Answer(r, approved)
  \/ \E a \in answers : ConfirmArrives(a)

BackgroundNext == \E r \in Background : AgentOpen(r) \/ AgentStep(r)

AgentNext == StreamsNext \/ BackgroundNext

AgentSpec == AgentInit /\ [][AgentNext]_agentVars

\* Loops, model calls and timers go on by themselves; people need not answer.
GoesOn(r) == AgentStep(r) \/ (r \in Streams /\ Timer(r))

AgentFairness == \A r \in AgentRuns : WF_agentVars(GoesOn(r))

-----------------------------------------------------------------------------
\* The mailbox never holds the callback of a run that has stopped waiting.
MailboxIsLive == mailbox # NoRun => agent[mailbox].pc = "wait"

\* No tool declared high_write is ever invoked, and a low_write only with an
\* approval: one that a person gave and that lets no second call through, or
\* the authorization of the background job -- however answers, timers and
\* streams of the same task cross (SafetyPolicy.decide, approve()).  An answer
\* is never swallowed by a run that is past its question: the second stream's
\* timer or answer leaves nothing stale behind (clearTimeout, the delete).
WritesAreGranted ==
  /\ MailboxIsLive
  /\ \A i \in invoked :
       /\ Risk[i.tool] # "high_write"
       /\ Risk[i.tool] = "low_write" =>
            IF i.run \in Background THEN i.tool \in AllowTools
            ELSE /\ i.by # Nobody
                 /\ \A j \in invoked : j.by = i.by => j = i

\* The audit trail is the history of the calls: a step has one row at most; a
\* run that went past a step recorded it as executed or failed exactly if the
\* tool was invoked (recordAudit on each path of the loop).
TrailIsTheHistory ==
  \A r \in AgentRuns :
    /\ \A k, l \in DOMAIN audit[r] : audit[r][k][1] = audit[r][l][1] => k = l
    /\ \A n \in 1..MaxSteps : n < agent[r].step =>
         ((\E i \in invoked : i.run = r /\ i.step = n)
            <=> (\E k \in DOMAIN audit[r] : /\ audit[r][k][1] = n
                                            /\ audit[r][k][2] # "denied"))

AtRest(r) == agent[r].pc \in {"idle", "over"}

\* Runs that go on come to their end, though nobody answers and another stream
\* took the mailbox over (maxSteps, the 60-second timer).
RunsEnd == (\E r \in AgentRuns : ~AtRest(r)) ~> \A r \in AgentRuns : AtRest(r)

\* "a low-risk write that was not confirmed must not be executed"
\* (docs/SPRINT_04.md:25): the call that runs is the one whose prompt the
\* person approved.
ConfirmedAsShown ==
  \A i \in invoked : i.run \in Streams /\ Risk[i.tool] = "low_write"
                       => i.by = <<i.run, i.step>>
=============================================================================
