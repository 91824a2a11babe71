------------------------------ MODULE Gateway ------------------------------
(***************************************************************************)
(* The way of a request through the web server: cross-origin preflight,    *)
(* the address's rate limit, the size of the body, the session or token,   *)
(* the owner's rate limit, and behind it the routes that spend: the        *)
(* operator console, speech, and the capabilities offered over MCP.        *)
(* Between two awaits other requests run.                                  *)
(***************************************************************************)
EXTENDS Naturals, FiniteSets, Sequences, SequencesExt, FiniteSetsExt

CONSTANTS
  MaxCalls,  \* bound: requests, of one owner and one address, numbered as they arrive
  Burst,     \* capacity of the owner's bucket
  Rate,      \* what flows into it per tick of the clock
  TaskQuota, \* the plan's tasks, counted when a call is checked
  MaxTicks   \* bound: ticks of the clock

ASSUME GatewayAssumption == {MaxCalls, Burst, Rate, TaskQuota, MaxTicks} \subseteq Nat

VARIABLES
  req,      \* the requests: what each asks, how far it is, what it was answered
  bucket,   \* the owner's tokens, and when they were counted last
  clock,    \* the time in ticks
  admitted, \* history: when the bucket let a request pass
  trail,    \* the audit rows: request and what was done
  taskCount \* the owner's persisted tasks

gatewayVars == <<req, bucket, clock, admitted, trail, taskCount>>

\* A token in the units of Rate: less than a token can flow in per tick.
Token == 2

\* Answered before any limit; behind the limit of the address but open to everyone.
Unlimited == {"metrics"}
OpenRoutes == {"page"}
\* Model or media work that the gate itself limits; routes that limit on their own.
Expensive == {"research"}
McpMethods == {"tools/list", "tools/call", "resources/read", "prompts/get", "other"}
McpTools == {"apolla.research", "apolla.translate", "apolla.workspace_read", "unknown"}
Speech == {"transcribe"}
Console == {"users", "plan"}
AskedFor == Unlimited \cup OpenRoutes \cup Expensive \cup McpMethods \cup Speech \cup Console \cup {"projects"}

Calls == 1..MaxCalls

NoCall == [ask |-> "none", tool |-> "none", at |-> "none", answer |-> "none", made |-> "none"]

GatewayInit ==
  /\ req = [c \in Calls |-> NoCall] /\ bucket = [tokens |-> Burst, last |-> 0] /\ clock = 0
  /\ admitted = <<>> /\ trail = <<>> /\ taskCount = 0

-----------------------------------------------------------------------------
\* Seeded fault: what flows in is not capped by the capacity.
RefillBeyondBurst(b) == [tokens |-> b.tokens + (clock - b.last) * Rate, last |-> clock]

Refill(b) == [tokens |-> Min({Burst, b.tokens + (clock - b.last) * Rate}), last |-> clock]

Allow(c, goesOn) ==
  LET b == Refill(bucket) IN
  IF b.tokens >= Token
  THEN /\ bucket' = [b EXCEPT !.tokens = @ - Token]
       /\ admitted' = Append(admitted, clock)
       /\ goesOn
  ELSE /\ bucket' = b
       /\ req' = [req EXCEPT ![c].at = "done", ![c].answer = "too many"]
       /\ UNCHANGED <<admitted, trail, taskCount>>

Answer(c, what) == req' = [req EXCEPT ![c].at = "done", ![c].answer = what]

Reach(c, next) == req' = [req EXCEPT ![c].at = next]

\* The request arrives; a body over the limit or an address over its rate is refused.
Arrive(c, ask, tool) ==
  /\ req[c] = NoCall /\ (c > 1 => req[c - 1] # NoCall)
  /\ tool # "none" <=> ask = "tools/call"
  /\ \E passes \in BOOLEAN, next \in {"session", "done"} :
       /\ next = "done" <=> ask \in Unlimited \cup OpenRoutes \/ ~passes
       /\ ask \in Unlimited => passes
       /\ req' = [req EXCEPT ![c] = [NoCall EXCEPT !.ask = ask, !.tool = tool, !.at = next,
                    !.answer = IF ~passes THEN "refused" ELSE IF next = "done" THEN "open" ELSE "none"]]
  /\ UNCHANGED <<bucket, clock, admitted, trail, taskCount>>

\* The session or the token is read; speech is limited at once, like what is expensive.
Gate(c, known) ==
  LET ask == req[c].ask
      next == CASE ask \in Console -> "console" [] ask \in McpMethods -> "rpc"
                 [] ask \in Speech -> "speech" [] OTHER -> "route" IN
  /\ req[c].at = "session"
  /\ IF ~known THEN Answer(c, "not authenticated") /\ UNCHANGED <<bucket, admitted, trail, taskCount>>
     ELSE IF ask \in Expensive \cup Speech THEN Allow(c, Reach(c, next) /\ UNCHANGED <<trail, taskCount>>)
     ELSE Reach(c, next) /\ UNCHANGED <<bucket, admitted, trail, taskCount>>
  /\ UNCHANGED clock

\* A route behind the gate: a research request is staged, if the quota has room.
Route(c) ==
  /\ req[c].at = "route"
  /\ Answer(c, IF req[c].ask = "research" /\ taskCount >= TaskQuota THEN "quota" ELSE "ok")
  /\ UNCHANGED <<bucket, clock, admitted, trail, taskCount>>

\* The stream of a staged task, opened once, makes its row; only the address limits it.
RunStaged(c) ==
  /\ req[c].ask = "research" /\ req[c].answer = "ok" /\ req[c].made = "none"
  /\ req' = [req EXCEPT ![c].made = "row"]
  /\ taskCount' = taskCount + 1
  /\ UNCHANGED <<bucket, clock, admitted, trail>>

\* The console: for operators only, and limited like the rest.
Operate(c, isAdmin) ==
  /\ req[c].at = "console"
  /\ IF ~isAdmin THEN Answer(c, "admin only") /\ UNCHANGED <<bucket, admitted, trail, taskCount>>
     ELSE Allow(c, /\ IF req[c].ask = "plan" THEN Reach(c, "save plan") ELSE Answer(c, "ok")
                   /\ UNCHANGED <<trail, taskCount>>)
  /\ UNCHANGED clock

\* An unknown plan or user is refused; the subscription is saved, then the row written.
SetPlan(c, known) ==
  /\ req[c].at = "save plan"
  /\ IF known THEN Reach(c, "saved") ELSE Answer(c, "unknown")
  /\ UNCHANGED <<bucket, clock, admitted, trail, taskCount>>

\* Empty and oversized input is refused, a provider that fails answers an error.
Speak(c, fine) ==
  /\ req[c].at = "speech"
  /\ IF fine THEN Reach(c, "saved") ELSE Answer(c, "refused")
  /\ UNCHANGED <<bucket, clock, admitted, trail, taskCount>>

Audited(c) ==
  /\ req[c].at = "saved"
  /\ trail' = Append(trail, c) /\ Answer(c, "ok")
  /\ UNCHANGED <<bucket, clock, admitted, taskCount>>

-----------------------------------------------------------------------------
\* Only tools/call is limited, checked against the quota and recorded.
Rpc(c) ==
  /\ req[c].at = "rpc"
  /\ IF req[c].ask = "tools/call" THEN Allow(c, Reach(c, "quota") /\ UNCHANGED <<trail, taskCount>>)
     ELSE Reach(c, "handle") /\ UNCHANGED <<bucket, admitted, trail, taskCount>>
  /\ UNCHANGED clock

\* Seeded fault: the row is written before the quota has answered.
QuotaAfterTrail(c) ==
  /\ req[c].at = "quota"
  /\ trail' = Append(trail, c)
  /\ IF taskCount >= TaskQuota THEN Answer(c, "quota") ELSE Reach(c, "handle")
  /\ UNCHANGED <<bucket, clock, admitted, taskCount>>

CheckQuota(c) ==
  /\ req[c].at = "quota"
  /\ IF taskCount >= TaskQuota THEN Answer(c, "quota") ELSE Reach(c, "record")
  /\ UNCHANGED <<bucket, clock, admitted, trail, taskCount>>

\* The row says "executed" of a call that has yet to run.
Record(c) ==
  /\ req[c].at = "record"
  /\ trail' = Append(trail, c) /\ Reach(c, "handle")
  /\ UNCHANGED <<bucket, clock, admitted, taskCount>>

\* What a run streams: prose in "text", then its end, or an error.
RunEvents == {<<[type |-> "delta", text |-> "report"], [type |-> "done"]>>,
              <<[type |-> "delta", text |-> "report"], [type |-> "error"]>>, <<[type |-> "error"]>>}

\* The prose of a stream is taken from the field "delta" of its events.
Collect(events) ==
  IF \E e \in ToSet(events) : "delta" \in DOMAIN e THEN "report" ELSE "(no content)"

Made(events) == IF \E e \in ToSet(events) : e.type = "done" THEN "report" ELSE "failure"

\* A surface's events: an error is thrown, a written file is read back and answered.
RunSurface(made) == IF made = "failure" THEN "isError" ELSE made

\* A workspace file by its address; a skill as a prompt that names it and holds the input.
Resource(found) == IF found THEN "contents" ELSE "unknown"
Prompt(found) == IF found THEN "messages" ELSE "unknown"

\* A tool's failure is a result that says isError; unknown names and methods are protocol errors.
Handle(c) ==
  LET tool == req[c].tool
      ends(made, answer) == req' = [req EXCEPT ![c].at = "done", ![c].made = made, ![c].answer = answer] IN
  /\ req[c].at = "handle"
  /\ \/ /\ req[c].ask = "tools/call" /\ tool = "apolla.research"
        /\ \E events \in RunEvents : ends(Made(events), Collect(events))
        /\ taskCount' = taskCount + 1
     \/ /\ req[c].ask = "tools/call" /\ tool = "apolla.translate"
        /\ \E made \in {"file", "failure"} : ends(made, RunSurface(made))
        /\ UNCHANGED taskCount
     \/ /\ req[c].ask = "tools/call" /\ tool = "apolla.workspace_read"
        /\ \E found \in BOOLEAN : ends("none", IF found THEN "file" ELSE "isError")
        /\ UNCHANGED taskCount
     \/ /\ req[c].ask \in {"resources/read", "prompts/get"}
        /\ \E found \in BOOLEAN :
             ends("none", IF req[c].ask = "prompts/get" THEN Prompt(found) ELSE Resource(found))
        /\ UNCHANGED taskCount
     \/ /\ req[c].ask = "tools/list" /\ ends("none", "ok") /\ UNCHANGED taskCount
     \/ /\ req[c].ask = "other" \/ tool = "unknown" \* no such method or tool
        /\ ends("none", "unknown") /\ UNCHANGED taskCount
  /\ UNCHANGED <<bucket, clock, admitted, trail>>

Tick == clock < MaxTicks /\ clock' = clock + 1 /\ UNCHANGED <<req, bucket, admitted, trail, taskCount>>

GatewayNext ==
  \/ \E c \in Calls :
       \/ \E ask \in AskedFor, tool \in McpTools \cup {"none"} : Arrive(c, ask, tool)
       \/ \E b \in BOOLEAN : Gate(c, b) \/ Operate(c, b) \/ SetPlan(c, b) \/ Speak(c, b)
       \/ Route(c) \/ RunStaged(c) \/ Audited(c) \/ Rpc(c) \/ CheckQuota(c) \/ Record(c) \/ Handle(c)
  \/ Tick

GatewaySpec == GatewayInit /\ [][GatewayNext]_gatewayVars

-----------------------------------------------------------------------------
\* Every variable keeps its type.
GatewayTypeOK ==
  /\ clock \in 0..MaxTicks /\ bucket \in [tokens : 0..Burst, last : 0..MaxTicks]
  /\ {admitted} \subseteq Seq(0..MaxTicks) /\ {trail} \subseteq Seq(Calls) /\ taskCount \in Nat
  /\ \A c \in Calls : req[c].ask \in AskedFor \cup {"none"} /\ req[c].tool \in McpTools \cup {"none"}

\* Whichever routes are asked, and however long the owner was quiet before: in no stretch of
\* time does the owner's limit admit more than a full bucket and what flowed in meanwhile.
NeverMoreThanTheBucket ==
  \A i, j \in DOMAIN admitted :
    i <= j => Token * (j - i + 1) <= Burst + Rate * (admitted[j] - admitted[i])

TurnedAway == {"not authenticated", "refused", "too many", "quota"}

\* The audit trail has one row for every call of a tool, spoken word and set plan that was
\* let through, and none of a call that a limit, the quota or a check turned away.
TrailIsOfTheAdmitted ==
  \A c \in Calls :
    LET admittedCall ==
          CASE req[c].ask = "tools/call" ->
                 req[c].at = "handle" \/ (req[c].at = "done" /\ req[c].answer \notin TurnedAway)
            [] req[c].ask \in Speech \cup {"plan"} -> req[c].answer = "ok"
            [] OTHER -> FALSE IN
    Cardinality({i \in DOMAIN trail : trail[i] = c}) = (IF admittedCall THEN 1 ELSE 0)

\* The tool's description: apolla.research runs a research task on a question and returns
\* the cited report.
ReportIsReturned ==
  \A c \in Calls : req[c].tool = "apolla.research" /\ req[c].made = "report" => req[c].answer = "report"
=============================================================================
