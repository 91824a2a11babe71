------------------------------- MODULE Tasks -------------------------------
(***************************************************************************)
(* Research tasks from the page that asks for them to the rows they leave: *)
(* the quota, the staged request, the stream that runs the task while it   *)
(* tells of it, the research page that shows it and the inbox that lists   *)
(* what was done.                                                          *)
(***************************************************************************)
EXTENDS Naturals, Sequences, FiniteSets

CONSTANTS
  MaxAsks,   \* bound: questions asked; the n-th one is task n
  TaskLimit, \* the plan's quota
  MaxLosses  \* bound: streams cut and servers restarted

ASSUME TasksAssumption == {MaxAsks, TaskLimit, MaxLosses} \subseteq Nat

VARIABLES
  asks,     \* what was asked: a task, or the rerun of a skill
  task,     \* task[n]: how far the server is with task n
  taskRows, \* the tasks that have a row
  wire,     \* the events sent down the page's connection and not yet received
  taskPage, \* the research page
  inbox,    \* the inbox page
  losses,   \* bound: counts the losses
  ahead,    \* history: tasks admitted that had no row when a later one was
  overlaps  \* history: the pages whose last request went out before the last answer was in

tasksVars == <<asks, task, taskRows, wire, taskPage, inbox, losses, ahead, overlaps>>

TaskIds == 1..MaxAsks
Kinds == {"task", "research", "generic"}   \* a skill runs as research or generically
TaskStates == {"none", "posted", "refused", "staged", "pending", "running", "done", "failed", "lost"}
Staged == {"staged", "pending"}           \* on the server before and after its answer
NoPage == [task |-> 0, url |-> 0, running |-> FALSE, report |-> {}, error |-> FALSE]
NoInbox == [listed |-> {}, open |-> 0, awaits |-> {}, report |-> 0]

TasksInit ==
  /\ asks = <<>> /\ task = [n \in TaskIds |-> "none"] /\ taskRows = {} /\ wire = <<>>
  /\ taskPage = NoPage /\ inbox = NoInbox /\ losses = 0 /\ ahead = {} /\ overlaps = {}

-----------------------------------------------------------------------------
Overlapping(p, others) == overlaps' = IF others THEN overlaps \cup {p} ELSE overlaps \ {p}

\* A task whose answer, or whose stream, the research page has yet to see the end of.
PageAwaits ==
  taskPage.url # 0 \/ \E n \in TaskIds : task[n] \in {"posted", "staged", "refused"}

\* Seeded fault: the report of the last task is not cleared.
RunKeepingReport(kind) ==
  /\ Len(asks) < MaxAsks
  /\ asks' = Append(asks, kind)
  /\ task' = [task EXCEPT ![Len(asks) + 1] = "posted"]
  /\ taskPage' = [taskPage EXCEPT !.running = TRUE, !.error = FALSE]
  /\ Overlapping("page", PageAwaits)
  /\ UNCHANGED <<taskRows, wire, inbox, losses, ahead>>

\* The button is disabled while a task runs; the Enter key is not.  The page is
\* cleared before the request is sent; the stream it listens to stays open.
Run(kind) ==
  /\ Len(asks) < MaxAsks
  /\ asks' = Append(asks, kind)
  /\ task' = [task EXCEPT ![Len(asks) + 1] = "posted"]
  /\ taskPage' = [taskPage EXCEPT !.running = TRUE, !.report = {}, !.error = FALSE]
  /\ Overlapping("page", PageAwaits)
  /\ UNCHANGED <<taskRows, wire, inbox, losses, ahead>>

\* Seeded fault: the last task of the quota is counted one too late.
QuotaOffByOne == Cardinality(taskRows) <= TaskLimit

\* The quota counts the rows of the owner.
Quota == Cardinality(taskRows) < TaskLimit

\* A task is staged in memory, and makes its row only when its stream is opened.
CreateTask(n) ==
  /\ task[n] = "posted" /\ asks[n] = "task"
  /\ IF Quota
     THEN /\ task' = [task EXCEPT ![n] = "staged"]
          /\ ahead' = ahead \cup {m \in DOMAIN asks : asks[m] = "task" /\ task[m] \in Staged}
     ELSE task' = [task EXCEPT ![n] = "refused"] /\ UNCHANGED ahead
  /\ UNCHANGED <<asks, taskRows, wire, taskPage, inbox, losses, overlaps>>

\* The rerun of a skill is staged without a look at the quota.
RunSkill(n) ==
  /\ task[n] = "posted" /\ asks[n] # "task"
  /\ task' = [task EXCEPT ![n] = "staged"]
  /\ UNCHANGED <<asks, taskRows, wire, taskPage, inbox, losses, ahead, overlaps>>

\* The answer names the task whose stream the page turns to; a refusal is shown.
\* The connection it had is closed.
Answered(n) ==
  /\ task[n] \in {"staged", "refused"}
  /\ IF task[n] = "staged"
     THEN taskPage' = [taskPage EXCEPT !.task = n, !.url = n] /\ wire' = <<>>
     ELSE taskPage' = [taskPage EXCEPT !.error = TRUE, !.running = FALSE] /\ UNCHANGED wire
  /\ task' = [task EXCEPT ![n] = IF @ = "staged" THEN "pending" ELSE "failed"]
  /\ UNCHANGED <<asks, taskRows, inbox, losses, ahead, overlaps>>

\* Opening the stream runs the task.  Research makes its row first.
OpenStream(n) ==
  /\ taskPage.url = n /\ task[n] = "pending"
  /\ task' = [task EXCEPT ![n] = "running"]
  /\ taskRows' = IF asks[n] = "generic" THEN taskRows ELSE taskRows \cup {n}
  /\ UNCHANGED <<asks, wire, taskPage, inbox, losses, ahead, overlaps>>

\* The server writes to whoever still listens, and goes on if nobody does.
Send(n, e) == wire' = IF taskPage.url = n THEN Append(wire, [task |-> n, type |-> e]) ELSE wire

Tell(n) ==
  /\ task[n] = "running" /\ Len(wire) < 2
  /\ Send(n, "delta")
  /\ UNCHANGED <<asks, task, taskRows, taskPage, inbox, losses, ahead, overlaps>>

\* Seeded fault: the type of the last event is taken for the status.
EndAsEvent(n, e) ==
  /\ task[n] = "running"
  /\ task' = [task EXCEPT ![n] = e]
  /\ Send(n, e)
  /\ UNCHANGED <<asks, taskRows, taskPage, inbox, losses, ahead, overlaps>>

End(n, e) ==
  /\ task[n] = "running"
  /\ task' = [task EXCEPT ![n] = IF e = "done" THEN "done" ELSE "failed"]
  /\ Send(n, e)
  /\ UNCHANGED <<asks, taskRows, taskPage, inbox, losses, ahead, overlaps>>

\* The page takes whatever its stream brings, and closes it at the end.
OnEvent ==
  /\ wire # <<>>
  /\ taskPage' = CASE Head(wire).type = "delta" -> [taskPage EXCEPT !.report = @ \cup {Head(wire).task}]
               [] Head(wire).type = "done" -> [taskPage EXCEPT !.running = FALSE, !.url = 0]
               [] OTHER -> [taskPage EXCEPT !.running = FALSE, !.url = 0, !.error = TRUE]
  /\ wire' = IF taskPage'.url = 0 THEN <<>> ELSE Tail(wire)
  /\ UNCHANGED <<asks, task, taskRows, inbox, losses, ahead, overlaps>>

\* A cut stream is closed and not opened again: the page waits on.  A restarted
\* server has forgotten what was staged and stopped what ran.
Lose ==
  /\ losses < MaxLosses /\ losses' = losses + 1
  /\ wire' = <<>> /\ taskPage' = [taskPage EXCEPT !.url = 0]
  /\ \/ UNCHANGED task
     \/ task' = [n \in TaskIds |-> CASE task[n] \in {"posted", "staged"} -> "refused"
                                     [] task[n] \in {"pending", "running"} -> "lost"
                                     [] OTHER -> task[n]]
  /\ UNCHANGED <<asks, taskRows, inbox, ahead, overlaps>>

-----------------------------------------------------------------------------
\* A verdict on a finished task asks for its row, and a generic skill left none: the one
\* thing done with a report whose failure the page shows.
SendFeedback(n) ==
  /\ taskPage.task = n /\ ~taskPage.running
  /\ n \notin taskRows
  /\ taskPage' = [taskPage EXCEPT !.error = TRUE]
  /\ UNCHANGED <<asks, task, taskRows, wire, inbox, losses, ahead, overlaps>>

LoadInbox ==
  /\ inbox' = [NoInbox EXCEPT !.listed = taskRows]
  /\ Overlapping("inbox", FALSE)
  /\ UNCHANGED <<asks, task, taskRows, wire, taskPage, losses, ahead>>

\* A task is opened, or closed when it is the open one; its report is asked for.
Toggle(n) ==
  /\ n \in inbox.listed
  /\ IF inbox.open = n
     THEN inbox' = [inbox EXCEPT !.open = 0, !.report = 0] /\ UNCHANGED overlaps
     ELSE /\ inbox' = [inbox EXCEPT !.open = n, !.report = 0, !.awaits = @ \cup {n}]
          /\ Overlapping("inbox", inbox.awaits \ {n} # {})
  /\ UNCHANGED <<asks, task, taskRows, wire, taskPage, losses, ahead>>

\* An answer is shown under whatever task is open when it comes.
OnReport(n) ==
  /\ n \in inbox.awaits
  /\ inbox' = [inbox EXCEPT !.awaits = @ \ {n}, !.report = n]
  /\ UNCHANGED <<asks, task, taskRows, wire, taskPage, losses, ahead, overlaps>>

TasksNext ==
  \/ \E kind \in Kinds : Run(kind)
  \/ \E n \in DOMAIN asks :
       \/ CreateTask(n) \/ RunSkill(n) \/ Answered(n) \/ OpenStream(n) \/ Tell(n)
       \/ \E e \in {"done", "error"} : End(n, e)
       \/ SendFeedback(n)
  \/ OnEvent \/ Lose \/ LoadInbox
  \/ \E n \in TaskIds : Toggle(n) \/ OnReport(n)

TasksSpec == TasksInit /\ [][TasksNext]_tasksVars

-----------------------------------------------------------------------------
\* Every variable keeps its type.
TasksTypeOK ==
  /\ asks \in Seq(Kinds) /\ task \in [TaskIds -> TaskStates]
  /\ taskRows \subseteq TaskIds /\ ahead \subseteq TaskIds /\ losses \in 0..MaxLosses
  /\ {taskPage.task, taskPage.url, inbox.open, inbox.report} \subseteq TaskIds \cup {0}
  /\ overlaps \subseteq {"page", "inbox"}

\* The research page shows the text of the task it names and the inbox the report of the
\* task that is open there: from the first request that a page sends with nothing of an
\* earlier one still to come, however streams are cut, tasks fail and the server restarts.
\* What is shown after a request that overlapped another is open (Research.tsx, Inbox.tsx).
ShownIsItsOwn ==
  /\ "page" \notin overlaps => taskPage.report \subseteq {taskPage.task}
  /\ "inbox" \notin overlaps => (inbox.open # 0 => inbox.report \in {0, inbox.open})

\* The tasks asked for under a quota exceed it at most by those that had been
\* admitted, and had no row yet, when another one was.
OverrunIsBounded ==
  Cardinality({n \in taskRows : asks[n] = "task"}) <= TaskLimit + Cardinality(ahead)
=============================================================================
