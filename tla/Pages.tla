------------------------------- MODULE Pages -------------------------------
(***************************************************************************)
(* The pages that show an owner's rows as a list and change them one by    *)
(* one: a click sends a call, its answer makes the page load the list      *)
(* again, and what the load brings is shown.  The routes behind them       *)
(* differ in what a call does to the rows, the pages in when they load.    *)
(***************************************************************************)
EXTENDS Naturals

CONSTANTS
  ListRows,  \* the ids or names of an owner's rows
  MaxClicks, \* bound: calls that a person makes on a page
  MaxBroken  \* bound: calls and loads that fail on the way

ASSUME PagesAssumption == {MaxClicks, MaxBroken} \subseteq Nat

VARIABLES
  page,      \* the list looked at
  stored,    \* the owner's rows on the server: "absent", "on" or "off"
  shown,     \* the rows as the page shows them
  clicks,    \* the calls, the page's first load as number 0
  taken,     \* counts the lists that the server has read
  newest,    \* history: the number of the list that is shown
  disturbed, \* history: something was lost since the server last read the list
  broken     \* bound: counts what failed on the way

pagesVars == <<page, stored, shown, clicks, taken, newest, disturbed, broken>>

\* What the routes do for a row: create, switch and delete.  A copy is a row that is read,
\* changed when the body has arrived, and saved as a whole.
Routes(create, switch, delete) == [create |-> create, switch |-> switch, delete |-> delete]

ScheduleRoutes == Routes("insert", "copy", "remove")
NotificationRoutes == Routes("none", "mark", "none")
TokenRoutes == Routes("insert", "none", "remove")
PasskeyRoutes == Routes("insert", "none", "remove")
PluginRoutes == Routes("put", "none", "remove")
FileRoutes == Routes("put", "none", "none")
ProjectRoutes == Routes("insert", "none", "none")
PlanRoutes == Routes("none", "mark", "none")

\* A connector is connected to once, to enumerate its tools, before it is saved; what the
\* page sends to switch it meets no route.
ConnectorRoutes == Routes("probe", "missing", "remove")

\* What a page does: when it loads after a call, what it shows when a load fails, and
\* whether its buttons are dead while a call is under way.  The page that the server
\* sends when no web build is there loads after any answer, also after a refusal.
View(loads, failed, serial) == [loads |-> loads, failed |-> failed, serial |-> serial]

SchedulePage == View("on success", "kept", FALSE)
NotificationPage == View("on success", "kept", FALSE)
TokenPage == View("on success", "kept", FALSE)
PasskeyPage == View("always", "kept", FALSE)
ConnectorPage == View("on success", "kept", FALSE)
PluginPage == View("on success", "empty", FALSE)
FilePage == View("on success", "kept", FALSE)
AdminPage == View("on success", "kept", FALSE)
BillingPage == View("on success", "kept", TRUE)
InlineSchedules == View("on answer", "either", FALSE)
InlinePlugins == View("on answer", "either", FALSE)
InlineConnectors == View("on answer", "either", FALSE)
InlineFiles == View("on success", "either", FALSE)
InlineProjects == View("on answer", "kept", FALSE)

Served == [
  schedules |-> ScheduleRoutes, notifications |-> NotificationRoutes, tokens |-> TokenRoutes,
  passkeys |-> PasskeyRoutes, connectors |-> ConnectorRoutes, plugins |-> PluginRoutes,
  files |-> FileRoutes, users |-> PlanRoutes, billing |-> PlanRoutes,
  inlineSchedules |-> ScheduleRoutes, inlinePlugins |-> PluginRoutes,
  inlineConnectors |-> [ConnectorRoutes EXCEPT !.switch = "none", !.delete = "none"],
  inlineFiles |-> FileRoutes, inlineProjects |-> ProjectRoutes]

Viewed == [
  schedules |-> SchedulePage, notifications |-> NotificationPage, tokens |-> TokenPage,
  passkeys |-> PasskeyPage, connectors |-> ConnectorPage, plugins |-> PluginPage,
  files |-> FilePage, users |-> AdminPage, billing |-> BillingPage,
  inlineSchedules |-> InlineSchedules, inlinePlugins |-> InlinePlugins,
  inlineConnectors |-> InlineConnectors, inlineFiles |-> InlineFiles, inlineProjects |-> InlineProjects]

ClickOps == {"create", "switch", "delete"}
RowStates == {"absent", "on", "off"}
NoRows == [r \in ListRows |-> "absent"]
NoClick == [op |-> "none", row |-> "none", want |-> "none", at |-> "none", seen |-> NoRows, no |-> 0]

\* Rows that nothing creates on their page are there before it opens.
PagesInit ==
  /\ page \in DOMAIN Served
  /\ stored = [r \in ListRows |-> IF Served[page].create = "none" THEN "off" ELSE "absent"]
  /\ shown = NoRows
  /\ clicks = [n \in 0..MaxClicks |-> IF n = 0 THEN [NoClick EXCEPT !.at = "loading"] ELSE NoClick]
  /\ taken = 0 /\ newest = 0 /\ disturbed = FALSE /\ broken = 0

-----------------------------------------------------------------------------
InFlight(n) == clicks[n].at \notin {"none", "settled"}

\* A row is switched to the opposite of what is shown of it, and deleted where it is shown;
\* one that is created has an id of its own, unless its name is its key.
Click(n, op, r) ==
  /\ clicks[n] = NoClick /\ (n > 1 => clicks[n - 1] # NoClick)
  /\ Served[page][op] # "none"
  /\ op = "create" \/ shown[r] # "absent"
  /\ op = "create" /\ Served[page].create # "put" => \A k \in DOMAIN clicks : clicks[k].row # r
  /\ Viewed[page].serial => \A k \in DOMAIN clicks : ~InFlight(k)
  /\ clicks' = [clicks EXCEPT ![n] = [NoClick EXCEPT !.op = op, !.row = r, !.at = "sent",
       !.want = CASE op = "delete" -> "absent" [] op = "create" -> "on"
                  [] OTHER -> IF shown[r] = "on" THEN "off" ELSE "on"]]
  /\ UNCHANGED <<page, stored, shown, taken, newest, disturbed, broken>>

To(n, at) == clicks' = [clicks EXCEPT ![n].at = at]

\* The route's first step: it changes the row at once, refuses, or holds a copy of it.
ServeClick(n) ==
  LET c == clicks[n]  does == Served[page][c.op] IN
  /\ c.at = "sent" /\ c.op \in ClickOps
  /\ \/ /\ does \in {"insert", "put", "remove"}
        /\ stored' = [stored EXCEPT ![c.row] = c.want] /\ To(n, "ok")
     \/ /\ does = "mark" /\ stored[c.row] # "absent"
        /\ stored' = [stored EXCEPT ![c.row] = c.want] /\ To(n, "ok")
     \/ /\ does = "copy" /\ stored[c.row] # "absent" /\ To(n, "copied") /\ UNCHANGED stored
     \/ does = "probe" /\ (To(n, "copied") \/ To(n, "failed")) /\ UNCHANGED stored
     \/ /\ does = "missing" \/ (does \in {"copy", "mark"} /\ stored[c.row] = "absent")
        /\ To(n, "failed") /\ UNCHANGED stored
  /\ UNCHANGED <<page, shown, taken, newest, disturbed, broken>>

\* The second step of a route that has read, or connected, before: the row is saved as
\* it was found, with what was asked; if it has been deleted since, it is back.
SaveCopy(n) ==
  /\ clicks[n].at = "copied"
  /\ stored' = [stored EXCEPT ![clicks[n].row] = clicks[n].want]
  /\ To(n, "ok")
  /\ UNCHANGED <<page, shown, taken, newest, disturbed, broken>>

\* Seeded fault: the page does not load again after it has switched a row.
SettleWithoutLoad(n) ==
  /\ clicks[n].at \in {"ok", "failed", "lost"}
  /\ To(n, IF clicks[n].at = "ok" /\ clicks[n].op # "switch" THEN "loading" ELSE "settled")
  /\ UNCHANGED <<page, stored, shown, taken, newest, disturbed, broken>>

\* The answer reaches the page, which loads again or shows the error.
Settle(n) ==
  LET c == clicks[n]  loads == Viewed[page].loads IN
  /\ c.at \in {"ok", "failed", "lost"}
  /\ To(n, IF c.at = "ok" \/ loads = "always" \/ (loads = "on answer" /\ c.at = "failed")
             THEN "loading" ELSE "settled")
  /\ UNCHANGED <<page, stored, shown, taken, newest, disturbed, broken>>

\* The server reads the list.
ReadRows(n) ==
  /\ clicks[n].at = "loading"
  /\ taken' = taken + 1
  /\ clicks' = [clicks EXCEPT ![n].at = "taken", ![n].seen = stored, ![n].no = taken + 1]
  /\ disturbed' = FALSE
  /\ UNCHANGED <<page, stored, shown, newest, broken>>

\* The list reaches the page, which shows it, whatever it shows already.
ShowRows(n) ==
  /\ clicks[n].at = "taken"
  /\ shown' = clicks[n].seen /\ newest' = clicks[n].no
  /\ To(n, "settled")
  /\ UNCHANGED <<page, stored, taken, disturbed, broken>>

\* A call or its answer is lost, and the page takes it as failed; or a load is.
Interrupt(n) ==
  /\ broken < MaxBroken /\ broken' = broken + 1 /\ disturbed' = TRUE
  /\ \/ clicks[n].at \in {"sent", "ok"} /\ To(n, "lost") /\ UNCHANGED shown
     \/ /\ clicks[n].at \in {"loading", "taken"} /\ To(n, "settled")
        /\ \/ Viewed[page].failed # "empty" /\ UNCHANGED shown
           \/ Viewed[page].failed # "kept" /\ shown' = NoRows
  /\ UNCHANGED <<page, stored, taken, newest>>

PagesNext ==
  \E n \in 0..MaxClicks :
    \/ \E op \in ClickOps, r \in ListRows : n > 0 /\ Click(n, op, r)
    \/ ServeClick(n) \/ SaveCopy(n) \/ Settle(n) \/ ReadRows(n) \/ ShowRows(n) \/ Interrupt(n)

PagesSpec == PagesInit /\ [][PagesNext]_pagesVars

-----------------------------------------------------------------------------
\* Every variable keeps its type.
PagesTypeOK ==
  /\ page \in DOMAIN Served /\ {stored, shown} \subseteq [ListRows -> RowStates]
  /\ taken \in 0..(MaxClicks + 1) /\ newest \in 0..taken /\ disturbed \in BOOLEAN
  /\ broken \in 0..MaxBroken

\* However the calls and the loads of a page overlap, are refused or lost: once none is
\* under way, the page shows what the server has if the list that was read last was also
\* shown last and nothing was lost after it was read; one click at a time never crosses
\* two loads.  (A page shows whichever list arrives last, so a crossing can leave it behind.)
ListIsCurrent ==
  /\ \A n \in DOMAIN clicks : ~InFlight(n)
  /\ newest = taken \/ Viewed[page].serial
  /\ ~disturbed
  => shown = stored
=============================================================================
