----------------------------- MODULE Scheduler -----------------------------
(***************************************************************************)
(* Scheduled tasks: the routes that create, toggle, delete and run them,   *)
(* and Scheduler.tick(now), which an interval timer calls twice a minute.  *)
(* A tick lists the enabled tasks once, and then, task by task, starts a   *)
(* job and saves its own copy of the record with the minute it fired in.   *)
(* A toggle saves a copy too: it reads the record, waits for the request   *)
(* body, and writes the whole record back.                                 *)
(***************************************************************************)
EXTENDS Naturals, FiniteSets

CONSTANTS
  Tasks,
  Ticks,       \* ticks that can be in flight at once: one per process that
               \* ticks, one more whenever a tick outlives its interval
  Horizon,     \* bound: the clock stops at this minute
  Due,         \* Due[t]: the minutes task t's cron expression matches
  MaxEdits,    \* bound on the toggles, which are all of one task
  MaxCuts      \* bound on the ticks cut short

Minutes == 0..Horizon
Never == Horizon + 1       \* lastRunAt or createdAt that is not set

ASSUME SchedulerAssumption ==
  /\ Horizon \in Nat
  /\ Due \in [Tasks -> SUBSET Minutes]
  /\ MaxEdits \in Nat
  /\ MaxCuts \in Nat

VARIABLES
  row,      \* row[t]: the record of t in the repository
  born,     \* born[t]: its createdAt minute
  minute,   \* the wall clock
  ticked,   \* ticks begun in this minute
  tick,     \* tick[k]: the tick() call in flight in k
  edit,     \* edit[t]: the copy a toggle of t has read and not yet saved
  edits,    \* edits[t]: toggles saved
  started,  \* started[t][m]: jobs that ticks of minute m started for t
  cut,      \* minutes with a tick that was cut short
  cuts      \* how many were

schedulerVars == <<row, born, minute, ticked, tick, edit, edits, started, cut, cuts>>

Row == [there : BOOLEAN, enabled : BOOLEAN, last : Minutes \cup {Never}]
NoRow == [there |-> FALSE, enabled |-> FALSE, last |-> Never]

\* todo holds the copies listEnabled() returned for the tasks still to visit,
\* saving the task whose job is started and whose record is not saved yet.
Copies == [task : Tasks, row : Row]
TickState == [at : Minutes, todo : SUBSET Copies, saving : SUBSET Copies]
Quiet == [at |-> 0, todo |-> {}, saving |-> {}]
InFlight(k) == tick[k].todo # {}

SchedulerInit ==
  /\ row = [t \in Tasks |-> NoRow]
  /\ born = [t \in Tasks |-> Never]
  /\ minute = 0
  /\ ticked = 0
  /\ tick = [k \in Ticks |-> Quiet]
  /\ edit = [t \in Tasks |-> NoRow]
  /\ edits = [t \in Tasks |-> 0]
  /\ started = [t \in Tasks |-> [m \in Minutes |-> 0]]
  /\ cut = {}
  /\ cuts = 0

SchedulerTypeOK ==
  /\ row \in [Tasks -> Row]
  /\ born \in [Tasks -> Minutes \cup {Never}]
  /\ minute \in Minutes
  /\ ticked \in 0..2
  /\ tick \in [Ticks -> TickState]
  /\ edit \in [Tasks -> Row]
  /\ edits \in [Tasks -> 0..MaxEdits]
  /\ started \in [Tasks -> [Minutes -> Nat]]
  /\ cut \subseteq Minutes
  /\ cuts \in 0..MaxCuts

-----------------------------------------------------------------------------
(* The routes.                                                             *)

Create(t) ==
  /\ born[t] = Never
  /\ born' = [born EXCEPT ![t] = minute]
  /\ row' = [row EXCEPT ![t] = [there |-> TRUE, enabled |-> TRUE, last |-> Never]]
  /\ UNCHANGED <<minute, ticked, tick, edit, edits, started, cut, cuts>>

ToggleRead(t) ==
  /\ row[t].there
  /\ ~edit[t].there
  /\ edits[t] < MaxEdits
  /\ \A u \in Tasks \ {t} : edits[u] = 0 /\ ~edit[u].there
  /\ edit' = [edit EXCEPT ![t] = row[t]]
  /\ UNCHANGED <<row, born, minute, ticked, tick, edits, started, cut, cuts>>

\* save() upserts the whole record, whatever it has become since.
ToggleSave(t, enabled) ==
  /\ edit[t].there
  /\ row' = [row EXCEPT ![t] = [edit[t] EXCEPT !.enabled = enabled]]
  /\ edit' = [edit EXCEPT ![t] = NoRow]
  /\ edits' = [edits EXCEPT ![t] = @ + 1]
  /\ UNCHANGED <<born, minute, ticked, tick, started, cut, cuts>>

Delete(t) ==
  /\ row[t].there
  /\ row' = [row EXCEPT ![t] = NoRow]
  /\ UNCHANGED <<born, minute, ticked, tick, edit, edits, started, cut, cuts>>

-----------------------------------------------------------------------------
(* tick(now).                                                              *)

TickBegin(k) ==
  LET enabled == {t \in Tasks : row[t].there /\ row[t].enabled}
  IN  /\ ~InFlight(k)
      /\ ticked < 2
      /\ ticked' = ticked + 1
      /\ tick' = [tick EXCEPT ![k] =
                    IF enabled = {} THEN Quiet
                    ELSE [at |-> minute, saving |-> {},
                          todo |-> {[task |-> t, row |-> row[t]] : t \in enabled}]]
      /\ UNCHANGED <<row, born, minute, edit, edits, started, cut, cuts>>

\* Seeded fault: the record is not compared with the minute of the tick.
FiresUndeduped(c, m) == m \in Due[c.task]

\* Due, and not already fired in this minute according to the listed copy.
Fires(c, m) == m \in Due[c.task] /\ c.row.last # m

\* Seeded fault: the first task that does not fire ends the loop.
TickSkipStops(k, c) ==
  /\ tick[k].saving = {}
  /\ c \in tick[k].todo
  /\ ~Fires(c, tick[k].at)
  /\ tick' = [tick EXCEPT ![k] = Quiet]
  /\ UNCHANGED <<row, born, minute, ticked, edit, edits, started, cut, cuts>>

Rest(k, c) ==
  LET left == tick[k].todo \ {c}
  IN  IF left = {} THEN Quiet ELSE [tick[k] EXCEPT !.todo = left, !.saving = {}]

TickSkip(k, c) ==
  /\ tick[k].saving = {}
  /\ c \in tick[k].todo
  /\ ~Fires(c, tick[k].at)
  /\ tick' = [tick EXCEPT ![k] = Rest(k, c)]
  /\ UNCHANGED <<row, born, minute, ticked, edit, edits, started, cut, cuts>>

\* trigger() does not wait for jobs.start().
TickFire(k, c) ==
  LET m == tick[k].at
  IN  /\ tick[k].saving = {}
      /\ c \in tick[k].todo
      /\ Fires(c, m)
      /\ started' = [started EXCEPT ![c.task][m] = @ + 1]
      /\ tick' = [tick EXCEPT ![k].saving = {c}]
      /\ UNCHANGED <<row, born, minute, ticked, edit, edits, cut, cuts>>

\* The listed copy, with lastRunAt set, is upserted.
TickSave(k, c) ==
  /\ c \in tick[k].saving
  /\ row' = [row EXCEPT ![c.task] = [c.row EXCEPT !.last = tick[k].at]]
  /\ tick' = [tick EXCEPT ![k] = Rest(k, c)]
  /\ UNCHANGED <<born, minute, ticked, edit, edits, started, cut, cuts>>

\* The process dies in the middle of a tick, or the save fails and aborts the
\* loop: the tick's rejection is swallowed by the timer callback.
TickCut(k) ==
  /\ InFlight(k)
  /\ cuts < MaxCuts
  /\ cuts' = cuts + 1
  /\ cut' = cut \cup {tick[k].at}
  /\ tick' = [tick EXCEPT ![k] = Quiet]
  /\ UNCHANGED <<row, born, minute, ticked, edit, edits, started>>

\* A 30-second interval begins a tick in every minute.
Advance ==
  /\ minute < Horizon
  /\ ticked > 0
  /\ minute' = minute + 1
  /\ ticked' = 0
  /\ UNCHANGED <<row, born, tick, edit, edits, started, cut, cuts>>

SchedulerNext ==
  \/ \E t \in Tasks : \/ Create(t) \/ ToggleRead(t) \/ Delete(t)
                      \/ \E on \in BOOLEAN : ToggleSave(t, on)
  \/ \E k \in Ticks : \/ TickBegin(k) \/ TickCut(k)
                      \/ \E c \in tick[k].todo :
                           TickSkip(k, c) \/ TickFire(k, c) \/ TickSave(k, c)
  \/ Advance

SchedulerSpec == SchedulerInit /\ [][SchedulerNext]_schedulerVars

-----------------------------------------------------------------------------
\* A task fires at most once in a minute, and one more time for each tick that was
\* cut between the trigger and the save and for each toggle that wrote an old
\* lastRunAt back.
RepeatsAreAccountedFor ==
  \A t \in Tasks, m \in Minutes : started[t][m] <= 1 + cuts + edits[t]

\* A task that nobody touches fires in every minute that its cron matches, as
\* soon as the ticks of that minute are over, however the other tasks of the
\* tick are toggled, deleted or skipped.
NeverMissed ==
  \A t \in Tasks, m \in Minutes :
    /\ m \in Due[t] \ cut
    /\ born[t] < m /\ m < minute
    /\ row[t].there /\ edits[t] = 0 /\ ~edit[t].there
    /\ \A k \in Ticks : InFlight(k) => tick[k].at # m
    => started[t][m] >= 1

\* Where one tick is in flight at a time, a minute that the cron matches is neither
\* missed nor fired in twice: nothing but a cut and a toggle gets past the check of
\* lastRunAt.
FiresAsScheduled == RepeatsAreAccountedFor /\ NeverMissed
=============================================================================
