--------------------------- MODULE ServicesProofs ----------------------------
(***************************************************************************)
(* Services, each for every value of its constants: the scheduler fires    *)
(* every enabled task in the minutes that its expression names, once; the  *)
(* model router answers a call from one attempt, and tries a candidate or  *)
(* a key only after the ones before it; a conversation remembers the turns *)
(* it has answered; a provider's event changes a subscription once, and    *)
(* who has paid is entitled; what is metered was delivered.  At the end,   *)
(* the types of all services, and their composition.                       *)
(***************************************************************************)
EXTENDS MCServices, WorkspaceProofs, AgentProofs, FiniteSetTheorems, SequenceTheorems, TLAPS

-----------------------------------------------------------------------------
(* The scheduler.                                                          *)

\* One process ticks, and no tick outlives its interval.
OneTick == \E k : Ticks = {k}

Times == Minutes \cup {Never}
SchedulerTyping ==
  /\ row \in [Tasks -> Row] /\ born \in [Tasks -> Times] /\ minute \in Minutes /\ ticked \in Nat
  /\ tick \in [Ticks -> TickState] /\ edit \in [Tasks -> Row] /\ edits \in [Tasks -> Nat]
  /\ started \in [Tasks -> [Minutes -> Nat]] /\ cut \subseteq Minutes /\ cuts \in Nat

Listed(t) == \E k \in Ticks : \E c \in tick[k].todo : c.task = t
Saving(t, m) == \E k \in Ticks : tick[k].at = m /\ \E c \in tick[k].saving : c.task = t

\* A tick in flight has one copy of each task that it has yet to visit, and saves the one
\* that it has fired; the next minute's tick waits for it.
TickInFlight ==
  \A k \in Ticks :
    /\ tick[k].saving \subseteq tick[k].todo
    /\ \A c, d \in tick[k].todo : c.task = d.task => c = d
    /\ \A c, d \in tick[k].saving : c = d
    /\ \A c \in tick[k].saving : started[c.task][tick[k].at] >= 1
    /\ InFlight(k) => tick[k].at <= minute /\ (tick[k].at = minute <=> ticked > 0)

\* Nothing is started for a task that was never created, nor in a minute before its tick.
NothingBefore ==
  /\ \A t \in Tasks : born[t] = Never =>
       /\ ~row[t].there /\ ~edit[t].there /\ ~Listed(t)
       /\ \A m \in Minutes : started[t][m] = 0
  /\ \A t \in Tasks, m \in Minutes :
       m > minute \/ (m = minute /\ ticked = 0) => started[t][m] = 0

\* A record, or a copy of one, that says when it fired last is right.
HasFired(t, r) == r.last # Never => started[t][r.last] >= 1
LastHasFired ==
  /\ \A t \in Tasks : HasFired(t, row[t]) /\ HasFired(t, edit[t])
  /\ \A k \in Ticks : \A c \in tick[k].todo : HasFired(c.task, c.row)

\* Nothing but a toggle disables a task.
EnabledUntilToggled ==
  /\ \A t \in Tasks : edits[t] = 0 /\ row[t].there => row[t].enabled
  /\ \A k \in Ticks : \A c \in tick[k].todo : edits[c.task] = 0 => c.row.enabled

\* A due minute of a task that nobody touches has fired, or its tick is about to.
DueIsCovered ==
  \A t \in Tasks, m \in Minutes :
    /\ m \in Due[t] \ cut
    /\ born[t] < m
    /\ m < minute \/ (m = minute /\ ticked > 0)
    /\ row[t].there \/ Listed(t)
    /\ edits[t] = 0 /\ ~edit[t].there
    => \/ started[t][m] >= 1
       \/ \E k \in Ticks : tick[k].at = m /\ \E c \in tick[k].todo : c.task = t /\ Fires(c, m)

\* What is about to fire once more is accounted for.
RepeatsAreOwed ==
  /\ RepeatsAreAccountedFor
  /\ \A t \in Tasks : row[t].there /\ row[t].last # minute /\ ~Saving(t, minute) =>
       started[t][minute] <= cuts + edits[t]
  /\ \A k \in Ticks : \A c \in tick[k].todo \ tick[k].saving : c.row.last # tick[k].at =>
       started[c.task][tick[k].at] <= cuts + edits[c.task]

SchedulerInv ==
  /\ SchedulerTyping /\ TickInFlight /\ NothingBefore /\ LastHasFired /\ EnabledUntilToggled
  /\ DueIsCovered /\ RepeatsAreOwed

LEMMA Minutes0 ==
  /\ Horizon \in Nat /\ Minutes \subseteq Nat /\ Never \in Nat /\ Never \notin Minutes
  /\ \A m \in Minutes : m <= Horizon /\ m < Never
  /\ \A m \in Times : m \in Nat
BY SchedulerAssumption DEF Minutes, Never, Times

LEMMA NoRowIs == NoRow \in Row /\ ~NoRow.there /\ NoRow.last = Never
BY DEF NoRow, Row

LEMMA QuietIs == Quiet \in TickState /\ Quiet.todo = {} /\ Quiet.saving = {} /\ Quiet.at = 0
BY SchedulerAssumption DEF Quiet, TickState, Minutes

LEMMA CopyTyped ==
  ASSUME SchedulerTyping, NEW k \in Ticks
  PROVE  /\ tick[k] \in TickState /\ tick[k].at \in Minutes
         /\ tick[k].todo \subseteq Copies /\ tick[k].saving \subseteq Copies
         /\ \A c \in tick[k].todo : c.task \in Tasks /\ c.row \in Row
         /\ \A c \in tick[k].saving : c.task \in Tasks /\ c.row \in Row
<1>1. tick[k] \in TickState
  BY DEF SchedulerTyping
<1>2. tick[k].at \in Minutes /\ tick[k].todo \subseteq Copies /\ tick[k].saving \subseteq Copies
  BY <1>1 DEF TickState
<1>3. \A c \in Copies : c.task \in Tasks /\ c.row \in Row
  BY DEF Copies
<1> QED
  BY <1>1, <1>2, <1>3

LEMMA SchedulerStarts == SchedulerInit => SchedulerInv
<1> SUFFICES ASSUME SchedulerInit PROVE SchedulerInv
  OBVIOUS
<1>1. SchedulerTyping
  <2>1. 0 \in Minutes /\ Never \in Times /\ {} \subseteq Minutes
    BY SchedulerAssumption DEF Minutes, Times
  <2>2. row \in [Tasks -> Row] /\ edit \in [Tasks -> Row] /\ tick \in [Ticks -> TickState]
    BY NoRowIs, QuietIs DEF SchedulerInit
  <2>3. started \in [Tasks -> [Minutes -> Nat]] /\ edits \in [Tasks -> Nat]
    BY DEF SchedulerInit
  <2> QED
    BY <2>1, <2>2, <2>3 DEF SchedulerInit, SchedulerTyping
<1>2. TickInFlight
  BY QuietIs DEF SchedulerInit, TickInFlight, InFlight
<1>3. NothingBefore /\ LastHasFired /\ EnabledUntilToggled
  BY QuietIs, NoRowIs DEF SchedulerInit, NothingBefore, LastHasFired, EnabledUntilToggled, Listed, HasFired
<1>4. DueIsCovered
  BY Minutes0, QuietIs, NoRowIs DEF SchedulerInit, DueIsCovered, Listed
<1>5. RepeatsAreOwed
  BY QuietIs, NoRowIs DEF SchedulerInit, RepeatsAreOwed, RepeatsAreAccountedFor
<1> QED
  BY <1>1, <1>2, <1>3, <1>4, <1>5 DEF SchedulerInv

-----------------------------------------------------------------------------
\* The routes: a step of the record of one task.
RouteStep(t) ==
  /\ UNCHANGED <<minute, ticked, tick, started, cut, cuts>>
  /\ row' \in [Tasks -> Row] /\ edit' \in [Tasks -> Row] /\ edits' \in [Tasks -> Nat]
  /\ \A u \in Tasks \ {t} : row'[u] = row[u] /\ edit'[u] = edit[u] /\ edits'[u] = edits[u]

\* What the route of a step owes for its own task.
RouteKeeps(t) ==
  /\ HasFired(t, row'[t]) /\ HasFired(t, edit'[t]) /\ edits'[t] >= edits[t]
  /\ edits'[t] = 0 => edits[t] = 0 /\ (row'[t].there => row'[t].enabled)

LEMMA RoutePreserves ==
  ASSUME SchedulerInv, NEW t \in Tasks, RouteStep(t), RouteKeeps(t), UNCHANGED born,
         born[t] # Never,
         edits'[t] = 0 /\ ~edit'[t].there => ~edit[t].there /\ (row'[t].there => row[t].there),
         row'[t].there /\ row'[t].last # minute /\ ~Saving(t, minute) =>
           started[t][minute] <= cuts + edits'[t]
  PROVE  SchedulerInv'
<1>1. SchedulerTyping'
  BY DEF SchedulerInv, SchedulerTyping, RouteStep
<1>2. TickInFlight'
  BY DEF SchedulerInv, TickInFlight, RouteStep, InFlight
<1>3. \A u \in Tasks : (Listed(u)' <=> Listed(u)) /\ \A m : Saving(u, m)' <=> Saving(u, m)
  BY DEF Listed, Saving, RouteStep
<1>4. NothingBefore'
  BY <1>3 DEF SchedulerInv, NothingBefore, RouteStep
<1>5. LastHasFired'
  <2>1. \A u \in Tasks : HasFired(u, row'[u]) /\ HasFired(u, edit'[u])
    BY DEF SchedulerInv, LastHasFired, RouteStep, RouteKeeps
  <2> QED
    BY <2>1 DEF SchedulerInv, LastHasFired, RouteStep, HasFired
<1>6. EnabledUntilToggled'
  <2>1. \A u \in Tasks : edits'[u] = 0 /\ row'[u].there => row'[u].enabled
    BY DEF SchedulerInv, EnabledUntilToggled, RouteStep, RouteKeeps
  <2>2. ASSUME NEW k \in Ticks, NEW c \in tick[k].todo, edits'[c.task] = 0
        PROVE  c.row.enabled
    <3>1. c.task \in Tasks
      BY CopyTyped DEF SchedulerInv
    <3>2. edits[c.task] = 0
      BY <2>2, <3>1 DEF RouteStep, RouteKeeps
    <3> QED
      BY <3>2 DEF SchedulerInv, EnabledUntilToggled
  <2> QED
    BY <2>1, <2>2 DEF EnabledUntilToggled, RouteStep
<1>7. DueIsCovered'
  <2>1. ASSUME NEW u \in Tasks, edits'[u] = 0, ~edit'[u].there
        PROVE  edits[u] = 0 /\ ~edit[u].there /\ (row'[u].there => row[u].there)
    BY <2>1 DEF RouteStep, RouteKeeps
  <2> QED
    BY <1>3, <2>1 DEF SchedulerInv, DueIsCovered, RouteStep
<1>8. RepeatsAreOwed'
  <2>1. /\ cuts \in Nat /\ \A u \in Tasks : edits'[u] \in Nat /\ edits[u] \in Nat
        /\ \A u \in Tasks, m \in Minutes : started[u][m] \in Nat
    BY DEF SchedulerInv, SchedulerTyping, RouteStep
  <2>2. \A u \in Tasks : edits'[u] >= edits[u]
    BY <2>1 DEF RouteStep, RouteKeeps
  <2>3. ASSUME NEW u \in Tasks, NEW m \in Minutes
        PROVE  started[u][m] <= 1 + cuts + edits'[u]
    BY <2>1, <2>2 DEF SchedulerInv, RepeatsAreOwed, RepeatsAreAccountedFor
  <2>4. ASSUME NEW u \in Tasks, row'[u].there, row'[u].last # minute, ~Saving(u, minute)
        PROVE  started[u][minute] <= cuts + edits'[u]
    <3>1. CASE u = t
      BY <2>4, <3>1
    <3>2. CASE u # t
      BY <2>4, <3>2 DEF RouteStep, SchedulerInv, RepeatsAreOwed
    <3> QED
      BY <3>1, <3>2
  <2>5. ASSUME NEW k \in Ticks, NEW c \in tick[k].todo \ tick[k].saving, c.row.last # tick[k].at
        PROVE  started[c.task][tick[k].at] <= cuts + edits'[c.task]
    <3>1. c.task \in Tasks /\ tick[k].at \in Minutes
      BY CopyTyped DEF SchedulerInv
    <3>2. started[c.task][tick[k].at] <= cuts + edits[c.task]
      BY <2>5 DEF SchedulerInv, RepeatsAreOwed
    <3> QED
      BY <2>1, <2>2, <3>1, <3>2
  <2>6. RepeatsAreAccountedFor'
    BY <2>3 DEF RepeatsAreAccountedFor, RouteStep
  <2> QED
    BY <1>3, <2>4, <2>5, <2>6 DEF RepeatsAreOwed, RouteStep
<1> QED
  BY <1>1, <1>2, <1>4, <1>5, <1>6, <1>7, <1>8 DEF SchedulerInv

LEMMA ToggleReadPreserves ==
  ASSUME SchedulerInv, NEW t \in Tasks, ToggleRead(t)
  PROVE  SchedulerInv'
<1>1. /\ row[t].there /\ edit' = [edit EXCEPT ![t] = row[t]]
      /\ UNCHANGED <<row, born, minute, ticked, tick, edits, started, cut, cuts>>
      /\ row \in [Tasks -> Row] /\ edit \in [Tasks -> Row] /\ edits \in [Tasks -> Nat]
  BY DEF ToggleRead, SchedulerInv, SchedulerTyping
<1>2. edit'[t] = row[t] /\ RouteStep(t)
  BY <1>1 DEF RouteStep
<1>3. RouteKeeps(t)
  BY <1>1, <1>2 DEF RouteKeeps, SchedulerInv, LastHasFired, EnabledUntilToggled
<1>4. born[t] # Never
  BY <1>1 DEF SchedulerInv, NothingBefore
<1>5. row'[t].there /\ row'[t].last # minute /\ ~Saving(t, minute) =>
        started[t][minute] <= cuts + edits'[t]
  BY <1>1 DEF SchedulerInv, RepeatsAreOwed
<1> QED
  BY <1>1, <1>2, <1>3, <1>4, <1>5, RoutePreserves

\* A toggle that writes an old record back is paid for by its count.
LEMMA ToggleSavePreserves ==
  ASSUME SchedulerInv, NEW t \in Tasks, NEW enabled \in BOOLEAN, ToggleSave(t, enabled)
  PROVE  SchedulerInv'
<1>1. /\ edit[t].there /\ row' = [row EXCEPT ![t] = [edit[t] EXCEPT !.enabled = enabled]]
      /\ edit' = [edit EXCEPT ![t] = NoRow] /\ edits' = [edits EXCEPT ![t] = @ + 1]
      /\ UNCHANGED <<born, minute, ticked, tick, started, cut, cuts>>
      /\ row \in [Tasks -> Row] /\ edit \in [Tasks -> Row] /\ edits \in [Tasks -> Nat]
      /\ minute \in Minutes /\ cuts \in Nat /\ started \in [Tasks -> [Minutes -> Nat]]
  BY DEF ToggleSave, SchedulerInv, SchedulerTyping
<1>2. PICK r \in Row : r = [edit[t] EXCEPT !.enabled = enabled] /\ r.last = edit[t].last
  <2>1. edit[t] \in Row
    BY <1>1
  <2>2. [edit[t] EXCEPT !.enabled = enabled] \in Row
    BY <2>1 DEF Row
  <2>3. [edit[t] EXCEPT !.enabled = enabled].last = edit[t].last
    BY <2>1 DEF Row
  <2> QED
    BY <2>2, <2>3
<1>3. RouteStep(t) /\ row'[t] = r /\ edit'[t] = NoRow /\ edits'[t] = edits[t] + 1
  BY <1>1, <1>2, NoRowIs DEF RouteStep
<1>4. RouteKeeps(t)
  <2>1. HasFired(t, r) /\ HasFired(t, NoRow)
    BY <1>2, NoRowIs DEF SchedulerInv, LastHasFired, HasFired
  <2>2. edits'[t] >= edits[t] /\ edits'[t] # 0
    BY <1>1, <1>3
  <2> QED
    BY <1>3, <2>1, <2>2 DEF RouteKeeps
<1>5. born[t] # Never
  BY <1>1 DEF SchedulerInv, NothingBefore
<1>6. edits'[t] # 0 /\ started[t][minute] <= cuts + edits'[t]
  <2>1. started[t][minute] <= 1 + cuts + edits[t] /\ edits[t] \in Nat /\ started[t][minute] \in Nat
    BY <1>1 DEF SchedulerInv, RepeatsAreOwed, RepeatsAreAccountedFor
  <2> QED
    BY <1>1, <1>3, <2>1
<1> QED
  BY <1>1, <1>3, <1>4, <1>5, <1>6, RoutePreserves

LEMMA DeletePreserves ==
  ASSUME SchedulerInv, NEW t \in Tasks, Delete(t)
  PROVE  SchedulerInv'
<1>1. /\ row[t].there /\ row' = [row EXCEPT ![t] = NoRow]
      /\ UNCHANGED <<born, minute, ticked, tick, edit, edits, started, cut, cuts>>
      /\ row \in [Tasks -> Row] /\ edit \in [Tasks -> Row] /\ edits \in [Tasks -> Nat]
  BY DEF Delete, SchedulerInv, SchedulerTyping
<1>2. RouteStep(t) /\ row'[t] = NoRow
  BY <1>1, NoRowIs DEF RouteStep
<1>3. RouteKeeps(t)
  BY <1>1, <1>2, NoRowIs DEF RouteKeeps, SchedulerInv, LastHasFired, HasFired
<1>4. born[t] # Never /\ ~row'[t].there
  BY <1>1, <1>2, NoRowIs DEF SchedulerInv, NothingBefore
<1> QED
  BY <1>1, <1>2, <1>3, <1>4, RoutePreserves

\* A new task is born in the current minute, in which it is not due.
LEMMA CreatePreserves ==
  ASSUME SchedulerInv, NEW t \in Tasks, Create(t)
  PROVE  SchedulerInv'
<1> DEFINE r == [there |-> TRUE, enabled |-> TRUE, last |-> Never]
<1>1. /\ born[t] = Never /\ born' = [born EXCEPT ![t] = minute] /\ row' = [row EXCEPT ![t] = r]
      /\ UNCHANGED <<minute, ticked, tick, edit, edits, started, cut, cuts>>
      /\ row \in [Tasks -> Row] /\ born \in [Tasks -> Times] /\ minute \in Minutes
      /\ minute \in Times /\ minute # Never
  BY Minutes0 DEF Create, SchedulerInv, SchedulerTyping, Times
<1>2. r \in Row /\ r.there /\ r.enabled /\ r.last = Never
  BY DEF Row
<1> HIDE DEF r
<1>3. /\ row' \in [Tasks -> Row] /\ row'[t] = r /\ \A u \in Tasks \ {t} : row'[u] = row[u]
      /\ born' \in [Tasks -> Times] /\ born'[t] = minute
      /\ \A u \in Tasks \ {t} : born'[u] = born[u]
  BY <1>1, <1>2
<1>4. SchedulerTyping'
  BY <1>1, <1>3 DEF SchedulerInv, SchedulerTyping
<1>5. TickInFlight'
  BY <1>1 DEF SchedulerInv, TickInFlight, InFlight
<1>6. \A u \in Tasks : (Listed(u)' <=> Listed(u)) /\ \A m : Saving(u, m)' <=> Saving(u, m)
  BY <1>1 DEF Listed, Saving
<1>7. NothingBefore'
  BY <1>1, <1>3, <1>6 DEF SchedulerInv, NothingBefore
<1>8. LastHasFired' /\ EnabledUntilToggled'
  BY <1>1, <1>2, <1>3 DEF SchedulerInv, LastHasFired, EnabledUntilToggled, HasFired
<1>9. DueIsCovered'
  <2>1. \A m \in Minutes : m < minute \/ m = minute => ~(minute < m)
    BY <1>1, Minutes0
  <2> QED
    BY <1>1, <1>3, <1>6, <2>1 DEF SchedulerInv, DueIsCovered
<1>10. RepeatsAreOwed'
  <2>1. started[t][minute] = 0 /\ cuts \in Nat /\ edits[t] \in Nat
    BY <1>1 DEF SchedulerInv, NothingBefore, SchedulerTyping
  <2>2. started[t][minute] <= cuts + edits[t]
    BY <2>1
  <2> QED
    BY <1>1, <1>3, <1>6, <2>2 DEF SchedulerInv, RepeatsAreOwed, RepeatsAreAccountedFor
<1> QED
  BY <1>4, <1>5, <1>7, <1>8, <1>9, <1>10 DEF SchedulerInv

-----------------------------------------------------------------------------
\* The tick.
LEMMA AdvancePreserves ==
  ASSUME SchedulerInv, Advance
  PROVE  SchedulerInv'
<1>1. /\ minute < Horizon /\ ticked > 0 /\ minute' = minute + 1 /\ ticked' = 0
      /\ UNCHANGED <<row, born, tick, edit, edits, started, cut, cuts>> /\ minute \in Minutes
      /\ SchedulerTyping
  BY DEF Advance, SchedulerInv, SchedulerTyping
<1>2. minute' \in Minutes /\ \A m \in Minutes : m < minute' <=> m < minute \/ m = minute
  BY <1>1, SchedulerAssumption DEF Minutes
<1>3. SchedulerTyping'
  BY <1>1, <1>2 DEF SchedulerTyping
<1>4. \A u \in Tasks : (Listed(u)' <=> Listed(u)) /\ \A m : Saving(u, m)' <=> Saving(u, m)
  BY <1>1 DEF Listed, Saving
<1>5. TickInFlight'
  <2>1. ASSUME NEW k \in Ticks, InFlight(k)
        PROVE  tick[k].at <= minute' /\ tick[k].at # minute'
    <3>1. tick[k].at <= minute /\ tick[k].at \in Minutes
      BY <1>1, <2>1, CopyTyped DEF SchedulerInv, TickInFlight
    <3>2. tick[k].at \in Nat /\ minute \in Nat
      BY <1>1, <3>1, Minutes0
    <3> QED
      BY <1>1, <3>1, <3>2
  <2>2. ~(ticked' > 0)
    BY <1>1
  <2> QED
    BY <1>1, <2>1, <2>2 DEF SchedulerInv, TickInFlight, InFlight
<1>6. \A u \in Tasks, m \in Minutes : m > minute \/ m = minute' => started[u][m] = 0
  BY <1>1, <1>2, Minutes0 DEF SchedulerInv, NothingBefore
<1>7. NothingBefore'
  <2>1. \A m \in Minutes : m > minute' => m > minute
    BY <1>1, <1>2, Minutes0
  <2> QED
    BY <1>1, <1>4, <1>6, <2>1 DEF SchedulerInv, NothingBefore
<1>8. LastHasFired' /\ EnabledUntilToggled'
  BY <1>1 DEF SchedulerInv, LastHasFired, EnabledUntilToggled, HasFired
<1>9. DueIsCovered'
  <2>1. \A m \in Minutes : m < minute' \/ (m = minute' /\ ticked' > 0) => m < minute \/ m = minute
    BY <1>1, <1>2
  <2> QED
    BY <1>1, <1>4, <2>1 DEF SchedulerInv, DueIsCovered
<1>10. RepeatsAreOwed'
  <2>1. ASSUME NEW u \in Tasks
        PROVE  started[u][minute'] <= cuts + edits[u]
    <3>1. started[u][minute'] = 0 /\ cuts \in Nat /\ edits[u] \in Nat
      BY <1>1, <1>2, <1>6 DEF SchedulerTyping
    <3> QED
      BY <3>1
  <2> QED
    BY <1>1, <2>1 DEF SchedulerInv, RepeatsAreOwed, RepeatsAreAccountedFor
<1> QED
  BY <1>3, <1>5, <1>7, <1>8, <1>9, <1>10 DEF SchedulerInv

\* What is left of a tick when it has visited a task.
LEMMA RestIs ==
  ASSUME SchedulerTyping, NEW k \in Ticks, NEW c \in tick[k].todo,
         tick' = [tick EXCEPT ![k] = Rest(k, c)]
  PROVE  /\ tick' \in [Ticks -> TickState] /\ \A j \in Ticks \ {k} : tick'[j] = tick[j]
         /\ tick'[k].todo = tick[k].todo \ {c} /\ tick'[k].saving = {}
         /\ tick'[k].todo # {} => tick'[k].at = tick[k].at
<1>1. tick[k] \in TickState /\ tick \in [Ticks -> TickState]
  BY DEF SchedulerTyping
<1> DEFINE left == tick[k].todo \ {c}
<1>2. CASE left = {}
  <2>1. Rest(k, c) = Quiet
    BY <1>2 DEF Rest
  <2> QED
    BY <1>1, <1>2, <2>1, QuietIs
<1>3. CASE left # {}
  <2>1. Rest(k, c) = [tick[k] EXCEPT !.todo = left, !.saving = {}]
    BY <1>3 DEF Rest
  <2>2. PICK todo \in SUBSET Copies : todo = left
    BY <1>1 DEF TickState
  <2>3. PICK rest : rest = [tick[k] EXCEPT !.todo = todo, !.saving = {}]
    OBVIOUS
  <2>4. {} \in SUBSET Copies
    OBVIOUS
  <2>5. /\ rest \in TickState /\ rest.todo = todo /\ rest.saving = {} /\ rest.at = tick[k].at
    BY <1>1, <2>3, <2>4 DEF TickState
  <2>6. tick' = [tick EXCEPT ![k] = rest]
    BY <2>1, <2>2, <2>3
  <2> QED
    BY <1>1, <2>2, <2>5, <2>6
<1> QED
  BY <1>2, <1>3

\* A step that takes copies off a tick, and clears what it was saving.
Shrinks(k) ==
  /\ tick' \in [Ticks -> TickState] /\ \A j \in Ticks \ {k} : tick'[j] = tick[j]
  /\ tick'[k].todo \subseteq tick[k].todo /\ tick'[k].saving = {}
  /\ tick'[k].todo # {} => tick'[k].at = tick[k].at

LEMMA ShrinkKeepsTick ==
  ASSUME SchedulerInv, NEW k \in Ticks, Shrinks(k), UNCHANGED <<minute, ticked, started, edits>>
  PROVE  /\ TickInFlight' /\ \A u \in Tasks : Listed(u)' => Listed(u)
         /\ \A j \in Ticks : \A c \in tick'[j].todo : HasFired(c.task, c.row)
         /\ \A j \in Ticks : \A c \in tick'[j].todo : edits[c.task] = 0 => c.row.enabled
<1>1. \A j \in Ticks : tick'[j].todo \subseteq tick[j].todo
  BY DEF Shrinks
<1>2. ASSUME NEW j \in Ticks
      PROVE  /\ tick'[j].saving \subseteq tick'[j].todo
             /\ \A c, d \in tick'[j].todo : c.task = d.task => c = d
             /\ \A c, d \in tick'[j].saving : c = d
             /\ \A c \in tick'[j].saving : started[c.task][tick'[j].at] >= 1
             /\ tick'[j].todo # {} => tick'[j].at <= minute /\ (tick'[j].at = minute <=> ticked > 0)
  <2>1. CASE j = k
    BY <2>1 DEF Shrinks, SchedulerInv, TickInFlight, InFlight
  <2>2. CASE j # k
    BY <2>2 DEF Shrinks, SchedulerInv, TickInFlight, InFlight
  <2> QED
    BY <2>1, <2>2
<1>3. TickInFlight'
  BY <1>2 DEF TickInFlight, InFlight
<1>4. \A u \in Tasks : Listed(u)' => Listed(u)
  BY <1>1 DEF Listed
<1> QED
  BY <1>1, <1>3, <1>4 DEF SchedulerInv, LastHasFired, EnabledUntilToggled

\* A task is passed over that is not due, or has fired in this minute already.
LEMMA SkipPreserves ==
  ASSUME SchedulerInv, NEW k \in Ticks, NEW c \in tick[k].todo, TickSkip(k, c)
  PROVE  SchedulerInv'
<1>1. /\ tick[k].saving = {} /\ ~Fires(c, tick[k].at) /\ tick' = [tick EXCEPT ![k] = Rest(k, c)]
      /\ UNCHANGED <<row, born, minute, ticked, edit, edits, started, cut, cuts>> /\ SchedulerTyping
  BY DEF TickSkip, SchedulerInv
<1>2. /\ tick' \in [Ticks -> TickState] /\ \A j \in Ticks \ {k} : tick'[j] = tick[j]
      /\ tick'[k].todo = tick[k].todo \ {c} /\ tick'[k].saving = {}
      /\ tick'[k].todo # {} => tick'[k].at = tick[k].at
  BY <1>1, RestIs
<1>3. Shrinks(k)
  BY <1>2 DEF Shrinks
<1>4. /\ TickInFlight' /\ \A u \in Tasks : Listed(u)' => Listed(u)
      /\ \A j \in Ticks : \A d \in tick'[j].todo : HasFired(d.task, d.row)
      /\ \A j \in Ticks : \A d \in tick'[j].todo : edits[d.task] = 0 => d.row.enabled
  BY <1>1, <1>3, ShrinkKeepsTick
<1>5. SchedulerTyping'
  BY <1>1, <1>2 DEF SchedulerTyping
<1>6. NothingBefore' /\ LastHasFired' /\ EnabledUntilToggled'
  BY <1>1, <1>4 DEF SchedulerInv, NothingBefore, LastHasFired, EnabledUntilToggled, HasFired
<1>7. DueIsCovered'
  <2>1. ASSUME NEW u \in Tasks, NEW m \in Minutes, NEW j \in Ticks, tick[j].at = m,
               NEW d \in tick[j].todo, d.task = u, Fires(d, m)
        PROVE  \E i \in Ticks : tick'[i].at = m /\ \E e \in tick'[i].todo : e.task = u /\ Fires(e, m)
    <3>1. CASE j = k
      <4>1. d # c
        BY <1>1, <2>1, <3>1
      <4>2. d \in tick'[k].todo /\ tick'[k].at = m
        BY <1>2, <2>1, <3>1, <4>1
      <4> QED
        BY <2>1, <4>2
    <3>2. CASE j # k
      BY <1>2, <2>1, <3>2
    <3> QED
      BY <3>1, <3>2
  <2>2. \A e, m : Fires(e, m)' <=> Fires(e, m)
    BY DEF Fires
  <2> QED
    BY <1>1, <1>4, <2>1, <2>2 DEF SchedulerInv, DueIsCovered
<1>8. RepeatsAreOwed'
  <2>1. \A u \in Tasks, m \in Minutes : Saving(u, m)' <=> Saving(u, m)
    BY <1>1, <1>2 DEF Saving
  <2>2. ASSUME NEW j \in Ticks, NEW d \in tick'[j].todo \ tick'[j].saving, d.row.last # tick'[j].at
        PROVE  started[d.task][tick'[j].at] <= cuts + edits[d.task]
    <3>1. d \in tick[j].todo \ tick[j].saving /\ tick'[j].at = tick[j].at
      BY <1>1, <1>2, <2>2
    <3> QED
      BY <2>2, <3>1 DEF SchedulerInv, RepeatsAreOwed
  <2>3. minute \in Minutes
    BY <1>1 DEF SchedulerTyping
  <2> QED
    BY <1>1, <2>1, <2>2, <2>3 DEF SchedulerInv, RepeatsAreOwed, RepeatsAreAccountedFor
<1> QED
  BY <1>4, <1>5, <1>6, <1>7, <1>8 DEF SchedulerInv

\* A tick that is cut short owes its minute nothing, and every task one more start.
LEMMA CutPreserves ==
  ASSUME SchedulerInv, NEW k \in Ticks, TickCut(k)
  PROVE  SchedulerInv'
<1>1. /\ InFlight(k) /\ cuts' = cuts + 1 /\ cut' = cut \cup {tick[k].at}
      /\ tick' = [tick EXCEPT ![k] = Quiet]
      /\ UNCHANGED <<row, born, minute, ticked, edit, edits, started>> /\ SchedulerTyping
  BY DEF TickCut, SchedulerInv
<1>2. /\ tick' \in [Ticks -> TickState] /\ \A j \in Ticks \ {k} : tick'[j] = tick[j]
      /\ tick'[k] = Quiet
  BY <1>1, QuietIs DEF SchedulerTyping
<1>3. Shrinks(k)
  BY <1>2, QuietIs DEF Shrinks
<1>4. /\ TickInFlight' /\ \A u \in Tasks : Listed(u)' => Listed(u)
      /\ \A j \in Ticks : \A d \in tick'[j].todo : HasFired(d.task, d.row)
      /\ \A j \in Ticks : \A d \in tick'[j].todo : edits[d.task] = 0 => d.row.enabled
  BY <1>1, <1>3, ShrinkKeepsTick
<1>5. SchedulerTyping'
  <2>1. tick[k].at \in Minutes /\ cuts \in Nat /\ cuts' \in Nat
    BY <1>1, CopyTyped DEF SchedulerTyping
  <2> QED
    BY <1>1, <1>2, <2>1 DEF SchedulerTyping
<1>6. NothingBefore' /\ LastHasFired' /\ EnabledUntilToggled'
  BY <1>1, <1>4 DEF SchedulerInv, NothingBefore, LastHasFired, EnabledUntilToggled, HasFired
<1>7. DueIsCovered'
  <2>1. ASSUME NEW u \in Tasks, NEW m \in Minutes, m \notin cut', NEW j \in Ticks, tick[j].at = m
        PROVE  tick'[j] = tick[j]
    BY <1>1, <1>2, <2>1
  <2>2. \A e, m : Fires(e, m)' <=> Fires(e, m)
    BY DEF Fires
  <2>3. \A u \in Tasks, m \in Minutes : m \in Due[u] \ cut' => m \in Due[u] \ cut /\ m \notin cut'
    BY <1>1
  <2>4. ASSUME NEW u \in Tasks, NEW m \in Minutes, m \in Due[u] \ cut', NEW j \in Ticks,
               tick[j].at = m, NEW d \in tick[j].todo, d.task = u, Fires(d, m)
        PROVE  \E i \in Ticks : tick'[i].at = m /\ \E e \in tick'[i].todo : e.task = u /\ Fires(e, m)
    BY <2>1, <2>4
  <2> QED
    BY <1>1, <1>4, <2>2, <2>3, <2>4 DEF SchedulerInv, DueIsCovered
<1>8. RepeatsAreOwed'
  <2>1. /\ cuts \in Nat /\ \A u \in Tasks : edits[u] \in Nat
        /\ \A u \in Tasks, m \in Minutes : started[u][m] \in Nat
    BY <1>1 DEF SchedulerTyping
  <2>2. \A u \in Tasks, m \in Minutes : started[u][m] <= cuts' + edits[u]
    BY <1>1, <2>1 DEF SchedulerInv, RepeatsAreOwed, RepeatsAreAccountedFor
  <2>3. \A u \in Tasks, m \in Minutes : started[u][m] <= 1 + cuts' + edits[u]
    BY <1>1, <2>1, <2>2
  <2>4. minute \in Minutes
    BY <1>1 DEF SchedulerTyping
  <2>5. \A j \in Ticks : tick'[j].at \in Minutes /\ \A d \in tick'[j].todo : d.task \in Tasks
    <3>1. ASSUME NEW j \in Ticks
          PROVE  tick'[j].at \in Minutes /\ \A d \in tick'[j].todo : d.task \in Tasks
      <4>1. CASE j = k
        BY <1>2, <4>1, QuietIs DEF TickState
      <4>2. CASE j # k
        BY <1>1, <1>2, <4>2, CopyTyped
      <4> QED
        BY <4>1, <4>2
    <3> QED
      BY <3>1
  <2> QED
    BY <1>1, <2>2, <2>3, <2>4, <2>5 DEF RepeatsAreOwed, RepeatsAreAccountedFor
<1> QED
  BY <1>4, <1>5, <1>6, <1>7, <1>8 DEF SchedulerInv

\* The tick starts a job of a task that it listed as not fired in this minute.
LEMMA FirePreserves ==
  ASSUME SchedulerInv, OneTick, NEW k \in Ticks, NEW c \in tick[k].todo, TickFire(k, c)
  PROVE  SchedulerInv'
<1>1. /\ tick[k].saving = {} /\ Fires(c, tick[k].at) /\ SchedulerTyping
      /\ started' = [started EXCEPT ![c.task][tick[k].at] = @ + 1]
      /\ tick' = [tick EXCEPT ![k].saving = {c}]
      /\ UNCHANGED <<row, born, minute, ticked, edit, edits, cut, cuts>>
  BY DEF TickFire, SchedulerInv
<1>2. PICK t \in Tasks, m \in Minutes : t = c.task /\ m = tick[k].at /\ c \in Copies
  BY <1>1, CopyTyped
<1>3. /\ tick' \in [Ticks -> TickState] /\ \A j \in Ticks \ {k} : tick'[j] = tick[j]
      /\ tick'[k].at = m /\ tick'[k].todo = tick[k].todo /\ tick'[k].saving = {c}
  <2>1. tick[k] \in TickState /\ tick \in [Ticks -> TickState]
    BY <1>1 DEF SchedulerTyping
  <2>2. PICK s \in SUBSET Copies : s = {c}
    BY <1>2
  <2>3. PICK next : next = [tick[k] EXCEPT !.saving = s]
    OBVIOUS
  <2>4. next \in TickState /\ next.at = tick[k].at /\ next.todo = tick[k].todo /\ next.saving = s
    BY <2>1, <2>3 DEF TickState
  <2>5. tick' = [tick EXCEPT ![k] = next]
    BY <1>1, <2>2, <2>3
  <2> QED
    BY <1>2, <2>1, <2>2, <2>4, <2>5
<1>4. /\ started' \in [Tasks -> [Minutes -> Nat]] /\ started'[t][m] = started[t][m] + 1
      /\ \A u \in Tasks, i \in Minutes : u # t \/ i # m => started'[u][i] = started[u][i]
  <2>1. started \in [Tasks -> [Minutes -> Nat]]
    BY <1>1 DEF SchedulerTyping
  <2>2. started' = [started EXCEPT ![t] = [started[t] EXCEPT ![m] = started[t][m] + 1]]
    BY <1>1, <1>2, <2>1
  <2>3. started[t] \in [Minutes -> Nat] /\ started[t][m] + 1 \in Nat
    BY <2>1
  <2>4. /\ [started[t] EXCEPT ![m] = started[t][m] + 1] \in [Minutes -> Nat]
        /\ started'[t] = [started[t] EXCEPT ![m] = started[t][m] + 1]
        /\ \A u \in Tasks \ {t} : started'[u] = started[u]
    BY <2>1, <2>2, <2>3
  <2> QED
    BY <2>1, <2>2, <2>3, <2>4
<1>5. \A u \in Tasks, i \in Minutes : started[u][i] \in Nat /\ (started[u][i] >= 1 => started'[u][i] >= 1)
  BY <1>1, <1>4 DEF SchedulerTyping
<1>6. SchedulerTyping'
  BY <1>1, <1>3, <1>4 DEF SchedulerTyping
<1>7. \A j \in Ticks : tick'[j].todo = tick[j].todo /\ tick'[j].at = tick[j].at
  BY <1>2, <1>3
<1>8. \A u \in Tasks : Listed(u)' <=> Listed(u)
  BY <1>7 DEF Listed
<1>9. started'[t][m] >= 1
  BY <1>4, <1>5
<1>10. TickInFlight'
  <2>1. ASSUME NEW j \in Ticks
        PROVE  /\ tick'[j].saving \subseteq tick'[j].todo
               /\ \A d, e \in tick'[j].todo : d.task = e.task => d = e
               /\ \A d, e \in tick'[j].saving : d = e
               /\ \A d \in tick'[j].saving : started'[d.task][tick'[j].at] >= 1
               /\ tick'[j].todo # {} =>
                    tick'[j].at <= minute /\ (tick'[j].at = minute <=> ticked > 0)
    <3>1. /\ \A d, e \in tick'[j].todo : d.task = e.task => d = e
          /\ tick'[j].todo # {} => tick'[j].at <= minute /\ (tick'[j].at = minute <=> ticked > 0)
      BY <1>7 DEF SchedulerInv, TickInFlight, InFlight
    <3>2. CASE j = k
      BY <1>2, <1>3, <1>9, <3>1, <3>2
    <3>3. CASE j # k
      <4>1. \A d \in tick[j].saving : d.task \in Tasks /\ tick[j].at \in Minutes
        BY <1>1, CopyTyped
      <4>2. \A d \in tick[j].saving : started[d.task][tick[j].at] >= 1
        BY DEF SchedulerInv, TickInFlight
      <4>3. \A d \in tick'[j].saving : started'[d.task][tick'[j].at] >= 1
        BY <1>3, <1>5, <3>3, <4>1, <4>2
      <4> QED
        BY <1>3, <3>1, <3>3, <4>3 DEF SchedulerInv, TickInFlight
    <3> QED
      BY <3>2, <3>3
  <2> QED
    BY <1>1, <2>1 DEF TickInFlight, InFlight
<1>11. NothingBefore'
  <2>1. born[t] # Never
    BY <1>2 DEF SchedulerInv, NothingBefore, Listed
  <2>2. ~(m > minute \/ (m = minute /\ ticked = 0))
    <3>1. m <= minute /\ (m = minute <=> ticked > 0)
      BY <1>2 DEF SchedulerInv, TickInFlight, InFlight
    <3>2. m \in Nat /\ minute \in Nat /\ ticked \in Nat
      BY <1>1, Minutes0 DEF SchedulerTyping
    <3> QED
      BY <3>1, <3>2
  <2> QED
    BY <1>1, <1>4, <1>8, <2>1, <2>2 DEF SchedulerInv, NothingBefore
<1>12. LastHasFired'
  <2>1. ASSUME NEW u \in Tasks, NEW r \in Row, HasFired(u, r)
        PROVE  HasFired(u, r)'
    <3>1. r.last # Never => r.last \in Minutes
      BY DEF Row
    <3> QED
      BY <1>5, <2>1, <3>1 DEF HasFired
  <2>2. \A u \in Tasks : row[u] \in Row /\ edit[u] \in Row
    BY <1>1 DEF SchedulerTyping
  <2>3. \A j \in Ticks : \A d \in tick[j].todo : d.task \in Tasks /\ d.row \in Row
    BY <1>1, CopyTyped
  <2>4. \A u \in Tasks : HasFired(u, row[u])' /\ HasFired(u, edit[u])'
    BY <1>1, <2>1, <2>2 DEF SchedulerInv, LastHasFired, HasFired
  <2>5. \A j \in Ticks : \A d \in tick[j].todo : HasFired(d.task, d.row)'
    BY <2>1, <2>3 DEF SchedulerInv, LastHasFired
  <2> QED
    BY <1>7, <2>4, <2>5 DEF LastHasFired
<1>13. EnabledUntilToggled'
  BY <1>1, <1>7 DEF SchedulerInv, EnabledUntilToggled
<1>14. DueIsCovered'
  <2>1. \A e, i : Fires(e, i)' <=> Fires(e, i)
    BY DEF Fires
  <2> QED
    BY <1>1, <1>5, <1>7, <1>8, <2>1 DEF SchedulerInv, DueIsCovered
<1>15. RepeatsAreOwed'
  <2>1. started[t][m] <= cuts + edits[t]
    <3>1. c \in tick[k].todo \ tick[k].saving /\ c.row.last # tick[k].at
      BY <1>1 DEF Fires
    <3> QED
      BY <1>2, <3>1 DEF SchedulerInv, RepeatsAreOwed
  <2>2. RepeatsAreAccountedFor'
    <3>1. ASSUME NEW u \in Tasks, NEW i \in Minutes
          PROVE  started'[u][i] <= 1 + cuts + edits[u]
      <4>1. CASE u = t /\ i = m
        <5>1. started[t][m] \in Nat /\ cuts \in Nat /\ edits[t] \in Nat
          BY <1>1 DEF SchedulerTyping
        <5> QED
          BY <1>4, <2>1, <4>1, <5>1
      <4>2. CASE ~(u = t /\ i = m)
        BY <1>4, <4>2 DEF SchedulerInv, RepeatsAreOwed, RepeatsAreAccountedFor
      <4> QED
        BY <4>1, <4>2
    <3> QED
      BY <1>1, <3>1 DEF RepeatsAreAccountedFor
  <2>3. ASSUME NEW u \in Tasks, row[u].there, row[u].last # minute, ~Saving(u, minute)'
        PROVE  started'[u][minute] <= cuts + edits[u]
    <3>1. ~Saving(u, minute) /\ ~(u = t /\ m = minute)
      BY <1>1, <1>2, <1>3, <2>3 DEF Saving
    <3>2. minute \in Minutes
      BY <1>1 DEF SchedulerTyping
    <3> QED
      BY <1>4, <2>3, <3>1, <3>2 DEF SchedulerInv, RepeatsAreOwed
  <2>4. ASSUME NEW j \in Ticks, NEW d \in tick'[j].todo \ tick'[j].saving, d.row.last # tick'[j].at
        PROVE  started'[d.task][tick'[j].at] <= cuts + edits[d.task]
    <3> j = k
      BY DEF OneTick
    <3>1. d \in tick[k].todo /\ d # c /\ d.task # t /\ d.task \in Tasks
      BY <1>1, <1>2, <1>3, <2>4, CopyTyped DEF SchedulerInv, TickInFlight
    <3> QED
      BY <1>1, <1>2, <1>3, <1>4, <2>4, <3>1 DEF SchedulerInv, RepeatsAreOwed
  <2> QED
    BY <1>1, <2>2, <2>3, <2>4 DEF RepeatsAreOwed
<1> QED
  BY <1>6, <1>10, <1>11, <1>12, <1>13, <1>14, <1>15 DEF SchedulerInv

\* The copy that is saved says that the task has fired in the minute of the tick.
LEMMA SavePreserves ==
  ASSUME SchedulerInv, OneTick, NEW k \in Ticks, NEW c \in tick[k].todo, TickSave(k, c)
  PROVE  SchedulerInv'
<1>1. /\ c \in tick[k].saving /\ tick' = [tick EXCEPT ![k] = Rest(k, c)] /\ SchedulerTyping
      /\ row' = [row EXCEPT ![c.task] = [c.row EXCEPT !.last = tick[k].at]]
      /\ UNCHANGED <<born, minute, ticked, edit, edits, started, cut, cuts>>
  BY DEF TickSave, SchedulerInv
<1>2. PICK t \in Tasks, m \in Minutes : t = c.task /\ m = tick[k].at /\ c.row \in Row
  BY <1>1, CopyTyped
<1>3. PICK r \in Row : r = [c.row EXCEPT !.last = m] /\ r.last = m /\ r.enabled = c.row.enabled
  <2>1. [c.row EXCEPT !.last = m] \in Row
    BY <1>2 DEF Row
  <2>2. [c.row EXCEPT !.last = m].last = m /\ [c.row EXCEPT !.last = m].enabled = c.row.enabled
    BY <1>2 DEF Row
  <2> QED
    BY <2>1, <2>2
<1>4. row' \in [Tasks -> Row] /\ row'[t] = r /\ \A u \in Tasks \ {t} : row'[u] = row[u]
  BY <1>1, <1>2, <1>3 DEF SchedulerTyping
<1>5. /\ tick' \in [Ticks -> TickState] /\ \A j \in Ticks \ {k} : tick'[j] = tick[j]
      /\ tick'[k].todo = tick[k].todo \ {c} /\ tick'[k].saving = {}
      /\ tick'[k].todo # {} => tick'[k].at = tick[k].at
  BY <1>1, RestIs
<1>6. Shrinks(k)
  BY <1>5 DEF Shrinks
<1>7. /\ TickInFlight' /\ \A u \in Tasks : Listed(u)' => Listed(u)
      /\ \A j \in Ticks : \A d \in tick'[j].todo : HasFired(d.task, d.row)
      /\ \A j \in Ticks : \A d \in tick'[j].todo : edits[d.task] = 0 => d.row.enabled
  BY <1>1, <1>6, ShrinkKeepsTick
<1>8. /\ started[t][m] >= 1 /\ Listed(t) /\ tick[k].saving = {c}
      /\ m <= minute /\ (m = minute <=> ticked > 0)
  BY <1>1, <1>2 DEF SchedulerInv, TickInFlight, Listed, InFlight
<1>9. SchedulerTyping'
  BY <1>1, <1>4, <1>5 DEF SchedulerTyping
<1>10. NothingBefore'
  <2>1. ASSUME NEW u \in Tasks, born'[u] = Never
        PROVE  /\ ~row'[u].there /\ ~edit'[u].there /\ ~Listed(u)'
               /\ \A n \in Minutes : started'[u][n] = 0
    <3>1. /\ ~row[u].there /\ ~edit[u].there /\ ~Listed(u) /\ u \in Tasks \ {t}
          /\ \A n \in Minutes : started[u][n] = 0
      BY <1>1, <1>8, <2>1 DEF SchedulerInv, NothingBefore
    <3> QED
      BY <1>1, <1>4, <1>7, <3>1
  <2>2. \A u \in Tasks, n \in Minutes : n > minute \/ (n = minute /\ ticked = 0) => started[u][n] = 0
    BY DEF SchedulerInv, NothingBefore
  <2> QED
    BY <1>1, <2>1, <2>2 DEF NothingBefore
<1>11. LastHasFired'
  BY <1>1, <1>3, <1>4, <1>7, <1>8 DEF SchedulerInv, LastHasFired, HasFired
<1>12. EnabledUntilToggled'
  BY <1>1, <1>2, <1>3, <1>4, <1>7 DEF SchedulerInv, EnabledUntilToggled
<1>13. DueIsCovered'
  <2>1. ASSUME NEW u \in Tasks, NEW i \in Minutes, NEW j \in Ticks, tick[j].at = i,
               NEW d \in tick[j].todo, d.task = u, Fires(d, i)
        PROVE  \/ started[u][i] >= 1
               \/ \E l \in Ticks : tick'[l].at = i /\ \E e \in tick'[l].todo : e.task = u /\ Fires(e, i)
    <3> j = k
      BY DEF OneTick
    <3>1. CASE d = c
      BY <1>2, <1>8, <2>1, <3>1
    <3>2. CASE d # c
      <4>1. d \in tick'[k].todo /\ tick'[k].at = i
        BY <1>5, <2>1, <3>2
      <4> QED
        BY <2>1, <4>1
    <3> QED
      BY <3>1, <3>2
  <2>2. \A e, i : Fires(e, i)' <=> Fires(e, i)
    BY DEF Fires
  <2>3. \A u \in Tasks : row'[u].there \/ Listed(u)' => row[u].there \/ Listed(u)
    BY <1>4, <1>7, <1>8
  <2> QED
    BY <1>1, <2>1, <2>2, <2>3 DEF SchedulerInv, DueIsCovered
<1>14. RepeatsAreOwed'
  <2>1. RepeatsAreAccountedFor'
    BY <1>1 DEF SchedulerInv, RepeatsAreOwed, RepeatsAreAccountedFor
  <2>2. ASSUME NEW u \in Tasks, row'[u].there, row'[u].last # minute, ~Saving(u, minute)'
        PROVE  started[u][minute] <= cuts + edits[u]
    <3>1. CASE u = t
      <4>1. minute \in Minutes /\ ticked \in Nat /\ cuts \in Nat /\ edits[t] \in Nat
        BY <1>1 DEF SchedulerTyping
      <4>2. ticked = 0
        <5>1. m # minute
          BY <1>3, <1>4, <2>2, <3>1
        <5>2. ~(ticked > 0)
          BY <1>8, <5>1
        <5> QED
          BY <4>1, <5>2
      <4>3. started[u][minute] = 0
        BY <4>1, <4>2 DEF SchedulerInv, NothingBefore
      <4> QED
        BY <3>1, <4>1, <4>3
    <3>2. CASE u # t
      <4>1. ~Saving(u, minute)
        BY <1>2, <1>8, <3>2 DEF Saving, OneTick
      <4> QED
        BY <1>4, <2>2, <3>2, <4>1 DEF SchedulerInv, RepeatsAreOwed
    <3> QED
      BY <3>1, <3>2
  <2>3. ASSUME NEW j \in Ticks, NEW d \in tick'[j].todo \ tick'[j].saving, d.row.last # tick'[j].at
        PROVE  started[d.task][tick'[j].at] <= cuts + edits[d.task]
    <3> j = k
      BY DEF OneTick
    <3>1. d \in tick[k].todo \ tick[k].saving /\ tick'[k].at = tick[k].at
      BY <1>5, <1>8, <2>3
    <3> QED
      BY <2>3, <3>1 DEF SchedulerInv, RepeatsAreOwed
  <2> QED
    BY <1>1, <2>1, <2>2, <2>3 DEF RepeatsAreOwed
<1> QED
  BY <1>7, <1>9, <1>10, <1>11, <1>12, <1>13, <1>14 DEF SchedulerInv

\* The copies that a tick lists.
LEMMA BeginIs ==
  ASSUME SchedulerTyping, NEW k \in Ticks, TickBegin(k)
  PROVE  /\ tick' \in [Ticks -> TickState] /\ \A j \in Ticks \ {k} : tick'[j] = tick[j]
         /\ tick'[k].saving = {} /\ (tick'[k].todo # {} => tick'[k].at = minute)
         /\ \A c \in tick'[k].todo : /\ c.task \in Tasks /\ c.row = row[c.task]
                                     /\ c.row.there /\ c.row.enabled
         /\ \A c, d \in tick'[k].todo : c.task = d.task => c = d
         /\ \A t \in Tasks : row[t].there /\ row[t].enabled =>
              \E c \in tick'[k].todo : c.task = t /\ c.row = row[t]
<1> DEFINE enabled == {t \in Tasks : row[t].there /\ row[t].enabled}
           todo == {[task |-> t, row |-> row[t]] : t \in enabled}
<1>1. tick' = [tick EXCEPT ![k] = IF enabled = {} THEN Quiet
                                  ELSE [at |-> minute, saving |-> {}, todo |-> todo]]
  BY DEF TickBegin
<1>2. row \in [Tasks -> Row] /\ minute \in Minutes /\ tick \in [Ticks -> TickState]
  BY DEF SchedulerTyping
<1>3. todo \in SUBSET Copies
  BY <1>2 DEF Copies
<1>4. ASSUME NEW c \in todo
      PROVE  c.task \in enabled /\ c.row = row[c.task] /\ c = [task |-> c.task, row |-> row[c.task]]
  OBVIOUS
<1>5. \A c \in todo : /\ c.task \in Tasks /\ c.row = row[c.task] /\ c.row.there /\ c.row.enabled
  BY <1>4
<1>6. \A c, d \in todo : c.task = d.task => c = d
  BY <1>4
<1>7. ASSUME NEW t \in enabled
      PROVE  \E c \in todo : c.task = t /\ c.row = row[t]
  <2>1. [task |-> t, row |-> row[t]] \in todo
    OBVIOUS
  <2> QED
    BY <2>1
<1>8. enabled = {} => todo = {}
  OBVIOUS
<1>9. CASE enabled = {}
  <2>1. tick'[k] = Quiet /\ tick' \in [Ticks -> TickState]
        /\ \A j \in Ticks \ {k} : tick'[j] = tick[j]
    BY <1>1, <1>2, <1>9, QuietIs
  <2> QED
    BY <1>9, <2>1, QuietIs
<1>10. CASE enabled # {}
  <2> DEFINE next == [at |-> minute, saving |-> {}, todo |-> todo]
  <2>1. /\ next \in TickState /\ next.at = minute /\ next.saving = {} /\ next.todo = todo
    BY <1>2, <1>3 DEF TickState
  <2>2. tick' = [tick EXCEPT ![k] = next]
    BY <1>1, <1>10
  <2> HIDE DEF next, todo
  <2>3. tick'[k] = next /\ tick' \in [Ticks -> TickState]
        /\ \A j \in Ticks \ {k} : tick'[j] = tick[j]
    BY <1>2, <2>1, <2>2
  <2> QED
    BY <1>5, <1>6, <1>7, <2>1, <2>3
<1> QED
  BY <1>9, <1>10

LEMMA BeginPreserves ==
  ASSUME SchedulerInv, OneTick, NEW k \in Ticks, TickBegin(k)
  PROVE  SchedulerInv'
<1>1. /\ ~InFlight(k) /\ tick[k].todo = {} /\ ticked' = ticked + 1 /\ SchedulerTyping
      /\ UNCHANGED <<row, born, minute, edit, edits, started, cut, cuts>>
      /\ \A j \in Ticks : j = k
  BY DEF TickBegin, InFlight, SchedulerInv, OneTick
<1>2. /\ tick' \in [Ticks -> TickState] /\ \A j \in Ticks \ {k} : tick'[j] = tick[j]
      /\ tick'[k].saving = {} /\ (tick'[k].todo # {} => tick'[k].at = minute)
      /\ \A c \in tick'[k].todo : /\ c.task \in Tasks /\ c.row = row[c.task]
                                  /\ c.row.there /\ c.row.enabled
      /\ \A c, d \in tick'[k].todo : c.task = d.task => c = d
      /\ \A t \in Tasks : row[t].there /\ row[t].enabled =>
           \E c \in tick'[k].todo : c.task = t /\ c.row = row[t]
  BY <1>1, BeginIs
<1>3. minute \in Minutes /\ minute \in Nat /\ ticked \in Nat /\ ticked' \in Nat /\ ticked' > 0
  BY <1>1, Minutes0 DEF SchedulerTyping
<1>4. SchedulerTyping'
  BY <1>1, <1>2, <1>3 DEF SchedulerTyping
<1>5. TickInFlight'
  BY <1>1, <1>2, <1>3 DEF TickInFlight, InFlight
<1>6. \A u \in Tasks : ~Listed(u) /\ (Listed(u)' => row[u].there)
  BY <1>1, <1>2 DEF Listed
<1>7. NothingBefore'
  <2>1. \A t \in Tasks : born'[t] = Never =>
          (~row'[t].there /\ ~edit'[t].there /\ ~Listed(t)' /\ \A m \in Minutes : started'[t][m] = 0)
    BY <1>1, <1>6 DEF SchedulerInv, NothingBefore
  <2>2. \A t \in Tasks, m \in Minutes : m > minute => started[t][m] = 0
    BY DEF SchedulerInv, NothingBefore
  <2>3. \A t \in Tasks, m \in Minutes : m > minute' \/ (m = minute' /\ ticked' = 0) => started'[t][m] = 0
    <3>1. ~(ticked' = 0) /\ minute' = minute /\ started' = started
      BY <1>1, <1>3 DEF TickBegin
    <3> QED
      BY <2>2, <3>1
  <2> QED
    BY <2>1, <2>3 DEF NothingBefore
<1>8. LastHasFired' /\ EnabledUntilToggled'
  BY <1>1, <1>2 DEF SchedulerInv, LastHasFired, EnabledUntilToggled, HasFired
<1>9. DueIsCovered'
  <2>1. ASSUME NEW u \in Tasks, NEW m \in Minutes, m \in Due[u] \ cut, born[u] < m,
               m < minute \/ m = minute, row[u].there, edits[u] = 0, ~edit[u].there
        PROVE  \/ started[u][m] >= 1
               \/ \E l \in Ticks : tick'[l].at = m /\ \E e \in tick'[l].todo : e.task = u /\ Fires(e, m)
    <3>1. CASE m = minute
      <4>1. PICK c \in tick'[k].todo : c.task = u /\ c.row = row[u]
        BY <1>2, <2>1 DEF SchedulerInv, EnabledUntilToggled
      <4>2. CASE row[u].last = m
        <5>1. m # Never
          BY Minutes0
        <5> QED
          BY <4>2, <5>1 DEF SchedulerInv, LastHasFired, HasFired
      <4>3. CASE row[u].last # m
        <5>1. Fires(c, m) /\ tick'[k].at = m
          BY <1>2, <2>1, <3>1, <4>1, <4>3 DEF Fires
        <5> QED
          BY <4>1, <5>1
      <4> QED
        BY <4>2, <4>3
    <3>2. CASE m # minute
      <4>1. m < minute
        BY <2>1, <3>2
      <4> QED
        BY <1>1, <2>1, <4>1 DEF SchedulerInv, DueIsCovered
    <3> QED
      BY <3>1, <3>2
  <2>2. \A e, i : Fires(e, i)' <=> Fires(e, i)
    BY DEF Fires
  <2> QED
    BY <1>1, <1>6, <2>1, <2>2 DEF DueIsCovered
<1>10. RepeatsAreOwed'
  <2>1. \A u \in Tasks : ~Saving(u, minute)
    BY <1>1 DEF Saving, SchedulerInv, TickInFlight
  <2>2. \A u \in Tasks : row[u].there /\ row[u].last # minute => started[u][minute] <= cuts + edits[u]
    BY <2>1 DEF SchedulerInv, RepeatsAreOwed
  <2>3. \A c \in tick'[k].todo : c.row.last # tick'[k].at =>
          started[c.task][tick'[k].at] <= cuts + edits[c.task]
    BY <1>2, <2>2
  <2>4. RepeatsAreAccountedFor'
    BY <1>1 DEF SchedulerInv, RepeatsAreOwed, RepeatsAreAccountedFor
  <2> QED
    BY <1>1, <2>2, <2>3, <2>4 DEF RepeatsAreOwed
<1> QED
  BY <1>4, <1>5, <1>7, <1>8, <1>9, <1>10 DEF SchedulerInv

LEMMA SchedulerNextPreserves ==
  ASSUME OneTick, SchedulerInv, [SchedulerNext]_schedulerVars
  PROVE  SchedulerInv'
<1>1. CASE UNCHANGED schedulerVars
  BY <1>1 DEF SchedulerInv, SchedulerTyping, TickInFlight, NothingBefore, LastHasFired,
     EnabledUntilToggled, DueIsCovered, RepeatsAreOwed, RepeatsAreAccountedFor, schedulerVars,
     InFlight, Listed, Saving, HasFired, Fires
<1>2. ASSUME NEW t \in Tasks, Create(t) \/ ToggleRead(t) \/ Delete(t)
      PROVE  SchedulerInv'
  BY <1>2, CreatePreserves, ToggleReadPreserves, DeletePreserves
<1>3. ASSUME NEW t \in Tasks, NEW on \in BOOLEAN, ToggleSave(t, on)
      PROVE  SchedulerInv'
  BY <1>3, ToggleSavePreserves
<1>4. ASSUME NEW k \in Ticks, TickBegin(k) \/ TickCut(k)
      PROVE  SchedulerInv'
  BY <1>4, BeginPreserves, CutPreserves
<1>5. ASSUME NEW k \in Ticks, NEW c \in tick[k].todo,
             TickSkip(k, c) \/ TickFire(k, c) \/ TickSave(k, c)
      PROVE  SchedulerInv'
  BY <1>5, SkipPreserves, FirePreserves, SavePreserves
<1>6. CASE Advance
  BY <1>6, AdvancePreserves
<1> QED
  BY <1>1, <1>2, <1>3, <1>4, <1>5, <1>6 DEF SchedulerNext

LEMMA InvFires == SchedulerInv => FiresAsScheduled
<1> SUFFICES ASSUME SchedulerInv PROVE FiresAsScheduled
  OBVIOUS
<1>1. RepeatsAreAccountedFor
  BY DEF SchedulerInv, RepeatsAreOwed
<1>2. ASSUME NEW t \in Tasks, NEW m \in Minutes, m \in Due[t] \ cut, born[t] < m, m < minute,
             row[t].there, edits[t] = 0, ~edit[t].there,
             \A k \in Ticks : InFlight(k) => tick[k].at # m
      PROVE  started[t][m] >= 1
  <2>1. ~\E k \in Ticks : tick[k].at = m /\ \E c \in tick[k].todo : c.task = t /\ Fires(c, m)
    BY <1>2 DEF InFlight
  <2> QED
    BY <1>2, <2>1 DEF SchedulerInv, DueIsCovered
<1> QED
  BY <1>1, <1>2 DEF FiresAsScheduled, NeverMissed

\* Where one process ticks and no tick outlives its interval, for any tasks, cron expressions,
\* cuts and toggles: no due minute is missed, and no minute fires twice but for a cut between
\* a start and its save, or a toggle that wrote an old lastRunAt back.
THEOREM FiresOnTime == OneTick => (SchedulerSpec => []FiresAsScheduled)
<1> SUFFICES ASSUME OneTick PROVE SchedulerSpec => []FiresAsScheduled
  OBVIOUS
<1>1. SchedulerInit => SchedulerInv
  BY SchedulerStarts
<1>2. SchedulerInv /\ [SchedulerNext]_schedulerVars => SchedulerInv'
  BY SchedulerNextPreserves
<1> QED
  BY <1>1, <1>2, InvFires, PTL DEF SchedulerSpec

-----------------------------------------------------------------------------
(* The model router.                                                       *)

CallTypes == [kind : {"complete", "json"}, pc : RouterPcs, candidate : Nat, key : Nat, tries : Nat]

RouterTyping ==
  /\ keys \in [1..Candidates -> 0..MaxKeys] /\ call \in CallTypes
  /\ {chunks, attempts, metered} \subseteq Seq(Attempt)

\* The call is on a key that it may use, or past the last candidate.
OnAKey ==
  /\ call.candidate \in 1..(Candidates + 1)
  /\ call.kind = "json" => call.key = 1
  /\ call.candidate > Candidates \/ keys[call.candidate] = 0 => call.key = 1
  /\ call.candidate <= Candidates /\ keys[call.candidate] > 0 =>
       call.key \in 1..keys[call.candidate]
  /\ call.pc = "exhausted" => call.candidate > Candidates
  /\ call.pc = "done" => call.candidate <= Candidates

\* The attempts before the current one.
Before ==
  {a \in Usable : \/ a[1] < call.candidate
                  \/ a[1] = call.candidate /\ keys[call.candidate] > 0 /\ a[2] < call.key}

\* Nothing has been passed on of an attempt that the call has left.
OfThisAttempt ==
  /\ \A k \in DOMAIN chunks : chunks[k] = Current
  /\ call.kind = "json" \/ call.candidate > Candidates \/ keys[call.candidate] = 0 => chunks = <<>>

AttemptsAreBefore ==
  /\ {attempts[k] : k \in DOMAIN attempts} = Before
  /\ IsFiniteSet(Before) /\ Cardinality(Before) = Len(attempts)

RouterInv ==
  /\ RouterTyping /\ OnAKey /\ OfThisAttempt
  /\ IF call.pc = "done" THEN metered = <<Current>> ELSE metered = <<>>
  /\ call.pc \in {"open", "exhausted"} => AttemptsAreBefore

LEMMA RouterStarts == RouterInit => RouterInv
<1> SUFFICES ASSUME RouterInit PROVE RouterInv
  OBVIOUS
<1>1. /\ call.kind \in {"complete", "json"} /\ call.pc = "open" /\ call.candidate = 1
      /\ call.key = 1 /\ call.tries = 0 /\ call \in CallTypes
  BY DEF RouterInit, CallTypes, RouterPcs
<1>2. RouterTyping
  <2>1. <<>> \in Seq(Attempt)
    OBVIOUS
  <2> QED
    BY <1>1, <2>1 DEF RouterInit, RouterTyping
<1>3. OnAKey
  BY <1>1, <1>2, RouterAssumption DEF OnAKey, RouterTyping
<1>4. Before = {}
  BY <1>1, <1>2, RouterAssumption DEF Before, Usable, Attempt, RouterTyping
<1>5. AttemptsAreBefore
  BY <1>4, FS_EmptySet DEF RouterInit, AttemptsAreBefore
<1>6. OfThisAttempt
  BY DEF RouterInit, OfThisAttempt
<1> QED
  BY <1>1, <1>2, <1>3, <1>5, <1>6 DEF RouterInit, RouterInv

\* The attempt that has failed is counted once, whether the call goes on with the next key
\* or with the next candidate.
LEMMA AttemptCounted ==
  ASSUME RouterInv, call.pc = "open", NEW a \in Attempt, a \notin Before,
         attempts' = Append(attempts, a), Before' = Before \cup {a}
  PROVE  AttemptsAreBefore'
<1>1. attempts \in Seq(Attempt) /\ AttemptsAreBefore
  BY DEF RouterInv, RouterTyping
<1>2. PICK n \in Nat : n = Len(attempts)
  BY <1>1
<1>3. /\ DOMAIN attempts = 1..n /\ DOMAIN attempts' = 1..(n + 1) /\ Len(attempts') = n + 1
      /\ attempts'[n + 1] = a /\ \A k \in 1..n : attempts'[k] = attempts[k]
  BY <1>1, <1>2
<1>4. {attempts'[k] : k \in DOMAIN attempts'} = {attempts[k] : k \in DOMAIN attempts} \cup {a}
  BY <1>3
<1>5. IsFiniteSet(Before') /\ Cardinality(Before') = n + 1
  BY <1>1, <1>2, FS_AddElement DEF AttemptsAreBefore
<1> QED
  BY <1>1, <1>3, <1>4, <1>5 DEF AttemptsAreBefore

LEMMA NextCandidateCounts ==
  ASSUME RouterInv, call.pc = "open", call.candidate <= Candidates, call' = NextCandidate,
         UNCHANGED keys, call.kind = "json" \/ keys[call.candidate] <= call.key,
         NEW a, a = <<call.candidate, IF keys[call.candidate] = 0 THEN 0 ELSE call.key>>
  PROVE  /\ call' \in CallTypes /\ OnAKey' /\ call'.pc = "open" /\ call'.kind = call.kind
         /\ call'.candidate = call.candidate + 1
         /\ a \in Attempt /\ a \notin Before /\ Before' = Before \cup {a}
<1>1. /\ call \in CallTypes /\ call.candidate \in 1..Candidates /\ call.key \in Nat \ {0}
      /\ keys \in [1..Candidates -> 0..MaxKeys] /\ Candidates \in Nat /\ MaxKeys \in Nat
  BY RouterAssumption DEF RouterInv, RouterTyping, OnAKey, CallTypes
<1>2. /\ call' \in CallTypes /\ call'.pc = "open" /\ call'.kind = call.kind
      /\ call'.candidate = call.candidate + 1 /\ call'.key = 1
  <2>1. PICK n \in Nat, one \in Nat, zero \in Nat :
          n = call.candidate + 1 /\ one = 1 /\ zero = 0
    BY <1>1
  <2>2. call' = [call EXCEPT !.candidate = n, !.key = one, !.tries = zero]
    BY <2>1 DEF NextCandidate
  <2>3. call \in CallTypes /\ call.pc = "open"
    BY <1>1
  <2>4. call' \in CallTypes
    BY <2>2, <2>3 DEF CallTypes
  <2>5. /\ call'.pc = "open" /\ call'.kind = call.kind /\ call'.candidate = n /\ call'.key = 1
    BY <2>1, <2>2, <2>3 DEF CallTypes
  <2> QED
    BY <2>1, <2>4, <2>5
<1>3. PICK c \in 1..Candidates : c = call.candidate
  BY <1>1
<1>4. OnAKey'
  <2>1. call'.candidate \in 1..(Candidates + 1)
    BY <1>1, <1>2
  <2>2. call'.candidate <= Candidates => keys[call'.candidate] \in 0..MaxKeys
    BY <1>1, <1>2
  <2> QED
    BY <1>1, <1>2, <2>1, <2>2 DEF OnAKey
<1>5. a \in Attempt /\ a[1] = c /\ a[2] = IF keys[c] = 0 THEN 0 ELSE call.key
  BY <1>1, <1>3 DEF Attempt, RouterInv, OnAKey
<1>6. a \notin Before
  BY <1>1, <1>3, <1>5 DEF Before
<1>7. a \in Usable
  BY <1>1, <1>3, <1>5 DEF Usable, RouterInv, OnAKey
<1>8. Usable' = Usable
  BY <1>2 DEF Usable
<1>9. ASSUME NEW b \in Usable
      PROVE  b \in Before' <=> b \in Before \/ b = a
  <2>1. b \in Attempt /\ b[1] \in 1..Candidates /\ b[2] \in 0..MaxKeys /\ b = <<b[1], b[2]>>
    BY DEF Usable, Attempt
  <2>2. b \in Before' <=> b[1] < c + 1
    <3>1. b[1] = c + 1 => ~(b[2] < 1 /\ keys[c + 1] > 0)
      BY <1>1, <1>3, <2>1 DEF Usable
    <3> QED
      BY <1>2, <1>3, <1>8, <2>1, <3>1 DEF Before
  <2>3. b \in Before <=> b[1] < c \/ (b[1] = c /\ keys[c] > 0 /\ b[2] < call.key)
    BY <1>3 DEF Before
  <2>4. b[1] = c => b = a \/ (keys[c] > 0 /\ b[2] < call.key)
    BY <1>1, <1>3, <2>1 DEF Usable, RouterInv, OnAKey
  <2>5. a[1] = c
    BY <1>5
  <2> QED
    BY <2>1, <2>2, <2>3, <2>4, <2>5
<1> QED
  BY <1>2, <1>4, <1>5, <1>6, <1>7, <1>8, <1>9 DEF Before

\* A step to the next key of the same candidate.
LEMMA NextKeyCounts ==
  ASSUME RouterInv, call.pc = "open", call.candidate <= Candidates, call.kind = "complete",
         call.key < keys[call.candidate], UNCHANGED keys,
         call' = [call EXCEPT !.key = @ + 1]
  PROVE  /\ call' \in CallTypes /\ OnAKey' /\ call'.pc = "open" /\ call'.kind = call.kind
         /\ call'.candidate = call.candidate
         /\ Current \in Attempt /\ Current \notin Before /\ Before' = Before \cup {Current}
<1>1. /\ call \in CallTypes /\ call.candidate \in 1..Candidates /\ call.key \in Nat \ {0}
      /\ keys \in [1..Candidates -> 0..MaxKeys] /\ Candidates \in Nat /\ MaxKeys \in Nat
  BY RouterAssumption DEF RouterInv, RouterTyping, OnAKey, CallTypes
<1>2. PICK n \in Nat : n = call.key
  BY <1>1
<1>3. PICK c \in 1..Candidates : c = call.candidate
  BY <1>1
<1>4. /\ call' \in CallTypes /\ call'.pc = "open" /\ call'.kind = call.kind
      /\ call'.candidate = c /\ call'.key = n + 1
  <2>1. PICK k \in Nat : k = n + 1
    BY <1>2
  <2>2. call' = [call EXCEPT !.key = k]
    BY <1>2, <2>1
  <2>3. /\ call' \in CallTypes /\ call'.pc = "open" /\ call'.kind = call.kind
        /\ call'.candidate = c /\ call'.key = k
    BY <1>1, <1>3, <2>2 DEF CallTypes
  <2> QED
    BY <2>1, <2>3
<1>5. keys[c] \in 0..MaxKeys /\ n < keys[c]
  BY <1>1, <1>2, <1>3
<1>6. OnAKey'
  BY <1>1, <1>3, <1>4, <1>5 DEF OnAKey
<1>7. Current \in Attempt /\ Current = <<c, n>>
  <2>1. Current = <<c, n>>
    BY <1>2, <1>3 DEF Current
  <2>2. n \in 0..MaxKeys
    BY <1>1, <1>2, <1>5
  <2> QED
    BY <2>1, <2>2 DEF Attempt
<1>8. Current \notin Before /\ Current \in Usable
  BY <1>1, <1>2, <1>3, <1>5, <1>7 DEF Before, Usable
<1>9. Usable' = Usable
  BY <1>4 DEF Usable
<1>10. ASSUME NEW b \in Usable
       PROVE  b \in Before' <=> b \in Before \/ b = Current
  <2>1. b \in Attempt /\ b[1] \in 1..Candidates /\ b[2] \in 0..MaxKeys /\ b = <<b[1], b[2]>>
    BY DEF Usable, Attempt
  <2>2. b \in Before' <=> b[1] < c \/ (b[1] = c /\ b[2] < n + 1)
    BY <1>4, <1>5, <1>9 DEF Before
  <2>3. b \in Before <=> b[1] < c \/ (b[1] = c /\ b[2] < n)
    BY <1>2, <1>3, <1>5 DEF Before
  <2> QED
    BY <1>2, <1>7, <2>1, <2>2, <2>3
<1> QED
  BY <1>3, <1>4, <1>6, <1>7, <1>8, <1>9, <1>10 DEF Before

\* A step that leaves the call on its attempt.
LEMMA StaysOnKey ==
  ASSUME RouterInv, UNCHANGED <<keys, attempts>>, call' \in CallTypes,
         call'.candidate = call.candidate, call'.key = call.key, call'.kind = call.kind,
         call'.pc \in {"exhausted", "done"} => OnAKey'
  PROVE  OnAKey' /\ Before' = Before /\ Current' = Current
         /\ (AttemptsAreBefore' <=> AttemptsAreBefore)
<1>1. Before' = Before /\ Current' = Current
  BY DEF Before, Usable, Current
<1>2. OnAKey'
  BY DEF RouterInv, OnAKey
<1> QED
  BY <1>1, <1>2 DEF AttemptsAreBefore

LEMMA MovesOn ==
  ASSUME RouterInv, call.pc = "open", NEW a \in Attempt, a \notin Before,
         Before' = Before \cup {a}, attempts' = Append(attempts, a), UNCHANGED <<keys, chunks, metered>>,
         call' \in CallTypes, OnAKey', call'.pc = "open", chunks = <<>>
  PROVE  RouterInv'
<1>1. AttemptsAreBefore'
  BY AttemptCounted
<1>2. attempts' \in Seq(Attempt)
  BY DEF RouterInv, RouterTyping
<1>3. OfThisAttempt'
  BY DEF OfThisAttempt
<1>4. metered' = <<>>
  BY DEF RouterInv
<1> QED
  BY <1>1, <1>2, <1>3, <1>4 DEF RouterInv, RouterTyping

LEMMA SkipCandidatePreserves ==
  ASSUME RouterInv, SkipCandidate
  PROVE  RouterInv'
<1>1. /\ call.pc = "open" /\ call.candidate <= Candidates /\ keys[call.candidate] = 0
      /\ call' = NextCandidate /\ attempts' = Append(attempts, <<call.candidate, 0>>)
      /\ UNCHANGED <<keys, chunks, metered>>
  BY DEF SkipCandidate, Opened
<1>2. call.key = 1
  BY <1>1 DEF RouterInv, OnAKey
<1> DEFINE a == <<call.candidate, 0>>
<1>3. a = <<call.candidate, IF keys[call.candidate] = 0 THEN 0 ELSE call.key>>
  BY <1>1
<1>4. keys[call.candidate] <= call.key
  BY <1>1, <1>2
<1> HIDE DEF a
<1>5. /\ call' \in CallTypes /\ OnAKey' /\ call'.pc = "open" /\ call'.kind = call.kind
      /\ call'.candidate = call.candidate + 1
      /\ a \in Attempt /\ a \notin Before /\ Before' = Before \cup {a}
  BY <1>1, <1>3, <1>4, NextCandidateCounts
<1>6. chunks = <<>>
  BY <1>1 DEF RouterInv, OfThisAttempt
<1> QED
  BY <1>1, <1>5, <1>6, MovesOn DEF a

\* The stream that breaks has passed nothing on, and the call goes to the next key.
LEMMA FailOverPreserves ==
  ASSUME RouterInv, Asking, FailOver, UNCHANGED <<keys, chunks, metered>>, chunks = <<>>,
         call.kind = "complete"
  PROVE  RouterInv'
<1>1. /\ call.pc = "open" /\ call.candidate <= Candidates /\ keys[call.candidate] > 0
      /\ call.kind = "complete"
  BY DEF Asking, Opened
<1>2. attempts' = Append(attempts, Current)
  BY DEF FailOver
<1>3. keys[call.candidate] \in Nat /\ call.key \in Nat
  BY <1>1 DEF RouterInv, RouterTyping, OnAKey, CallTypes
<1>4. CASE call.key < keys[call.candidate]
  <2>1. call' = [call EXCEPT !.key = @ + 1]
    BY <1>4 DEF FailOver, NextKey
  <2>2. /\ call' \in CallTypes /\ OnAKey' /\ call'.pc = "open" /\ call'.kind = call.kind
        /\ call'.candidate = call.candidate
        /\ Current \in Attempt /\ Current \notin Before /\ Before' = Before \cup {Current}
    BY <1>1, <1>4, <2>1, NextKeyCounts
  <2> QED
    BY <1>1, <1>2, <2>2, MovesOn
<1>5. CASE ~(call.key < keys[call.candidate])
  <2>1. call' = NextCandidate /\ keys[call.candidate] <= call.key
    BY <1>3, <1>5 DEF FailOver, NextKey
  <2>2. Current = <<call.candidate, IF keys[call.candidate] = 0 THEN 0 ELSE call.key>>
    BY <1>1, <1>3 DEF Current
  <2>3. /\ call' \in CallTypes /\ OnAKey' /\ call'.pc = "open" /\ call'.kind = call.kind
        /\ call'.candidate = call.candidate + 1
        /\ Current \in Attempt /\ Current \notin Before /\ Before' = Before \cup {Current}
    BY <1>1, <2>1, <2>2, NextCandidateCounts
  <2> QED
    BY <1>1, <1>2, <2>3, MovesOn
<1> QED
  BY <1>4, <1>5

\* What has been passed on is of this attempt: a stream that has yielded throws.
LEMMA StreamBreakPreserves ==
  ASSUME RouterInv, StreamBreak
  PROVE  RouterInv'
<1>1. Asking /\ call.kind = "complete" /\ UNCHANGED <<keys, chunks, metered>>
  BY DEF StreamBreak
<1>2. CASE ~Yielded /\ FailOver
  <2>1. chunks = <<>>
    <3>1. chunks \in Seq(Attempt) /\ DOMAIN chunks = {}
      BY <1>2 DEF RouterInv, RouterTyping, OfThisAttempt, Yielded
    <3> QED
      BY <3>1
  <2> QED
    BY <1>1, <1>2, <2>1, FailOverPreserves
<1>3. CASE UNCHANGED attempts /\ call' = [call EXCEPT !.pc = "thrown"]
  <2>1. call \in CallTypes /\ "thrown" \in RouterPcs
    BY DEF RouterInv, RouterTyping, RouterPcs
  <2>2. /\ call' \in CallTypes /\ call'.pc = "thrown" /\ call'.kind = call.kind
        /\ call'.candidate = call.candidate /\ call'.key = call.key
    BY <1>3, <2>1 DEF CallTypes
  <2>3. OnAKey' /\ Before' = Before /\ Current' = Current
    BY <1>1, <1>3, <2>2, StaysOnKey
  <2>4. OfThisAttempt'
    BY <1>1, <2>2, <2>3 DEF RouterInv, OfThisAttempt
  <2>5. metered' = <<>>
    BY <1>1 DEF Asking, Opened, RouterInv
  <2> QED
    BY <1>1, <1>3, <2>2, <2>3, <2>4, <2>5 DEF RouterInv, RouterTyping
<1> QED
  BY <1>2, <1>3 DEF StreamBreak

LEMMA ChunkPreserves ==
  ASSUME RouterInv, StreamChunk
  PROVE  RouterInv'
<1>1. /\ Asking /\ call.kind = "complete" /\ chunks' = Append(chunks, Current)
      /\ UNCHANGED <<keys, call, attempts, metered>>
  BY DEF StreamChunk
<1>2. /\ call.pc = "open" /\ call.candidate \in 1..Candidates /\ keys[call.candidate] > 0
      /\ call.key \in 1..keys[call.candidate] /\ keys[call.candidate] \in 0..MaxKeys
  BY <1>1 DEF Asking, Opened, RouterInv, RouterTyping, OnAKey
<1>3. Current \in Attempt
  <2>1. call.key \in 0..MaxKeys
    BY <1>2, RouterAssumption
  <2> QED
    BY <1>2, <2>1 DEF Current, Attempt
<1>4. chunks \in Seq(Attempt)
  BY DEF RouterInv, RouterTyping
<1>5. chunks' \in Seq(Attempt) /\ \A k \in DOMAIN chunks' : chunks'[k] = Current
  BY <1>1, <1>3, <1>4 DEF RouterInv, OfThisAttempt
<1>6. Current' = Current /\ Before' = Before /\ (AttemptsAreBefore' <=> AttemptsAreBefore)
  BY <1>1 DEF Current, Before, Usable, AttemptsAreBefore
<1>7. OfThisAttempt'
  <2>1. ~(call'.kind = "json" \/ call'.candidate > Candidates \/ keys'[call'.candidate] = 0)
    BY <1>1, <1>2, RouterAssumption
  <2> QED
    BY <1>5, <1>6, <2>1 DEF OfThisAttempt
<1>8. OnAKey' /\ RouterTyping'
  BY <1>1, <1>5 DEF RouterInv, OnAKey, RouterTyping
<1> QED
  BY <1>1, <1>2, <1>6, <1>7, <1>8 DEF RouterInv

\* The answer is metered, for the attempt it came from.
LEMMA EndPreserves ==
  ASSUME RouterInv, StreamEnd \/ JsonValid
  PROVE  RouterInv'
<1>1. /\ Asking /\ metered' = Append(metered, Current) /\ call' = [call EXCEPT !.pc = "done"]
      /\ UNCHANGED <<keys, chunks, attempts>>
  BY DEF StreamEnd, JsonValid
<1>2. /\ call.pc = "open" /\ call.candidate \in 1..Candidates /\ keys[call.candidate] > 0
      /\ call.key \in 1..keys[call.candidate] /\ keys[call.candidate] \in 0..MaxKeys
  BY <1>1 DEF Asking, Opened, RouterInv, RouterTyping, OnAKey
<1>3. Current \in Attempt
  <2>1. call.key \in 0..MaxKeys
    BY <1>2, RouterAssumption
  <2> QED
    BY <1>2, <2>1 DEF Current, Attempt
<1>4. metered = <<>>
  BY <1>2 DEF RouterInv
<1>5. metered' = <<Current>> /\ metered' \in Seq(Attempt)
  BY <1>1, <1>3, <1>4
<1>6. call \in CallTypes /\ "done" \in RouterPcs
  BY DEF RouterInv, RouterTyping, RouterPcs
<1>7. /\ call' \in CallTypes /\ call'.pc = "done" /\ call'.kind = call.kind
      /\ call'.candidate = call.candidate /\ call'.key = call.key
  BY <1>1, <1>6 DEF CallTypes
<1>8. OnAKey'
  BY <1>1, <1>2, <1>7, RouterAssumption DEF RouterInv, OnAKey
<1>9. Current' = Current
  BY <1>7 DEF Current
<1>10. OfThisAttempt'
  BY <1>1, <1>7, <1>9 DEF RouterInv, OfThisAttempt
<1> QED
  BY <1>1, <1>5, <1>7, <1>8, <1>9, <1>10 DEF RouterInv, RouterTyping

LEMMA JsonInvalidPreserves ==
  ASSUME RouterInv, JsonInvalid
  PROVE  RouterInv'
<1>1. /\ Asking /\ call.kind = "json" /\ UNCHANGED <<keys, chunks, metered>>
      /\ call.pc = "open" /\ call.candidate <= Candidates /\ keys[call.candidate] > 0
  BY DEF JsonInvalid, Asking, Opened
<1>2. /\ call \in CallTypes /\ call.key = 1 /\ keys[call.candidate] \in Nat /\ chunks = <<>>
      /\ metered = <<>>
  BY <1>1 DEF RouterInv, RouterTyping, OnAKey, OfThisAttempt, CallTypes
<1>3. CASE call.tries < JsonMaxRetries /\ call' = [call EXCEPT !.tries = @ + 1] /\ UNCHANGED attempts
  <2>1. PICK n \in Nat : n = call.tries + 1
    BY <1>2 DEF CallTypes
  <2>2. call' = [call EXCEPT !.tries = n]
    BY <1>3, <2>1
  <2>3. /\ call' \in CallTypes /\ call'.pc = "open" /\ call'.kind = call.kind
        /\ call'.candidate = call.candidate /\ call'.key = call.key
    BY <1>1, <1>2, <2>2 DEF CallTypes
  <2>4. OnAKey' /\ Before' = Before /\ Current' = Current
        /\ (AttemptsAreBefore' <=> AttemptsAreBefore)
    BY <1>1, <1>3, <2>3, StaysOnKey
  <2>5. OfThisAttempt'
    BY <1>1, <2>3, <2>4 DEF RouterInv, OfThisAttempt
  <2> QED
    BY <1>1, <1>2, <1>3, <2>3, <2>4, <2>5 DEF RouterInv, RouterTyping
<1>4. CASE attempts' = Append(attempts, Current) /\ call' = NextCandidate
  <2>1. Current = <<call.candidate, IF keys[call.candidate] = 0 THEN 0 ELSE call.key>>
    BY <1>1, <1>2 DEF Current
  <2>2. /\ call' \in CallTypes /\ OnAKey' /\ call'.pc = "open" /\ call'.kind = call.kind
        /\ call'.candidate = call.candidate + 1
        /\ Current \in Attempt /\ Current \notin Before /\ Before' = Before \cup {Current}
    BY <1>1, <1>4, <2>1, NextCandidateCounts
  <2> QED
    BY <1>1, <1>2, <1>4, <2>2, MovesOn
<1> QED
  BY <1>3, <1>4 DEF JsonInvalid

LEMMA ExhaustPreserves ==
  ASSUME RouterInv, Exhaust
  PROVE  RouterInv'
<1>1. /\ call.pc = "open" /\ call.candidate > Candidates /\ call' = [call EXCEPT !.pc = "exhausted"]
      /\ UNCHANGED <<keys, chunks, attempts, metered>>
  BY DEF Exhaust
<1>2. call \in CallTypes /\ "exhausted" \in RouterPcs
  BY DEF RouterInv, RouterTyping, RouterPcs
<1>3. /\ call' \in CallTypes /\ call'.pc = "exhausted" /\ call'.kind = call.kind
      /\ call'.candidate = call.candidate /\ call'.key = call.key
  BY <1>1, <1>2 DEF CallTypes
<1>4. OnAKey'
  BY <1>1, <1>3 DEF RouterInv, OnAKey
<1>5. Before' = Before /\ Current' = Current /\ (AttemptsAreBefore' <=> AttemptsAreBefore)
  BY <1>1, <1>3, <1>4, StaysOnKey
<1>6. OfThisAttempt'
  BY <1>1, <1>3, <1>5 DEF RouterInv, OfThisAttempt
<1> QED
  BY <1>1, <1>3, <1>4, <1>5, <1>6 DEF RouterInv, RouterTyping

LEMMA RouterNextPreserves ==
  ASSUME RouterInv, [RouterNext]_routerVars
  PROVE  RouterInv'
<1>1. CASE UNCHANGED routerVars
  BY <1>1 DEF RouterInv, RouterTyping, OnAKey, OfThisAttempt, AttemptsAreBefore, Before, Usable,
              Current, routerVars
<1>2. CASE RouterNext
  BY <1>2, SkipCandidatePreserves, ChunkPreserves, EndPreserves, StreamBreakPreserves,
     JsonInvalidPreserves, ExhaustPreserves DEF RouterNext
<1> QED
  BY <1>1, <1>2

LEMMA InvAnswers == RouterInv => AnsweredByOne
<1> SUFFICES ASSUME RouterInv PROVE AnsweredByOne
  OBVIOUS
<1>1. \A j, k \in DOMAIN chunks : chunks[j] = chunks[k]
  BY DEF RouterInv, OfThisAttempt
<1>2. call.pc = "done" => metered = <<Current>> /\ \A k \in DOMAIN chunks : chunks[k] = Current
  BY DEF RouterInv, OfThisAttempt
<1>3. call.pc # "done" => metered = <<>>
  BY DEF RouterInv
<1>4. ASSUME call.pc = "exhausted"
      PROVE  /\ chunks = <<>> /\ {attempts[k] : k \in DOMAIN attempts} = Usable
             /\ Len(attempts) = Cardinality(Usable)
  <2>1. call.candidate > Candidates /\ call.candidate \in 1..(Candidates + 1)
    BY <1>4 DEF RouterInv, OnAKey
  <2>2. Before = Usable
    BY <2>1, RouterAssumption DEF Before, Usable, Attempt
  <2> QED
    BY <1>4, <2>1, <2>2 DEF RouterInv, OfThisAttempt, AttemptsAreBefore
<1> QED
  BY <1>1, <1>2, <1>3, <1>4 DEF AnsweredByOne

\* For every route, with any number of keys, chunks and retries: a caller never gets the text
\* of two attempts, an answer is metered once for the attempt it came from, and a call that
\* gives up has passed nothing on and tried each key that it may use exactly once.
THEOREM OneAttemptAnswers == RouterSpec => []AnsweredByOne
<1>1. RouterInit => RouterInv
  BY RouterStarts
<1>2. RouterInv /\ [RouterNext]_routerVars => RouterInv'
  BY RouterNextPreserves
<1> QED
  BY <1>1, <1>2, InvAnswers, PTL DEF RouterSpec

-----------------------------------------------------------------------------
(* The turns of a chat.  Between the read and the write of a turn others   *)
(* may be saved; what a turn overwrites it had not read.                   *)

Roles == {"system", "summary", "user", "assistant"}
Transcripts == Seq([role : Roles, of : SUBSET Turns])

\* What opens a transcript: the system prompt and perhaps a summary.
OpensWith(m, from) ==
  /\ m \in Transcripts /\ Len(m) >= from /\ m[1] = System
  /\ \/ from = 1 /\ (Len(m) > 1 => m[2].role # "summary")
     \/ from = 2 /\ m[2].role = "summary"

\* The transcript of a turn that has been asked and not answered.
Pending(m, t) ==
  \E from \in {1, 2}, n \in Nat :
    /\ OpensWith(m, from) /\ Len(m) = from + 2 * n + 1
    /\ WholeTurns(m, from, n)
    /\ m[Len(m)] = Message("user", {t})
    /\ \A i \in 1..(Len(m) - 1) : t \notin m[i].of
    /\ from = 2 => n + 1 >= KeepRecentTurns

Whole(m) ==
  \E from \in {1, 2}, n \in Nat :
    /\ OpensWith(m, from) /\ Len(m) = from + 2 * n
    /\ WholeTurns(m, from, n)
    /\ from = 2 => n >= KeepRecentTurns

LEMMA WholeIsWellFormed ==
  ASSUME Whole(thread)
  PROVE  WellFormed
<1>1. PICK from \in {1, 2}, n \in Nat :
         /\ OpensWith(thread, from) /\ Len(thread) = from + 2 * n
         /\ WholeTurns(thread, from, n)
         /\ from = 2 => n >= KeepRecentTurns
  BY DEF Whole
<1>2. Opening(thread) = from
  BY <1>1 DEF Opening, OpensWith
<1>3. n \in 0..Len(thread)
  BY <1>1
<1> QED
  BY <1>1, <1>2, <1>3 DEF WellFormed, OpensWith

\* How many numbers there are of one parity from one to another.
Steps(o, k, l) == {o + 2 * i : i \in k..l}

LEMMA CountSteps ==
  ASSUME NEW o \in Nat, NEW k \in Nat, NEW l \in Nat, k <= l + 1
  PROVE  Cardinality(Steps(o, k, l)) = l + 1 - k
<1> DEFINE S == {o + 2 * i : i \in k..l}
<1> DEFINE f == [i \in k..l |-> o + 2 * i]
<1>1. IsFiniteSet(k..l) /\ Cardinality(k..l) = l + 1 - k
  <2>1. k \in Int /\ l \in Int
    OBVIOUS
  <2>2. IsFiniteSet(k..l) /\ Cardinality(k..l) = IF k <= l THEN l - k + 1 ELSE 0
    BY <2>1, FS_Interval
  <2> QED
    BY <2>2
<1>2. f \in Surjection(k..l, S)
  BY DEF Surjection
<1>3. f \in Injection(k..l, S)
  <2>1. f \in [k..l -> S]
    OBVIOUS
  <2>2. \A a, b \in k..l : o + 2 * a = o + 2 * b => a = b
    OBVIOUS
  <2>3. \A a, b \in DOMAIN f : f[a] = f[b] => a = b
    BY <2>2
  <2> QED
    BY <2>1, <2>3, Zenon DEF Injection, IsInjective
<1>4. Cardinality(S) = Cardinality(k..l)
  BY <1>1, <1>2, <1>3, FS_Surjection
<1> QED
  BY <1>1, <1>4 DEF Steps

LEMMA CountAllSteps ==
  ASSUME NEW o \in Nat, NEW l \in Nat
  PROVE  Cardinality(Steps(o, 0, l)) = l + 1
<1>1. 0 \in Nat /\ 0 <= l + 1 /\ l + 1 - 0 = l + 1
  OBVIOUS
<1>2. Cardinality(Steps(o, 0, l)) = l + 1 - 0
  BY <1>1, CountSteps
<1> QED
  BY <1>1, <1>2

Questions(s) == {i \in DOMAIN s : s[i].role = "user"}

\* The questions of a pending transcript stand at every second place.
LEMMA QuestionsAt ==
  ASSUME NEW m, NEW t \in Turns, NEW from \in {1, 2}, NEW n \in Nat,
         OpensWith(m, from), Len(m) = from + 2 * n + 1, WholeTurns(m, from, n),
         m[Len(m)] = Message("user", {t})
  PROVE  /\ Tail(m) \in Transcripts /\ Len(Tail(m)) = from + 2 * n
         /\ \A i \in 1..(from + 2 * n) : Tail(m)[i] = m[i + 1]
         /\ Questions(Tail(m)) = Steps(from, 0, n)
<1>1. m \in Transcripts /\ m # <<>> /\ Len(m) \in Nat
  BY DEF OpensWith
<1>2. /\ Tail(m) \in Transcripts /\ Len(Tail(m)) = from + 2 * n
      /\ \A i \in 1..(from + 2 * n) : Tail(m)[i] = m[i + 1]
  BY <1>1 DEF Transcripts
<1>3. DOMAIN Tail(m) = 1..(from + 2 * n)
  BY <1>2 DEF Transcripts
<1>4. \A k \in 1..n : m[from + 2 * k - 1].role = "user" /\ m[from + 2 * k].role = "assistant"
  <2>1. \A k \in 1..n : \E x : /\ m[from + 2 * k - 1] = Message("user", {x})
                               /\ m[from + 2 * k] = Message("assistant", {x})
    BY DEF WholeTurns
  <2>2. \A x : Message("user", {x}).role = "user" /\ Message("assistant", {x}).role = "assistant"
    BY DEF Message
  <2> QED
    BY <2>1, <2>2
<1>5. ASSUME NEW i \in 0..n
      PROVE  from + 2 * i \in 1..(from + 2 * n) /\ m[from + 2 * i + 1].role = "user"
  <2>1. CASE i = n
    BY <2>1 DEF Message
  <2>2. CASE i # n
    <3>1. i + 1 \in 1..n /\ from + 2 * (i + 1) - 1 = from + 2 * i + 1
      BY <2>2
    <3>2. m[from + 2 * (i + 1) - 1].role = "user"
      BY <1>4, <3>1
    <3>3. 2 * (i + 1) = 2 * i + 2
      OBVIOUS
    <3> QED
      BY <3>1, <3>2
  <2> QED
    BY <2>1, <2>2
<1>6. ASSUME NEW j \in 1..(from + 2 * n), m[j + 1].role = "user"
      PROVE  \E i \in 0..n : j = from + 2 * i
  <2>1. j >= from
    <3>1. CASE from = 2 /\ j = 1
      BY <1>6, <3>1 DEF OpensWith
    <3> QED
      BY <3>1
  <2>2. PICK i \in Nat : j - from = 2 * i \/ j - from = 2 * i + 1
    <3> DEFINE i == (j - from) \div 2
    <3>1. i \in Nat /\ (j - from = 2 * i \/ j - from = 2 * i + 1)
      BY <2>1
    <3> QED
      BY <3>1
  <2>3. CASE j - from = 2 * i + 1
    <3>1. i + 1 \in 1..n /\ j + 1 = from + 2 * (i + 1)
      BY <2>3
    <3>2. m[j + 1].role = "assistant"
      BY <1>4, <3>1
    <3> QED
      BY <1>6, <3>2
  <2>4. CASE j - from = 2 * i
    <3>1. i \in 0..n /\ j = from + 2 * i
      BY <2>4
    <3> QED
      BY <3>1
  <2> QED
    BY <2>2, <2>3, <2>4
<1>7. \A j \in 1..(from + 2 * n) : Tail(m)[j].role = "user" <=> m[j + 1].role = "user"
  BY <1>2
<1>8. Questions(Tail(m)) = Steps(from, 0, n)
  <2>1. \A j : j \in DOMAIN Tail(m) /\ Tail(m)[j].role = "user" => \E i \in 0..n : j = from + 2 * i
    BY <1>3, <1>6, <1>7
  <2>2. \A i \in 0..n : from + 2 * i \in DOMAIN Tail(m) /\ Tail(m)[from + 2 * i].role = "user"
    BY <1>3, <1>5, <1>7
  <2> QED
    BY <2>1, <2>2 DEF Steps, Questions
<1> QED
  BY <1>2, <1>8

\* What is kept verbatim begins at the question of the last turn but KeepRecentTurns - 1.
LEMMA KeepsRecent ==
  ASSUME NEW rest, NEW from \in {1, 2}, NEW n \in Nat,
         Questions(rest) = Steps(from, 0, n)
  PROVE  KeepFrom(rest) = IF n + 1 < KeepRecentTurns THEN 1
                          ELSE from + 2 * (n + 1 - KeepRecentTurns)
<1> USE ChatAssumption
<1> DEFINE users == Questions(rest)
<1> DEFINE later(i) == Cardinality({j \in users : j >= i})
<1>1. users = Steps(from, 0, n) /\ Cardinality(users) = n + 1
  <2>1. from \in Nat
    OBVIOUS
  <2>2. Cardinality(Steps(from, 0, n)) = n + 1
    BY <2>1, CountAllSteps
  <2> QED
    BY <2>2
<1>2. ASSUME NEW k \in 0..n PROVE later(from + 2 * k) = n + 1 - k
  <2>1. {j \in users : j >= from + 2 * k} = Steps(from, k, n)
    BY <1>1 DEF Steps
  <2>2. Cardinality(Steps(from, k, n)) = n + 1 - k
    BY CountSteps
  <2> QED
    BY <2>1, <2>2
<1> HIDE DEF later
<1>3. KeepFrom(rest) = IF Cardinality(users) < KeepRecentTurns THEN 1
                       ELSE CHOOSE i \in users : later(i) = KeepRecentTurns
  BY DEF KeepFrom, later, Questions
<1> HIDE DEF users
<1>4. ASSUME n + 1 >= KeepRecentTurns
      PROVE  (CHOOSE i \in users : later(i) = KeepRecentTurns)
               = from + 2 * (n + 1 - KeepRecentTurns)
  <2> DEFINE k == n + 1 - KeepRecentTurns
  <2>1. k \in 0..n /\ from + 2 * k \in users /\ later(from + 2 * k) = KeepRecentTurns
    <3>1. k \in 0..n /\ n + 1 - k = KeepRecentTurns
      BY <1>4
    <3>2. later(from + 2 * k) = KeepRecentTurns
      BY <1>2, <3>1
    <3>3. from + 2 * k \in users
      BY <1>1, <3>1 DEF Steps
    <3> QED
      BY <3>1, <3>2, <3>3
  <2>2. \A i \in users : later(i) = KeepRecentTurns => i = from + 2 * k
    <3>1. ASSUME NEW i \in users, later(i) = KeepRecentTurns PROVE i = from + 2 * k
      <4>1. PICK l \in 0..n : i = from + 2 * l
        BY <1>1 DEF Steps
      <4>2. n + 1 - l = KeepRecentTurns
        BY <1>2, <3>1, <4>1
      <4> QED
        BY <4>1, <4>2
    <3> QED
      BY <3>1
  <2> QED
    BY <2>1, <2>2
<1>5. CASE n + 1 < KeepRecentTurns
  BY <1>1, <1>3, <1>5
<1>6. CASE ~(n + 1 < KeepRecentTurns)
  <2>1. n + 1 >= KeepRecentTurns /\ ~(Cardinality(users) < KeepRecentTurns)
    BY <1>1, <1>6
  <2> QED
    BY <1>3, <1>4, <1>6, <2>1
<1> QED
  BY <1>5, <1>6

\* Compaction keeps the last turns verbatim and forgets nobody.
LEMMA CompactionKeeps ==
  ASSUME NEW t \in Turns, NEW m, Pending(m, t)
  PROVE  Pending(Compacted(m), t) /\ Remembered(Compacted(m)) = Remembered(m)
<1> USE ChatAssumption
<1>1. PICK from \in {1, 2}, n \in Nat :
        /\ OpensWith(m, from) /\ Len(m) = from + 2 * n + 1
        /\ WholeTurns(m, from, n)
        /\ m[Len(m)] = Message("user", {t})
        /\ \A i \in 1..(Len(m) - 1) : t \notin m[i].of
        /\ from = 2 => n + 1 >= KeepRecentTurns
  BY DEF Pending
<1> DEFINE rest == Tail(m)
<1> DEFINE f == KeepFrom(rest)
<1> DEFINE old == SubSeq(rest, 1, f - 1)
<1> DEFINE kept == SubSeq(rest, f, Len(rest))
<1> DEFINE summary == Message("summary", UNION {old[i].of : i \in DOMAIN old})
<1>2. Compacted(m) = IF old = <<>> THEN m ELSE <<System, summary>> \o kept
  BY DEF Compacted
<1>3. CASE old = <<>>
  BY <1>2, <1>3
<1>4. CASE old # <<>>
  <2>1. /\ rest \in Transcripts /\ Len(rest) = from + 2 * n
        /\ \A i \in 1..(from + 2 * n) : rest[i] = m[i + 1]
        /\ f = IF n + 1 < KeepRecentTurns THEN 1 ELSE from + 2 * (n + 1 - KeepRecentTurns)
    <3>1. /\ rest \in Transcripts /\ Len(rest) = from + 2 * n
          /\ \A i \in 1..(from + 2 * n) : rest[i] = m[i + 1]
          /\ Questions(rest) = Steps(from, 0, n)
      BY <1>1, QuestionsAt
    <3> HIDE DEF rest
    <3>2. f = IF n + 1 < KeepRecentTurns THEN 1 ELSE from + 2 * (n + 1 - KeepRecentTurns)
      BY <3>1, KeepsRecent
    <3> QED
      BY <3>1, <3>2
  <2> DEFINE Msg == [role : Roles, of : SUBSET Turns]
  <2>0. rest \in Seq(Msg)
    BY <2>1 DEF Transcripts
  <2> DEFINE d == n + 1 - KeepRecentTurns
  <2> DEFINE q == KeepRecentTurns - 1
  <2> HIDE DEF rest, f
  <2>2. d \in Nat /\ q \in Nat /\ n = d + q /\ f = from + 2 * d
    <3>1. CASE n + 1 < KeepRecentTurns
      <4>1. f = 1
        BY <2>1, <3>1
      <4>2. old = <<>>
        BY <2>1, <4>1 DEF Transcripts
      <4> QED
        BY <1>4, <4>2
    <3>2. CASE ~(n + 1 < KeepRecentTurns)
      BY <2>1, <3>2
    <3> QED
      BY <3>1, <3>2
  <2>3. /\ f \in Nat /\ f >= 1 /\ f - 1 <= Len(rest) /\ f <= Len(rest) /\ Len(rest) \in Nat
        /\ Len(rest) = f + 2 * q
    BY <2>1, <2>2
  <2> HIDE DEF Msg
  <2>4. /\ old \in Seq(Msg) /\ Len(old) = f - 1
        /\ \A i \in 1..(f - 1) : old[i] = m[i + 1]
    <3>1. old \in Seq(Msg) /\ Len(old) = f - 1
      BY <2>0, <2>3, SubSeqProperties
    <3>2. \A i \in 1..(f - 1) : old[i] = rest[i]
      BY <2>0, <2>3, SubSeqProperties
    <3>3. \A i \in 1..(f - 1) : i \in 1..(from + 2 * n)
      BY <2>1, <2>3
    <3>4. \A i \in 1..(f - 1) : rest[i] = m[i + 1]
      BY ONLY <2>1, <3>3, Zenon
    <3>5. \A i \in 1..(f - 1) : old[i] = m[i + 1]
      BY ONLY <3>2, <3>4, Zenon
    <3> QED
      BY ONLY <3>1, <3>5, Zenon
  <2>5. /\ kept \in Seq(Msg) /\ Len(kept) = 2 * q + 1
        /\ \A i \in 1..(2 * q + 1) : kept[i] = m[f + i]
    <3>1. kept \in Seq(Msg) /\ Len(kept) = 2 * q + 1
      <4>1. /\ f \in 1..(Len(rest) + 1) /\ Len(rest) \in f - 1..Len(rest)
            /\ f <= Len(rest) /\ Len(rest) - f + 1 = 2 * q + 1
        BY <2>2, <2>3
      <4>2. kept \in Seq(Msg) /\ Len(kept) = IF f <= Len(rest) THEN Len(rest) - f + 1 ELSE 0
        BY ONLY <2>0, <4>1, SubSeqProperties
      <4> QED
        BY ONLY <4>1, <4>2
    <3>2. \A i \in 1..(2 * q + 1) : kept[i] = rest[f + i - 1]
      BY <2>0, <2>3, SubSeqProperties
    <3>3. \A i \in 1..(2 * q + 1) : f + i - 1 \in 1..(from + 2 * n) /\ f + i - 1 + 1 = f + i
      BY <2>1, <2>3
    <3>4. \A i \in 1..(2 * q + 1) : rest[f + i - 1] = m[f + i - 1 + 1]
      BY ONLY <2>1, <3>3, Zenon
    <3>5. \A i \in 1..(2 * q + 1) : kept[i] = m[f + i]
      BY ONLY <3>2, <3>3, <3>4
    <3> QED
      BY ONLY <3>1, <3>5, Zenon
  <2> HIDE DEF old, kept
  <2>6. System \in Msg /\ summary \in Msg /\ summary.role = "summary" /\ System.of = {}
        /\ summary.of = UNION {old[i].of : i \in 1..(f - 1)}
    <3>1. DOMAIN old = 1..(f - 1) /\ \A i \in 1..(f - 1) : old[i] \in Msg
      BY <2>3, <2>4
    <3> QED
      BY <3>1 DEF System, Message, Roles, Msg
  <2>7. \A i \in 2..f : m[i].of \subseteq summary.of
    <3>1. \A i \in 2..f : i - 1 \in 1..(f - 1) /\ i - 1 + 1 = i
      BY <2>3
    <3>2. ASSUME NEW i \in 2..f PROVE m[i].of \subseteq summary.of
      <4>1. old[i - 1] = m[i] /\ i - 1 \in 1..(f - 1)
        BY <2>4, <3>1
      <4> QED
        BY <2>6, <4>1
    <3> QED
      BY <3>2
  <2>8. \A x \in summary.of : \E i \in 2..f : x \in m[i].of
    <3>1. \A i \in 1..(f - 1) : i + 1 \in 2..f
      BY <2>3
    <3>2. ASSUME NEW x \in summary.of PROVE \E i \in 2..f : x \in m[i].of
      <4>1. PICK j \in 1..(f - 1) : x \in old[j].of
        BY <2>6, <3>2
      <4>2. x \in m[j + 1].of /\ j + 1 \in 2..f
        BY <2>4, <3>1, <4>1
      <4> QED
        BY <4>2
    <3> QED
      BY <3>2
  <2> HIDE DEF summary
  <2> DEFINE new == <<System, summary>> \o kept
  <2>9. /\ new \in Seq(Msg) /\ Len(new) = 2 + 2 * q + 1
        /\ new[1] = System /\ new[2] = summary
        /\ \A i \in 1..(2 * q + 1) : new[2 + i] = m[f + i]
    <3>1. <<System, summary>> \in Seq(Msg) /\ Len(<<System, summary>>) = 2
      BY <2>6
    <3>2. <<System, summary>>[1] = System /\ <<System, summary>>[2] = summary
      OBVIOUS
    <3> HIDE DEF summary
    <3> DEFINE two == <<System, summary>>
    <3> HIDE DEF two
    <3>3. /\ two \in Seq(Msg) /\ Len(two) = 2 /\ two[1] = System /\ two[2] = summary
      BY <3>1, <3>2 DEF two
    <3>4. new = two \o kept
      BY DEF two
    <3>5. \A i \in 1..(2 + (2 * q + 1)) : new[i] = IF i <= 2 THEN two[i] ELSE kept[i - 2]
      BY <2>5, <3>3, <3>4, ConcatProperties
    <3>6. /\ new \in Seq(Msg) /\ Len(new) = 2 + (2 * q + 1)
          /\ \A i \in 1..2 : new[i] = two[i]
          /\ \A i \in 1..(2 * q + 1) : new[2 + i] = kept[i]
      <4>1. new \in Seq(Msg) /\ Len(new) = Len(two) + Len(kept)
        BY <2>5, <3>3, <3>4, ConcatProperties
      <4>2. \A i \in 1..(2 * q + 1) : /\ 2 + i \in 1..(2 + (2 * q + 1)) /\ ~(2 + i <= 2)
                                     /\ (2 + i) - 2 = i
        BY <2>2
      <4>3. \A i \in 1..(2 * q + 1) : new[2 + i] = kept[(2 + i) - 2]
        BY <3>5, <4>2
      <4>4. \A i \in 1..2 : i \in 1..(2 + (2 * q + 1)) /\ i <= 2
        BY <2>2
      <4> QED
        BY <2>5, <3>3, <3>5, <4>1, <4>2, <4>3, <4>4
    <3> QED
      BY <2>2, <2>5, <3>3, <3>6
  <2> HIDE DEF new
  <2>10. Compacted(m) = new
    BY <1>2, <1>4 DEF new
  <2>11. ASSUME NEW i \in 1..Len(new), NEW x \in new[i].of
         PROVE  \E j \in 1..(f + i - 2) : x \in m[j].of
    <3>1. CASE i = 1
      BY <2>6, <2>9, <2>11, <3>1
    <3>2. CASE i = 2
      <4>1. PICK j \in 2..f : x \in m[j].of
        BY <2>8, <2>9, <2>11, <3>2
      <4>2. j \in 1..(f + i - 2)
        BY <2>3, <3>2
      <4> QED
        BY <4>1, <4>2
    <3>3. CASE i > 2
      <4>1. i - 2 \in 1..(2 * q + 1) /\ 2 + (i - 2) = i /\ f + (i - 2) = f + i - 2
        BY <2>2, <2>3, <2>9, <3>3
      <4>2. new[i] = m[f + i - 2] /\ f + i - 2 \in 1..(f + i - 2)
        BY <2>3, <2>9, <4>1
      <4> QED
        BY <2>11, <4>2
    <3> QED
      BY <2>9, <3>1, <3>2, <3>3
  <2>12. OpensWith(new, 2)
    BY <2>2, <2>6, <2>9 DEF OpensWith, Transcripts, Msg
  <2>13. WholeTurns(new, 2, q)
    <3>1. ASSUME NEW k \in 1..q
          PROVE  \E x \in Turns : /\ new[2 + 2 * k - 1] = Message("user", {x})
                                  /\ new[2 + 2 * k] = Message("assistant", {x})
                                  /\ \A i \in 1..(2 + 2 * k - 2) : x \notin new[i].of
      <4> DEFINE l == d + k
      <4>1. l \in 1..n
        BY <2>2
      <4>2. PICK x \in Turns : /\ m[from + 2 * l - 1] = Message("user", {x})
                               /\ m[from + 2 * l] = Message("assistant", {x})
                               /\ \A i \in 1..(from + 2 * l - 2) : x \notin m[i].of
        BY <1>1, <4>1 DEF WholeTurns
      <4>3. /\ 2 * k - 1 \in 1..(2 * q + 1) /\ 2 * k \in 1..(2 * q + 1)
            /\ f + (2 * k - 1) = from + 2 * l - 1 /\ f + 2 * k = from + 2 * l
            /\ 2 + (2 * k - 1) = 2 + 2 * k - 1
        BY <2>2
      <4>4. new[2 + 2 * k - 1] = Message("user", {x}) /\ new[2 + 2 * k] = Message("assistant", {x})
        BY <2>9, <4>2, <4>3
      <4>5. ASSUME NEW i \in 1..(2 + 2 * k - 2), x \in new[i].of PROVE FALSE
        <5>1. i \in 1..Len(new)
          <6>1. k <= q /\ i <= 2 * k /\ i >= 1 /\ i \in Int
            BY <2>2
          <6> QED
            BY <2>2, <2>9, <6>1
        <5>2. PICK j \in 1..(f + i - 2) : x \in m[j].of
          BY <2>11, <4>5, <5>1
        <5>3. j \in 1..(from + 2 * l - 2)
          BY <2>2
        <5> QED
          BY <4>2, <5>2, <5>3
      <4> QED
        BY <4>4, <4>5
    <3> QED
      BY <3>1 DEF WholeTurns
  <2>14. new[Len(new)] = Message("user", {t})
    <3>1. 2 * q + 1 \in 1..(2 * q + 1) /\ f + (2 * q + 1) = Len(m) /\ 2 + (2 * q + 1) = Len(new)
      BY <1>1, <2>2, <2>9
    <3> QED
      BY <1>1, <2>9, <3>1
  <2>15. ASSUME NEW i \in 1..(Len(new) - 1), t \in new[i].of PROVE FALSE
    <3>1. i \in 1..Len(new)
      BY <2>2, <2>9
    <3>2. PICK j \in 1..(f + i - 2) : t \in m[j].of
      BY <2>11, <2>15, <3>1
    <3>3. j \in 1..(Len(m) - 1)
      BY <1>1, <2>2, <2>9
    <3> QED
      BY <1>1, <3>2, <3>3
  <2>16. Pending(new, t)
    <3>1. Len(new) = 2 + 2 * q + 1 /\ q + 1 >= KeepRecentTurns /\ 2 \in {1, 2}
      BY <2>9
    <3> QED
      BY <2>2, <2>12, <2>13, <2>14, <2>15, <3>1 DEF Pending
  <2>17. Remembered(new) = Remembered(m)
    <3>1. DOMAIN new = 1..Len(new) /\ DOMAIN m = 1..Len(m)
      BY <1>1, <2>9 DEF OpensWith, Transcripts, Msg
    <3>2. ASSUME NEW i \in 1..Len(new), NEW x \in new[i].of PROVE x \in Remembered(m)
      <4>1. PICK j \in 1..(f + i - 2) : x \in m[j].of
        BY <2>11, <3>2
      <4>2. j \in DOMAIN m
        BY <1>1, <2>2, <2>9, <3>1
      <4> QED
        BY <4>1, <4>2 DEF Remembered
    <3>3. ASSUME NEW j \in 1..Len(m), NEW x \in m[j].of PROVE \E i \in 1..Len(new) : x \in new[i].of
      <4>1. CASE j = 1
        BY <1>1, <2>6, <3>3, <4>1 DEF OpensWith
      <4>2. CASE j \in 2..f
        <5>1. 2 \in 1..Len(new) /\ x \in new[2].of
          BY <2>2, <2>7, <2>9, <3>3, <4>2
        <5> QED
          BY <5>1
      <4>3. CASE j > f
        <5>1. j - f \in 1..(2 * q + 1) /\ f + (j - f) = j /\ 2 + (j - f) \in 1..Len(new)
          BY <1>1, <2>2, <2>3, <2>9, <4>3
        <5>2. new[2 + (j - f)] = m[j]
          BY <2>9, <5>1
        <5> QED
          BY <3>3, <5>1, <5>2
      <4>4. j = 1 \/ j \in 2..f \/ j > f
        BY <2>3
      <4> QED
        BY <4>1, <4>2, <4>3, <4>4
    <3> QED
      BY <3>1, <3>2, <3>3 DEF Remembered
  <2> QED
    BY <2>10, <2>16, <2>17
<1> QED
  BY <1>3, <1>4

LEMMA OneMore ==
  ASSUME NEW m \in Transcripts, NEW x \in [role : Roles, of : SUBSET Turns]
  PROVE  /\ m \o <<x>> \in Transcripts /\ Len(m \o <<x>>) = Len(m) + 1 /\ Len(m) \in Nat
         /\ \A i \in 1..Len(m) : (m \o <<x>>)[i] = m[i]
         /\ (m \o <<x>>)[Len(m) + 1] = x
         /\ Remembered(m \o <<x>>) = Remembered(m) \cup x.of
<1>1. /\ m \o <<x>> \in Transcripts /\ Len(m \o <<x>>) = Len(m) + 1 /\ Len(m) \in Nat
      /\ \A i \in 1..Len(m) : (m \o <<x>>)[i] = m[i]
      /\ (m \o <<x>>)[Len(m) + 1] = x
  BY DEF Transcripts
<1> DEFINE l == m \o <<x>>
<1> HIDE DEF l
<1>2. DOMAIN l = 1..(Len(m) + 1) /\ DOMAIN m = 1..Len(m)
  BY <1>1 DEF Transcripts, l
<1>3. \A i \in 1..(Len(m) + 1) : i \in 1..Len(m) \/ i = Len(m) + 1
  BY <1>1
<1>4. Len(m) + 1 \in DOMAIN l /\ \A i \in 1..Len(m) : i \in DOMAIN l
  BY <1>1, <1>2
<1>5. \A i \in 1..Len(m) : l[i] = m[i]
  BY <1>1 DEF l
<1>6. l[Len(m) + 1] = x
  BY <1>1 DEF l
<1>7. Remembered(l) = Remembered(m) \cup x.of
  <2>1. \A y \in Remembered(l) : y \in Remembered(m) \/ y \in x.of
    BY <1>2, <1>3, <1>5, <1>6 DEF Remembered
  <2>2. \A y \in Remembered(m) : y \in Remembered(l)
    BY <1>2, <1>4, <1>5 DEF Remembered
  <2>3. \A y \in x.of : y \in Remembered(l)
    BY <1>4, <1>6 DEF Remembered
  <2> QED
    BY <2>1, <2>2, <2>3
<1> QED
  BY <1>1, <1>7 DEF l

LEMMA AskedIsPending ==
  ASSUME NEW t \in Turns, NEW m, Whole(m), t \notin Remembered(m)
  PROVE  /\ Pending(m \o Said(t), t)
         /\ Remembered(m \o Said(t)) = Remembered(m) \cup {t}
<1> DEFINE x == Message("user", {t})
<1> DEFINE l == m \o <<x>>
<1>1. PICK from \in {1, 2}, n \in Nat :
        /\ OpensWith(m, from) /\ Len(m) = from + 2 * n
        /\ WholeTurns(m, from, n)
        /\ from = 2 => n >= KeepRecentTurns
  BY DEF Whole
<1>2. m \in Transcripts /\ x \in [role : Roles, of : SUBSET Turns] /\ x.of = {t} /\ x.role = "user"
  BY <1>1 DEF OpensWith, Message, Roles
<1>3. /\ l \in Transcripts /\ Len(l) = Len(m) + 1 /\ Len(m) \in Nat
      /\ \A i \in 1..Len(m) : l[i] = m[i]
      /\ l[Len(m) + 1] = x
      /\ Remembered(l) = Remembered(m) \cup x.of
  BY <1>2, OneMore
<1> HIDE DEF l
<1>4. OpensWith(l, from)
  <2>1. l[1] = m[1]
    BY <1>1, <1>3
  <2>2. CASE Len(m) > 1
    <3>1. l[2] = m[2]
      BY <1>3, <2>2
    <3> QED
      BY <1>1, <1>3, <2>1, <2>2, <3>1 DEF OpensWith
  <2>3. CASE ~(Len(m) > 1)
    <3>1. from = 1 /\ Len(l) = 2 /\ l[2] = x
      BY <1>1, <1>3, <2>3
    <3> QED
      BY <1>1, <1>2, <1>3, <2>1, <3>1 DEF OpensWith
  <2> QED
    BY <2>2, <2>3
<1>5. WholeTurns(l, from, n)
  <2>1. ASSUME NEW k \in 1..n
        PROVE  \E y \in Turns : /\ l[from + 2 * k - 1] = Message("user", {y})
                                /\ l[from + 2 * k] = Message("assistant", {y})
                                /\ \A i \in 1..(from + 2 * k - 2) : y \notin l[i].of
    <3>1. PICK y \in Turns : /\ m[from + 2 * k - 1] = Message("user", {y})
                             /\ m[from + 2 * k] = Message("assistant", {y})
                             /\ \A i \in 1..(from + 2 * k - 2) : y \notin m[i].of
      BY <1>1 DEF WholeTurns
    <3>2. /\ from + 2 * k - 1 \in 1..Len(m) /\ from + 2 * k \in 1..Len(m)
          /\ \A i \in 1..(from + 2 * k - 2) : i \in 1..Len(m)
      BY <1>1
    <3> QED
      BY <1>3, <3>1, <3>2
  <2> QED
    BY <2>1 DEF WholeTurns
<1>6. \A i \in 1..(Len(l) - 1) : t \notin l[i].of
  <2>1. \A i \in 1..(Len(l) - 1) : i \in DOMAIN m /\ l[i] = m[i]
    BY <1>2, <1>3 DEF Transcripts
  <2> QED
    BY <2>1 DEF Remembered
<1>7. Pending(l, t)
  <2>1. Len(l) = from + 2 * n + 1 /\ (from = 2 => n + 1 >= KeepRecentTurns) /\ l[Len(l)] = x
    BY <1>1, <1>3, ChatAssumption
  <2> QED
    BY <1>4, <1>5, <1>6, <2>1 DEF Pending
<1> QED
  BY <1>2, <1>3, <1>7 DEF l, Said

LEMMA SavedIsWhole ==
  ASSUME NEW t \in Turns, NEW m, Pending(m, t)
  PROVE  /\ Whole(m \o Replied(t))
         /\ Remembered(m \o Replied(t)) = Remembered(m) /\ t \in Remembered(m)
<1> DEFINE x == Message("assistant", {t})
<1> DEFINE l == m \o <<x>>
<1>1. PICK from \in {1, 2}, n \in Nat :
        /\ OpensWith(m, from) /\ Len(m) = from + 2 * n + 1
        /\ WholeTurns(m, from, n)
        /\ m[Len(m)] = Message("user", {t})
        /\ \A i \in 1..(Len(m) - 1) : t \notin m[i].of
        /\ from = 2 => n + 1 >= KeepRecentTurns
  BY DEF Pending
<1>2. /\ m \in Transcripts /\ x \in [role : Roles, of : SUBSET Turns]
      /\ x.of = {t} /\ x.role = "assistant"
  BY <1>1 DEF OpensWith, Message, Roles
<1>3. /\ l \in Transcripts /\ Len(l) = Len(m) + 1 /\ Len(m) \in Nat
      /\ \A i \in 1..Len(m) : l[i] = m[i]
      /\ l[Len(m) + 1] = x
      /\ Remembered(l) = Remembered(m) \cup x.of
  BY <1>2, OneMore
<1> HIDE DEF l
<1>4. t \in Remembered(m)
  <2>1. Len(m) \in DOMAIN m /\ m[Len(m)].of = {t}
    BY <1>1, <1>2, <1>3 DEF Transcripts, Message
  <2> QED
    BY <2>1 DEF Remembered
<1>5. OpensWith(l, from)
  <2>1. Len(m) > 1 /\ l[1] = m[1] /\ l[2] = m[2]
    BY <1>1, <1>3
  <2> QED
    BY <1>1, <1>3, <2>1 DEF OpensWith
<1>6. WholeTurns(l, from, n + 1)
  <2>1. ASSUME NEW k \in 1..(n + 1)
        PROVE  \E y \in Turns : /\ l[from + 2 * k - 1] = Message("user", {y})
                                /\ l[from + 2 * k] = Message("assistant", {y})
                                /\ \A i \in 1..(from + 2 * k - 2) : y \notin l[i].of
    <3>1. CASE k = n + 1
      <4>1. /\ from + 2 * k - 1 = Len(m) /\ from + 2 * k = Len(m) + 1
            /\ from + 2 * k - 2 = Len(m) - 1 /\ Len(m) \in 1..Len(m)
            /\ \A i \in 1..(Len(m) - 1) : i \in 1..Len(m)
        BY <1>1, <1>3, <3>1
      <4>2. \A i \in 1..(Len(m) - 1) : t \notin l[i].of
        BY <1>1, <1>3, <4>1
      <4>3. l[Len(m)] = Message("user", {t})
        BY <1>1, <1>3, <4>1
      <4> QED
        BY <1>3, <4>1, <4>2, <4>3
    <3>2. CASE k # n + 1
      <4>0. k \in 1..n
        BY <3>2
      <4>1. PICK y \in Turns : /\ m[from + 2 * k - 1] = Message("user", {y})
                               /\ m[from + 2 * k] = Message("assistant", {y})
                               /\ \A i \in 1..(from + 2 * k - 2) : y \notin m[i].of
        BY <1>1, <4>0 DEF WholeTurns
      <4>2. /\ from + 2 * k - 1 \in 1..Len(m) /\ from + 2 * k \in 1..Len(m)
            /\ \A i \in 1..(from + 2 * k - 2) : i \in 1..Len(m)
        BY <1>1, <4>0
      <4> QED
        BY <1>3, <4>1, <4>2
    <3> QED
      BY <3>1, <3>2
  <2> QED
    BY <2>1 DEF WholeTurns
<1>7. Whole(l)
  <2>1. Len(l) = from + 2 * (n + 1) /\ (from = 2 => n + 1 >= KeepRecentTurns) /\ n + 1 \in Nat
    BY <1>1, <1>3
  <2> QED
    BY <1>5, <1>6, <2>1 DEF Whole
<1> QED
  BY <1>2, <1>3, <1>4, <1>7 DEF l, Replied

LEMMA PromptIsWhole == Whole(<<System>>) /\ Remembered(<<System>>) = {} /\ Remembered(<<>>) = {}
<1>1. OpensWith(<<System>>, 1)
  BY DEF OpensWith, Transcripts, System, Message, Roles
<1>2. Len(<<System>>) = 1 + 2 * 0 /\ WholeTurns(<<System>>, 1, 0) /\ 0 \in Nat
  BY DEF WholeTurns
<1>3. Remembered(<<System>>) = {} /\ Remembered(<<>>) = {}
  BY DEF Remembered, System, Message
<1> QED
  BY <1>1, <1>2, <1>3 DEF Whole

-----------------------------------------------------------------------------
\* What the first n saves left is remembered, or was overwritten by a later one of
\* them that had not read it.
Kept(saved, of, m, n) ==
  \A i \in 1..n : saved[i] \in Remembered(m) \/ \E j \in (i + 1)..n : of[saved[j]].base < i
Done == {t \in Turns : turn[t].pc = "done"}
UnderWay(t) == turn[t].pc \in {"compact", "reply"}

ChatTyping ==
  /\ turn \in [Turns -> [pc : {"idle", "compact", "reply", "done", "failed"},
                         messages : Transcripts, base : Nat]]
  /\ saves \in Seq(Turns) /\ \A i \in DOMAIN saves : saves[i] \in Done

TurnInv(t) ==
  UnderWay(t) => /\ Pending(turn[t].messages, t)
                 /\ turn[t].base \in 0..Len(saves)
                 /\ Remembered(turn[t].messages) \subseteq Done \cup {t}
                 /\ Kept(saves, turn, turn[t].messages, turn[t].base)

ThreadInv ==
  /\ thread = <<>> \/ Whole(thread)
  /\ Remembered(thread) \subseteq Done
  /\ Kept(saves, turn, thread, Len(saves))

ChatInv == ChatTyping /\ ThreadInv /\ \A t \in Turns : TurnInv(t)

\* A turn that is not done may move without disturbing what was kept.
LEMMA KeptStays ==
  ASSUME NEW t, NEW m, NEW n \in Nat, NEW l, Remembered(m) \subseteq Remembered(l),
         NEW saved, NEW of, NEW of2, NEW saved2, Kept(saved, of, m, n),
         \A i \in 1..n : saved2[i] = saved[i] /\ of2[saved[i]] = of[saved[i]]
  PROVE  Kept(saved2, of2, l, n)
<1>1. \A i \in 1..n : \A j \in (i + 1)..n : j \in 1..n
  OBVIOUS
<1>2. ASSUME NEW i \in 1..n
      PROVE  saved2[i] \in Remembered(l) \/ \E j \in (i + 1)..n : of2[saved2[j]].base < i
  <2>1. CASE saved[i] \in Remembered(m)
    BY <2>1
  <2>2. CASE \E j \in (i + 1)..n : of[saved[j]].base < i
    <3>1. PICK j \in (i + 1)..n : of[saved[j]].base < i
      BY <2>2
    <3>2. of2[saved2[j]] = of[saved[j]]
      BY <1>1
    <3> QED
      BY <3>1, <3>2
  <2> QED
    BY <2>1, <2>2 DEF Kept
<1> QED
  BY <1>2 DEF Kept

\* A step of one turn that saves nothing leaves the others as they were.
LEMMA OtherTurnsStay ==
  ASSUME ChatInv, NEW t \in Turns, turn[t].pc # "done", UNCHANGED saves,
         \A u \in Turns : u # t => turn'[u] = turn[u], turn'[t].pc # "done"
  PROVE  /\ Done' = Done
         /\ \A m, l : \A n \in 0..Len(saves) :
              Remembered(m) \subseteq Remembered(l) /\ Kept(saves, turn, m, n)
                => Kept(saves', turn', l, n)
         /\ \A u \in Turns : u # t => TurnInv(u)'
<1>1. Done' = Done
  BY DEF Done
<1>2. \A i \in 1..Len(saves) : saves[i] \in Turns /\ saves[i] # t
  BY DEF ChatInv, ChatTyping, Done
<1>3. \A i \in 1..Len(saves) : saves'[i] = saves[i] /\ turn'[saves[i]] = turn[saves[i]]
  BY <1>2
<1>4. Len(saves) \in Nat
  BY DEF ChatInv, ChatTyping
<1>5. ASSUME NEW m, NEW l, NEW n \in 0..Len(saves),
             Remembered(m) \subseteq Remembered(l), Kept(saves, turn, m, n)
      PROVE  Kept(saves', turn', l, n)
  <2>1. n \in Nat /\ \A i \in 1..n : i \in 1..Len(saves)
    BY <1>4
  <2>2. \A i \in 1..n : saves'[i] = saves[i] /\ turn'[saves[i]] = turn[saves[i]]
    BY <1>3, <2>1
  <2> QED
    BY <1>5, <2>1, <2>2, KeptStays
<1>6. ASSUME NEW u \in Turns, u # t PROVE TurnInv(u)'
  <2>1. turn'[u] = turn[u] /\ TurnInv(u)
    BY <1>6 DEF ChatInv
  <2> QED
    BY <1>1, <1>5, <2>1 DEF TurnInv, UnderWay
<1> QED
  BY <1>1, <1>5, <1>6

LEMMA LoadKeeps ==
  ASSUME ChatInv, NEW t \in Turns, TurnLoad(t)
  PROVE  ChatInv'
<1>1. turn[t].pc = "idle" /\ UNCHANGED saves /\ t \notin Done
  BY DEF TurnLoad, Done
<1> DEFINE messages == thread' \o Said(t)
<1>2. /\ turn \in [Turns -> [pc : {"idle", "compact", "reply", "done", "failed"},
                             messages : Transcripts, base : Nat]]
      /\ turn' = [turn EXCEPT ![t] = [pc |-> "compact", messages |-> messages, base |-> Len(saves)]]
      /\ Len(saves) \in Nat
  BY DEF TurnLoad, ChatInv, ChatTyping
<1>3. Whole(thread') /\ Remembered(thread') = Remembered(thread)
  <2>1. CASE thread = <<>>
    BY <2>1, PromptIsWhole DEF TurnLoad
  <2>2. CASE thread # <<>>
    BY <2>2 DEF TurnLoad, ChatInv, ThreadInv
  <2> QED
    BY <2>1, <2>2
<1>4. t \notin Remembered(thread')
  BY <1>1, <1>3 DEF ChatInv, ThreadInv
<1>5. Pending(messages, t) /\ Remembered(messages) = Remembered(thread) \cup {t}
  BY <1>3, <1>4, AskedIsPending
<1>6. messages \in Transcripts
  BY <1>5 DEF Pending, OpensWith
<1> HIDE DEF messages
<1>7. /\ turn'[t] = [pc |-> "compact", messages |-> messages, base |-> Len(saves)]
      /\ \A u \in Turns : u # t => turn'[u] = turn[u]
      /\ turn' \in [Turns -> [pc : {"idle", "compact", "reply", "done", "failed"},
                              messages : Transcripts, base : Nat]]
  BY <1>2, <1>6
<1>8. /\ Done' = Done
      /\ \A m, l : \A n \in 0..Len(saves) :
           Remembered(m) \subseteq Remembered(l) /\ Kept(saves, turn, m, n)
             => Kept(saves', turn', l, n)
      /\ \A u \in Turns : u # t => TurnInv(u)'
  BY <1>1, <1>7, OtherTurnsStay
<1>9. Len(saves) \in 0..Len(saves) /\ Kept(saves, turn, thread, Len(saves))
      /\ Remembered(thread) \subseteq Done
  BY <1>2 DEF ChatInv, ThreadInv
<1>10. ChatTyping'
  BY <1>1, <1>7, <1>8 DEF ChatInv, ChatTyping
<1>11. ThreadInv'
  BY <1>1, <1>3, <1>8, <1>9 DEF ThreadInv
<1>12. TurnInv(t)'
  <2>1. Kept(saves', turn', messages, Len(saves))
    BY <1>5, <1>8, <1>9
  <2> QED
    BY <1>1, <1>5, <1>7, <1>8, <1>9, <2>1 DEF TurnInv
<1> QED
  BY <1>8, <1>10, <1>11, <1>12 DEF ChatInv

LEMMA CompactKeeps ==
  ASSUME ChatInv, NEW t \in Turns, TurnCompact(t)
  PROVE  ChatInv'
<1>1. turn[t].pc = "compact" /\ UNCHANGED <<thread, saves>> /\ t \notin Done
  BY DEF TurnCompact, Done
<1>2. PICK messages \in {turn[t].messages, Compacted(turn[t].messages)} :
        turn' = [turn EXCEPT ![t].pc = "reply", ![t].messages = messages]
  BY DEF TurnCompact
<1>3. /\ turn \in [Turns -> [pc : {"idle", "compact", "reply", "done", "failed"},
                             messages : Transcripts, base : Nat]]
      /\ Len(saves) \in Nat
  BY DEF ChatInv, ChatTyping
<1>4. /\ Pending(turn[t].messages, t) /\ turn[t].base \in 0..Len(saves)
      /\ Remembered(turn[t].messages) \subseteq Done \cup {t}
      /\ Kept(saves, turn, turn[t].messages, turn[t].base)
  BY <1>1 DEF ChatInv, TurnInv, UnderWay
<1>5. Pending(messages, t) /\ Remembered(messages) = Remembered(turn[t].messages)
  BY <1>4, CompactionKeeps
<1>6. messages \in Transcripts
  BY <1>5 DEF Pending, OpensWith
<1>7. /\ turn'[t].pc = "reply" /\ turn'[t].messages = messages /\ turn'[t].base = turn[t].base
      /\ \A u \in Turns : u # t => turn'[u] = turn[u]
      /\ turn' \in [Turns -> [pc : {"idle", "compact", "reply", "done", "failed"},
                              messages : Transcripts, base : Nat]]
  BY <1>2, <1>3, <1>6
<1>8. /\ Done' = Done
      /\ \A m, l : \A n \in 0..Len(saves) :
           Remembered(m) \subseteq Remembered(l) /\ Kept(saves, turn, m, n)
             => Kept(saves', turn', l, n)
      /\ \A u \in Turns : u # t => TurnInv(u)'
  BY <1>1, <1>7, OtherTurnsStay
<1>9. ChatTyping'
  BY <1>1, <1>7, <1>8 DEF ChatInv, ChatTyping
<1>10. ThreadInv'
  <2>1. Len(saves) \in 0..Len(saves) /\ ThreadInv
    BY <1>3 DEF ChatInv
  <2> QED
    BY <1>1, <1>8, <2>1 DEF ThreadInv
<1>11. TurnInv(t)'
  <2>1. Kept(saves', turn', messages, turn[t].base)
    BY <1>4, <1>5, <1>8
  <2> QED
    BY <1>1, <1>4, <1>5, <1>7, <1>8, <2>1 DEF TurnInv
<1> QED
  BY <1>8, <1>9, <1>10, <1>11 DEF ChatInv

LEMMA ReplyFails ==
  ASSUME ChatInv, NEW t \in Turns, TurnFail(t)
  PROVE  ChatInv'
<1>1. turn[t].pc = "reply" /\ UNCHANGED <<thread, saves>> /\ t \notin Done
  BY DEF TurnFail, Done
<1>2. /\ turn \in [Turns -> [pc : {"idle", "compact", "reply", "done", "failed"},
                             messages : Transcripts, base : Nat]]
      /\ Len(saves) \in Nat
  BY DEF ChatInv, ChatTyping
<1>3. /\ turn'[t].pc = "failed"
      /\ \A u \in Turns : u # t => turn'[u] = turn[u]
      /\ turn' \in [Turns -> [pc : {"idle", "compact", "reply", "done", "failed"},
                              messages : Transcripts, base : Nat]]
  BY <1>2 DEF TurnFail
<1>4. /\ Done' = Done
      /\ \A m, l : \A n \in 0..Len(saves) :
           Remembered(m) \subseteq Remembered(l) /\ Kept(saves, turn, m, n)
             => Kept(saves', turn', l, n)
      /\ \A u \in Turns : u # t => TurnInv(u)'
  BY <1>1, <1>3, OtherTurnsStay
<1>5. ChatTyping'
  BY <1>1, <1>3, <1>4 DEF ChatInv, ChatTyping
<1>6. ThreadInv'
  <2>1. Len(saves) \in 0..Len(saves) /\ ThreadInv
    BY <1>2 DEF ChatInv
  <2> QED
    BY <1>1, <1>4, <2>1 DEF ThreadInv
<1>7. TurnInv(t)'
  BY <1>3 DEF TurnInv, UnderWay
<1> QED
  BY <1>4, <1>5, <1>6, <1>7 DEF ChatInv

LEMMA SaveKeeps ==
  ASSUME ChatInv, NEW t \in Turns, TurnSave(t)
  PROVE  ChatInv'
<1> DEFINE messages == turn[t].messages
<1> DEFINE n == Len(saves)
<1>1. /\ turn[t].pc = "reply" /\ t \notin Done
      /\ thread' = messages \o Replied(t) /\ saves' = Append(saves, t)
  BY DEF TurnSave, Done
<1>2. /\ turn \in [Turns -> [pc : {"idle", "compact", "reply", "done", "failed"},
                             messages : Transcripts, base : Nat]]
      /\ saves \in Seq(Turns) /\ n \in Nat
      /\ \A i \in 1..n : saves[i] \in Done
  BY DEF ChatInv, ChatTyping
<1>3. /\ turn'[t].pc = "done" /\ turn'[t].base = turn[t].base
      /\ \A u \in Turns : u # t => turn'[u] = turn[u]
      /\ turn' \in [Turns -> [pc : {"idle", "compact", "reply", "done", "failed"},
                              messages : Transcripts, base : Nat]]
  BY <1>2 DEF TurnSave
<1>4. Done' = Done \cup {t}
  BY <1>3 DEF Done
<1>5. /\ saves' \in Seq(Turns) /\ Len(saves') = n + 1 /\ saves'[n + 1] = t
      /\ \A i \in 1..n : saves'[i] = saves[i]
  BY <1>1, <1>2
<1>6. \A i \in 1..n : saves'[i] = saves[i] /\ turn'[saves[i]] = turn[saves[i]]
  <2>1. \A i \in 1..n : saves[i] \in Turns /\ saves[i] # t
    BY <1>1, <1>2 DEF Done
  <2> QED
    BY <1>3, <1>5, <2>1
<1>7. /\ Pending(messages, t) /\ turn[t].base \in 0..n
      /\ Remembered(messages) \subseteq Done \cup {t}
      /\ Kept(saves, turn, messages, turn[t].base)
  BY <1>1 DEF ChatInv, TurnInv, UnderWay
<1>8. Whole(thread') /\ Remembered(thread') = Remembered(messages) /\ t \in Remembered(messages)
  BY <1>1, <1>7, SavedIsWhole
<1>9. ASSUME NEW m, NEW l, NEW k \in 0..n,
             Remembered(m) \subseteq Remembered(l), Kept(saves, turn, m, k)
      PROVE  Kept(saves', turn', l, k)
  <2>1. k \in Nat /\ \A i \in 1..k : i \in 1..n
    BY <1>2
  <2>2. \A i \in 1..k : saves'[i] = saves[i] /\ turn'[saves[i]] = turn[saves[i]]
    BY <1>6, <2>1
  <2> QED
    BY <1>9, <2>1, <2>2, KeptStays
<1> HIDE DEF messages, n
<1>10. ChatTyping'
  <2>1. DOMAIN saves' = 1..(n + 1) /\ \A i \in 1..(n + 1) : i \in 1..n \/ i = n + 1
    BY <1>2, <1>5
  <2>2. \A i \in DOMAIN saves' : saves'[i] \in Done'
    BY <1>2, <1>4, <1>5, <2>1
  <2> QED
    BY <1>3, <1>5, <2>2 DEF ChatTyping
<1>11. Kept(saves', turn', thread', n + 1)
  <2> DEFINE b == turn[t].base
  <2>1. Kept(saves', turn', thread', b)
    BY <1>7, <1>8, <1>9
  <2>2. ASSUME NEW i \in 1..(n + 1)
        PROVE  \/ saves'[i] \in Remembered(thread')
               \/ \E j \in (i + 1)..(n + 1) : turn'[saves'[j]].base < i
    <3>1. CASE i = n + 1
      BY <1>5, <1>8, <3>1
    <3>2. CASE i <= b
      <4>1. i \in 1..b /\ \A j \in (i + 1)..b : j \in (i + 1)..(n + 1)
        BY <1>2, <1>7, <3>2
      <4> QED
        BY <2>1, <4>1 DEF Kept
    <3>3. CASE i > b /\ i # n + 1
      <4>1. n + 1 \in (i + 1)..(n + 1) /\ turn'[saves'[n + 1]].base < i
        BY <1>2, <1>3, <1>5, <1>7, <3>3
      <4> QED
        BY <4>1
    <3> QED
      BY <1>2, <1>7, <3>1, <3>2, <3>3
  <2> QED
    BY <2>2 DEF Kept
<1>12. ThreadInv'
  BY <1>4, <1>5, <1>7, <1>8, <1>11 DEF ThreadInv
<1>13. ASSUME NEW u \in Turns PROVE TurnInv(u)'
  <2>1. CASE u = t
    BY <1>3, <2>1 DEF TurnInv, UnderWay
  <2>2. CASE u # t
    <3>1. turn'[u] = turn[u] /\ TurnInv(u)
      BY <1>3, <2>2 DEF ChatInv
    <3>2. ASSUME UnderWay(u)
          PROVE  /\ Pending(turn[u].messages, u) /\ turn[u].base \in 0..(n + 1)
                 /\ Remembered(turn[u].messages) \subseteq Done \cup {t} \cup {u}
                 /\ Kept(saves', turn', turn[u].messages, turn[u].base)
      <4>1. /\ Pending(turn[u].messages, u) /\ turn[u].base \in 0..n
            /\ Remembered(turn[u].messages) \subseteq Done \cup {u}
            /\ Kept(saves, turn, turn[u].messages, turn[u].base)
        BY <3>1, <3>2 DEF TurnInv, n
      <4> QED
        BY <1>2, <1>9, <4>1
    <3> QED
      BY <1>4, <1>5, <3>1, <3>2 DEF TurnInv, UnderWay
  <2> QED
    BY <2>1, <2>2
<1> QED
  BY <1>10, <1>12, <1>13 DEF ChatInv

LEMMA ChatStart == ChatInit => ChatInv
<1> SUFFICES ASSUME ChatInit PROVE ChatInv
  OBVIOUS
<1>1. ChatTyping
  BY DEF ChatInit, ChatTyping, NewTurn, Transcripts
<1>2. ThreadInv
  BY PromptIsWhole DEF ChatInit, ThreadInv, Kept
<1>3. \A t \in Turns : TurnInv(t)
  BY DEF ChatInit, TurnInv, UnderWay, NewTurn
<1> QED
  BY <1>1, <1>2, <1>3 DEF ChatInv

LEMMA ChatKeeps == ChatInv /\ [ChatNext]_chatVars => ChatInv'
<1> SUFFICES ASSUME ChatInv, [ChatNext]_chatVars PROVE ChatInv'
  OBVIOUS
<1>1. CASE UNCHANGED chatVars
  BY <1>1 DEF chatVars, ChatInv, ChatTyping, ThreadInv, TurnInv, UnderWay, Done
<1>2. CASE ChatNext
  BY <1>2, LoadKeeps, CompactKeeps, SaveKeeps, ReplyFails DEF ChatNext
<1> QED
  BY <1>1, <1>2

LEMMA ChatImplies == ChatInv => TranscriptIsWhole
<1> SUFFICES ASSUME ChatInv PROVE TranscriptIsWhole
  OBVIOUS
<1>1. WellFormed
  BY WholeIsWellFormed DEF ChatInv, ThreadInv, WellFormed
<1>2. DOMAIN saves = 1..Len(saves) /\ Len(saves) \in Nat
  BY DEF ChatInv, ChatTyping
<1>3. ASSUME NEW i \in DOMAIN saves
      PROVE  \/ saves[i] \in Remembered(thread)
             \/ \E j \in DOMAIN saves : j > i /\ turn[saves[j]].base < i
  <2>1. i \in 1..Len(saves) /\ \A j \in (i + 1)..Len(saves) : j \in DOMAIN saves /\ j > i
    BY <1>2
  <2> QED
    BY <2>1 DEF ChatInv, ThreadInv, Kept
<1> QED
  BY <1>1, <1>3 DEF TranscriptIsWhole

\* However the turns of a conversation overlap and whenever they are compacted, the
\* transcript is made of whole turns, and an answered turn is remembered unless a turn
\* that had not read it was saved after it.
THEOREM NothingAnsweredIsForgotten == ChatSpec => []TranscriptIsWhole
BY ChatStart, ChatKeeps, ChatImplies, PTL DEF ChatSpec
-----------------------------------------------------------------------------
(* The subscriptions and the generations of media.                         *)

\* Request r has marked event n of owner o and is on its way to apply it.
Carries(r, o, n) ==
  request[r].pc \in {"get", "save", "audit"} /\ request[r].owner = o /\ request[r].event = n

BillingShape ==
  /\ DOMAIN request = Requests
  /\ \A r \in Requests :
       /\ request[r] = [pc |-> request[r].pc, owner |-> request[r].owner,
                        event |-> request[r].event, old |-> request[r].old]
       /\ request[r].event \in 0..MaxEvents
       /\ request[r].pc \in {"idle", "mark", "get", "save", "audit"}
       /\ request[r].pc # "idle" => request[r].owner \in Owners
       /\ request[r].pc = "mark" => request[r].event \in 1..MaxEvents
  /\ applied \in [Owners -> [1..MaxEvents -> Nat]]
  /\ processed \in [Owners -> SUBSET (1..MaxEvents)]
  /\ trail \in [Owners -> Seq(0..MaxEvents)]
  /\ answered \in [Owners -> SUBSET (1..MaxEvents)]
  /\ crashes \in Nat

\* An event has at most one carrier, and only once it is marked.
OneCarrier ==
  \A o \in Owners, n \in 1..MaxEvents :
    /\ \A r \in Requests : Carries(r, o, n) => n \in processed[o]
    /\ \A r, q \in Requests : Carries(r, o, n) /\ Carries(q, o, n) => r = q

\* It has not been applied before its carrier saves, and never without a mark.
Uncarried ==
  \A o \in Owners, n \in 1..MaxEvents :
    /\ applied[o][n] <= 1
    /\ applied[o][n] > 0 => n \in processed[o]
    /\ \A r \in Requests :
         Carries(r, o, n) /\ request[r].pc \in {"get", "save"} => applied[o][n] = 0

InTrail(o, n) == \E i \in DOMAIN trail[o] : trail[o][i] = n

\* What was applied is in the trail, or its carrier is about to write it there.
Audited ==
  crashes = 0 =>
    \A o \in Owners, n \in 1..MaxEvents :
      applied[o][n] > 0 =>
        InTrail(o, n) \/ \E r \in Requests : Carries(r, o, n) /\ request[r].pc = "audit"

BillingInv == BillingShape /\ OneCarrier /\ Uncarried /\ Audited

LEMMA BillingStarts == BillingInit => BillingInv
<1> SUFFICES ASSUME BillingInit PROVE BillingInv
  OBVIOUS
<1>1. \A r \in Requests : request[r] = Free
  BY DEF BillingInit
<1>2. BillingShape
  BY <1>1, BillingAssumption DEF BillingInit, BillingShape, Free
<1>3. OneCarrier /\ Uncarried /\ Audited
  BY <1>1 DEF BillingInit, OneCarrier, Uncarried, Audited, Carries, Free
<1>4. QED
  BY <1>2, <1>3 DEF BillingInv

\* A step that changes neither what is applied nor what is marked, loses no
\* carrier that has yet to write its audit row unless it is a cut, and lets one
\* request at most move along, without taking up an event.
LEMMA QuietStep ==
  ASSUME BillingInv, BillingShape', NEW r \in Requests,
         \A q \in Requests \ {r} : request'[q] = request[q],
         request'[r].pc \in {"idle", "mark"} \/ request'[r].event = 0
           \/ /\ request[r].pc = "get" /\ request'[r].pc = "save"
              /\ request'[r].owner = request[r].owner
              /\ request'[r].event = request[r].event,
         UNCHANGED <<applied, processed, trail>>,
         crashes' = 0 => crashes = 0 /\ (request[r].pc = "audit" => request'[r] = request[r])
  PROVE  BillingInv'
<1>1. \A q \in Requests, o \in Owners, n \in 1..MaxEvents :
        Carries(q, o, n)' => Carries(q, o, n) /\ (request'[q].pc \in {"get", "save"}
                                                    => request[q].pc \in {"get", "save"})
  BY DEF Carries
<1>2. OneCarrier'
  BY <1>1 DEF OneCarrier, BillingInv
<1>3. Uncarried'
  BY <1>1 DEF Uncarried, BillingInv
<1>4. Audited'
  <2>1. SUFFICES ASSUME crashes' = 0, NEW o \in Owners, NEW n \in 1..MaxEvents, applied[o][n] > 0
                 PROVE  \/ InTrail(o, n)'
                        \/ \E q \in Requests : Carries(q, o, n)' /\ request'[q].pc = "audit"
    BY DEF Audited
  <2>2. CASE InTrail(o, n)
    BY <2>2 DEF InTrail
  <2>3. ASSUME NEW q \in Requests, Carries(q, o, n), request[q].pc = "audit"
        PROVE  Carries(q, o, n)' /\ request'[q].pc = "audit"
    BY <2>1, <2>3 DEF Carries
  <2>4. QED
    BY <2>1, <2>2, <2>3 DEF Audited, BillingInv
<1>5. QED
  BY <1>2, <1>3, <1>4 DEF BillingInv

\* The mark makes its request the carrier of an event that had none.
LEMMA MarkStep ==
  ASSUME BillingInv, NEW r \in Requests, Mark(r)
  PROVE  BillingInv'
<1> DEFINE o == request[r].owner
           n == request[r].event
<1>1. o \in Owners /\ n \in 1..MaxEvents /\ request[r].pc = "mark"
  BY DEF Mark, BillingInv, BillingShape
<1>2. CASE n \in processed[o]
  <2>1. request' = [request EXCEPT ![r] = Free] /\ answered' = [answered EXCEPT ![o] = @ \cup {n}]
        /\ UNCHANGED <<processed, applied, trail, crashes>>
    BY <1>2 DEF Mark
  <2>2. BillingShape'
    <3>1. DOMAIN request' = Requests /\ request'[r] = Free
          /\ \A q \in Requests \ {r} : request'[q] = request[q]
      BY <2>1, Zenon DEF BillingInv, BillingShape
    <3>2. answered' \in [Owners -> SUBSET (1..MaxEvents)]
      BY <1>1, <2>1 DEF BillingInv, BillingShape
    <3> QED
      BY <1>1, <2>1, <3>1, <3>2, BillingAssumption DEF BillingShape, BillingInv, Free
  <2>3. QED
    BY <1>1, <2>1, <2>2, QuietStep DEF Free, BillingInv, BillingShape
<1>3. CASE n \notin processed[o]
  <2>1. request' = [request EXCEPT ![r].pc = "get"]
        /\ processed' = [processed EXCEPT ![o] = @ \cup {n}]
        /\ UNCHANGED <<answered, applied, trail, crashes>>
    BY <1>3 DEF Mark
  <2>2. request'[r] = [request[r] EXCEPT !.pc = "get"]
        /\ \A q \in Requests \ {r} : request'[q] = request[q]
    BY <2>1 DEF BillingInv, BillingShape
  <2>3. /\ request'[r].pc = "get" /\ request'[r].owner = o /\ request'[r].event = n
        /\ request'[r].old = request[r].old
    BY <2>2 DEF BillingInv, BillingShape
  <2>4. BillingShape'
    BY <1>1, <2>1, <2>2, <2>3 DEF BillingShape, BillingInv
  <2>5. \A q \in Requests, p \in Owners, m \in 1..MaxEvents :
          Carries(q, p, m)' => Carries(q, p, m) \/ (q = r /\ p = o /\ m = n)
    BY <2>2, <2>3 DEF Carries
  <2>6. \A q \in Requests \ {r}, p \in Owners, m \in 1..MaxEvents :
          Carries(q, p, m)' <=> Carries(q, p, m)
    BY <2>2 DEF Carries
  <2>7. \A q \in Requests : ~Carries(q, o, n)
    BY <1>1, <1>3 DEF OneCarrier, BillingInv
  <2>8. \A p \in Owners, m \in 1..MaxEvents :
          m \in processed'[p] <=> m \in processed[p] \/ (p = o /\ m = n)
    BY <2>1, <1>1 DEF BillingInv, BillingShape
  <2>9. \A p \in Owners, m \in 1..MaxEvents : ~Carries(r, p, m)
    BY <1>1 DEF Carries
  <2>10. OneCarrier'
    BY <2>5, <2>6, <2>7, <2>8, <2>9 DEF OneCarrier, BillingInv
  <2>11. applied[o][n] = 0
    <3>1. applied[o][n] \in Nat
      BY <1>1 DEF BillingInv, BillingShape
    <3>2. ~(applied[o][n] > 0)
      BY <1>1, <1>3 DEF Uncarried, BillingInv
    <3>3. QED
      BY <3>1, <3>2
  <2>12. Uncarried'
    <3>1. \A p \in Owners, m \in 1..MaxEvents :
            applied'[p][m] <= 1 /\ (applied'[p][m] > 0 => m \in processed'[p])
      BY <2>1, <2>8 DEF Uncarried, BillingInv
    <3>2. ASSUME NEW p \in Owners, NEW m \in 1..MaxEvents, NEW q \in Requests,
                 Carries(q, p, m)', request'[q].pc \in {"get", "save"}
          PROVE  applied'[p][m] = 0
      <4>1. CASE q = r
        BY <4>1, <3>2, <2>1, <2>5, <2>9, <2>11
      <4>2. CASE q # r
        BY <4>2, <3>2, <2>1, <2>2, <2>6 DEF Uncarried, BillingInv
      <4>3. QED
        BY <4>1, <4>2
    <3>3. QED
      BY <3>1, <3>2 DEF Uncarried
  <2>13. Audited'
    <3>1. \A p \in Owners, m \in 1..MaxEvents : InTrail(p, m)' <=> InTrail(p, m)
      BY <2>1 DEF InTrail
    <3>2. QED
      BY <2>1, <2>2, <2>6, <2>9, <3>1 DEF Audited, BillingInv
  <2>14. QED
    BY <2>4, <2>10, <2>12, <2>13 DEF BillingInv
<1>4. QED
  BY <1>2, <1>3

LEMMA CountedUp ==
  ASSUME NEW S, NEW f \in [S -> Nat], NEW x \in S
  PROVE  [f EXCEPT ![x] = @ + 1] \in [S -> Nat]
<1>1. f[x] \in Nat
  OBVIOUS
<1>2. f[x] + 1 \in Nat
  BY <1>1
<1>3. QED
  BY <1>2

\* The save applies its event, which nobody else carries and none has applied.
LEMMA SaveStep ==
  ASSUME BillingInv, NEW r \in Requests, ApplySave(r)
  PROVE  BillingInv'
<1> DEFINE o == request[r].owner
           n == request[r].event
<1>1. o \in Owners /\ n \in 0..MaxEvents /\ request[r].pc = "save"
  BY DEF ApplySave, BillingInv, BillingShape
<1>2. /\ request' = [request EXCEPT ![r].pc = "audit"]
      /\ applied' = IF n = 0 THEN applied ELSE [applied EXCEPT ![o][n] = @ + 1]
      /\ UNCHANGED <<answered, processed, trail, crashes>>
  BY DEF ApplySave
<1>3. request'[r] = [request[r] EXCEPT !.pc = "audit"]
      /\ \A q \in Requests \ {r} : request'[q] = request[q]
  BY <1>2 DEF BillingInv, BillingShape
<1>4. /\ request'[r].pc = "audit" /\ request'[r].owner = o /\ request'[r].event = n
      /\ request'[r].old = request[r].old
  BY <1>3 DEF BillingInv, BillingShape
<1>5. \A p \in Owners, m \in 1..MaxEvents :
        applied'[p][m] = IF p = o /\ m = n THEN applied[p][m] + 1 ELSE applied[p][m]
  <2>1. CASE n = 0
    BY <1>2, <2>1 DEF BillingInv, BillingShape
  <2>2. CASE n # 0
    BY <1>1, <1>2, <2>2 DEF BillingInv, BillingShape
  <2>3. QED
    BY <2>1, <2>2
<1>6. applied' \in [Owners -> [1..MaxEvents -> Nat]]
  <2>1. CASE n = 0
    BY <1>2, <2>1 DEF BillingInv, BillingShape
  <2>2. CASE n # 0
    <3>1. [applied[o] EXCEPT ![n] = @ + 1] \in [1..MaxEvents -> Nat]
      <4>1. applied[o] \in [1..MaxEvents -> Nat] /\ n \in 1..MaxEvents
        BY <1>1, <2>2, BillingAssumption DEF BillingInv, BillingShape
      <4>2. QED
        BY <4>1, CountedUp
    <3>2. applied' = [applied EXCEPT ![o] = [applied[o] EXCEPT ![n] = @ + 1]]
      BY <1>2, <2>2
    <3>3. QED
      BY <3>1, <3>2 DEF BillingInv, BillingShape
  <2>3. QED
    BY <2>1, <2>2
<1>7. BillingShape'
  BY <1>1, <1>2, <1>3, <1>4, <1>6 DEF BillingShape, BillingInv
<1>8. \A q \in Requests, p \in Owners, m \in 1..MaxEvents : Carries(q, p, m)' <=> Carries(q, p, m)
  BY <1>1, <1>3, <1>4 DEF Carries
<1>9. n \in 1..MaxEvents => Carries(r, o, n) /\ applied[o][n] = 0 /\ n \in processed[o]
  BY <1>1 DEF Carries, OneCarrier, Uncarried, BillingInv
<1>10. OneCarrier'
  BY <1>2, <1>8 DEF OneCarrier, BillingInv
<1>11. Uncarried'
  <2>1. \A p \in Owners, m \in 1..MaxEvents :
          applied'[p][m] <= 1 /\ (applied'[p][m] > 0 => m \in processed'[p])
    BY <1>2, <1>5, <1>9 DEF Uncarried, BillingInv, BillingShape
  <2>2. ASSUME NEW p \in Owners, NEW m \in 1..MaxEvents, NEW q \in Requests,
               Carries(q, p, m)', request'[q].pc \in {"get", "save"}
        PROVE  applied'[p][m] = 0
    <3>1. q # r /\ request'[q] = request[q] /\ Carries(q, p, m)
      BY <2>2, <1>3, <1>4, <1>8
    <3>2. ~(p = o /\ m = n)
      BY <3>1, <1>9 DEF OneCarrier, BillingInv
    <3>3. QED
      BY <2>2, <3>1, <3>2, <1>5 DEF Uncarried, BillingInv
  <2>3. QED
    BY <2>1, <2>2 DEF Uncarried
<1>12. Audited'
  <2>1. SUFFICES ASSUME crashes' = 0, NEW p \in Owners, NEW m \in 1..MaxEvents, applied'[p][m] > 0
                 PROVE  \/ InTrail(p, m)'
                        \/ \E q \in Requests : Carries(q, p, m)' /\ request'[q].pc = "audit"
    BY DEF Audited
  <2>2. CASE p = o /\ m = n
    BY <2>2, <1>4, <1>8, <1>9
  <2>3. CASE ~(p = o /\ m = n)
    <3>1. InTrail(p, m) \/ \E q \in Requests : Carries(q, p, m) /\ request[q].pc = "audit"
      BY <2>1, <2>3, <1>2, <1>5 DEF Audited, BillingInv
    <3>2. QED
      BY <3>1, <1>1, <1>2, <1>3, <1>8 DEF InTrail
  <2>4. QED
    BY <2>2, <2>3
<1>13. QED
  BY <1>7, <1>10, <1>11, <1>12 DEF BillingInv

\* The audit row takes over from the carrier.
LEMMA AuditStep ==
  ASSUME BillingInv, NEW r \in Requests, ApplyAudit(r)
  PROVE  BillingInv'
<1> DEFINE o == request[r].owner
           n == request[r].event
<1>1. o \in Owners /\ n \in 0..MaxEvents /\ request[r].pc = "audit"
  BY DEF ApplyAudit, BillingInv, BillingShape
<1>2. /\ request' = [request EXCEPT ![r] = Free]
      /\ trail' = [trail EXCEPT ![o] = Append(@, n)]
      /\ UNCHANGED <<processed, applied, crashes>>
      /\ answered' = IF n = 0 THEN answered ELSE [answered EXCEPT ![o] = @ \cup {n}]
  BY DEF ApplyAudit
<1>3. request'[r] = Free /\ \A q \in Requests \ {r} : request'[q] = request[q]
  BY <1>2 DEF BillingInv, BillingShape
<1>4. trail[o] \in Seq(0..MaxEvents) /\ trail'[o] = Append(trail[o], n)
      /\ \A p \in Owners \ {o} : trail'[p] = trail[p]
  BY <1>1, <1>2 DEF BillingInv, BillingShape
<1>5. /\ DOMAIN trail[o] = 1..Len(trail[o]) /\ DOMAIN trail'[o] = 1..(Len(trail[o]) + 1)
      /\ Len(trail[o]) \in Nat
      /\ trail'[o] \in Seq(0..MaxEvents)
      /\ \A i \in DOMAIN trail[o] : trail'[o][i] = trail[o][i]
      /\ trail'[o][Len(trail[o]) + 1] = n
  BY <1>1, <1>4
<1>6. /\ \E i \in DOMAIN trail'[o] : trail'[o][i] = n
      /\ \A m \in 1..MaxEvents : InTrail(o, m) => \E i \in DOMAIN trail'[o] : trail'[o][i] = m
  <2>1. Len(trail[o]) + 1 \in DOMAIN trail'[o] /\ DOMAIN trail[o] \subseteq DOMAIN trail'[o]
    BY <1>5
  <2>2. \E i \in DOMAIN trail'[o] : trail'[o][i] = n
    BY <2>1, <1>5
  <2>3. ASSUME NEW m \in 1..MaxEvents, InTrail(o, m)
        PROVE  \E i \in DOMAIN trail'[o] : trail'[o][i] = m
    BY <2>1, <2>3, <1>5 DEF InTrail
  <2>4. QED
    BY <2>2, <2>3
<1>7. BillingShape'
  <2>1. answered' \in [Owners -> SUBSET (1..MaxEvents)]
    BY <1>1, <1>2 DEF BillingInv, BillingShape
  <2>2. trail' \in [Owners -> Seq(0..MaxEvents)]
    BY <1>2, <1>5 DEF BillingInv, BillingShape
  <2>3. /\ DOMAIN request' = Requests
        /\ \A q \in Requests : request'[q] = IF q = r THEN Free ELSE request[q]
    BY <1>2 DEF BillingInv, BillingShape
  <2>4. \A q \in Requests :
          /\ request'[q] = [pc |-> request'[q].pc, owner |-> request'[q].owner,
                            event |-> request'[q].event, old |-> request'[q].old]
          /\ request'[q].event \in 0..MaxEvents
          /\ request'[q].pc \in {"idle", "mark", "get", "save", "audit"}
          /\ request'[q].pc # "idle" => request'[q].owner \in Owners
          /\ request'[q].pc = "mark" => request'[q].event \in 1..MaxEvents
    BY <2>3, BillingAssumption DEF BillingInv, BillingShape, Free
  <2>5. QED
    BY <1>2, <2>1, <2>2, <2>3, <2>4 DEF BillingInv, BillingShape
<1>8. \A q \in Requests, p \in Owners, m \in 1..MaxEvents :
        Carries(q, p, m)' => Carries(q, p, m) /\ request'[q].pc = request[q].pc
  BY <1>3 DEF Carries, Free
<1>9. OneCarrier' /\ Uncarried'
  BY <1>2, <1>8 DEF OneCarrier, Uncarried, BillingInv
<1>10. Audited'
  <2>1. SUFFICES ASSUME crashes' = 0, NEW p \in Owners, NEW m \in 1..MaxEvents, applied'[p][m] > 0
                 PROVE  \/ InTrail(p, m)'
                        \/ \E q \in Requests : Carries(q, p, m)' /\ request'[q].pc = "audit"
    BY DEF Audited
  <2>2. InTrail(p, m) \/ \E q \in Requests : Carries(q, p, m) /\ request[q].pc = "audit"
    BY <2>1, <1>2 DEF Audited, BillingInv
  <2>3. CASE InTrail(p, m)
    <3>1. CASE p = o
      BY <3>1, <2>3, <1>6 DEF InTrail
    <3>2. CASE p # o
      BY <3>2, <2>3, <1>4 DEF InTrail
    <3>3. QED
      BY <3>1, <3>2
  <2>4. ASSUME NEW q \in Requests, Carries(q, p, m), request[q].pc = "audit"
        PROVE  InTrail(p, m)' \/ (Carries(q, p, m)' /\ request'[q].pc = "audit")
    <3>1. CASE q = r
      BY <3>1, <2>4, <1>6 DEF Carries, InTrail
    <3>2. CASE q # r
      BY <3>2, <2>4, <1>3 DEF Carries
    <3>3. QED
      BY <3>1, <3>2
  <2>5. QED
    BY <2>2, <2>3, <2>4
<1>11. QED
  BY <1>7, <1>9, <1>10 DEF BillingInv

LEMMA BillingNextPreserves == BillingInv /\ [BillingNext]_billingVars => BillingInv'
<1> SUFFICES ASSUME BillingInv, [BillingNext]_billingVars PROVE BillingInv'
  OBVIOUS
<1> USE BillingAssumption
<1>0. UNCHANGED <<request, applied, processed, trail, answered, crashes>> => BillingInv'
  <2>1. SUFFICES ASSUME UNCHANGED <<request, applied, processed, trail, answered, crashes>>
                 PROVE  BillingInv'
    OBVIOUS
  <2>2. /\ \A r \in Requests, o \in Owners, n \in 1..MaxEvents :
             Carries(r, o, n)' <=> Carries(r, o, n)
        /\ \A o \in Owners, n \in 1..MaxEvents : InTrail(o, n)' <=> InTrail(o, n)
    BY <2>1 DEF Carries, InTrail
  <2>3. BillingShape'
    BY <2>1 DEF BillingInv, BillingShape
  <2>4. OneCarrier' /\ Uncarried'
    BY <2>1, <2>2 DEF BillingInv, OneCarrier, Uncarried
  <2>5. Audited'
    BY <2>1, <2>2 DEF BillingInv, Audited
  <2>6. QED
    BY <2>3, <2>4, <2>5 DEF BillingInv
<1>1. ASSUME NEW o \in Owners, ProviderStep(o) PROVE BillingInv'
  BY <1>0, <1>1 DEF ProviderStep
<1>2. ASSUME NEW o \in Owners, NEW plan \in Plans, AdminSetPlan(o, plan) PROVE BillingInv'
  BY <1>0, <1>2 DEF AdminSetPlan
<1>3. ASSUME NEW r \in Requests, NEW o \in Owners, NEW n \in 1..MaxEvents, Deliver(r, o, n)
      PROVE  BillingInv'
  <2>1. request' = [request EXCEPT ![r] = [pc |-> "mark", owner |-> o, event |-> n, old |-> NoSub]]
        /\ UNCHANGED <<applied, processed, trail, answered, crashes>> /\ request[r].pc = "idle"
    BY <1>3 DEF Deliver
  <2>2. BillingShape'
    BY <2>1 DEF BillingShape, BillingInv
  <2>3. QED
    BY <2>1, <2>2, QuietStep DEF BillingInv, BillingShape
<1>4. ASSUME NEW r \in Requests, NEW o \in Owners, Cancel(r, o)
      PROVE  BillingInv'
  <2>1. request' = [request EXCEPT ![r] = [pc |-> "get", owner |-> o, event |-> 0, old |-> NoSub]]
        /\ UNCHANGED <<applied, processed, trail, answered, crashes>> /\ request[r].pc = "idle"
    BY <1>4 DEF Cancel
  <2>2. BillingShape'
    BY <2>1 DEF BillingShape, BillingInv
  <2>3. QED
    BY <2>1, <2>2, QuietStep DEF BillingInv, BillingShape
<1>5. ASSUME NEW r \in Requests, ApplyGet(r) PROVE BillingInv'
  <2>1. request[r].pc = "get" /\ UNCHANGED <<applied, processed, trail, answered, crashes>>
        /\ request' = [request EXCEPT ![r].pc = "save", ![r].old = sub[request[r].owner]]
    BY <1>5 DEF ApplyGet
  <2>2. /\ request'[r] = [request[r] EXCEPT !.pc = "save", !.old = sub[request[r].owner]]
        /\ \A q \in Requests \ {r} : request'[q] = request[q]
    BY <2>1 DEF BillingInv, BillingShape
  <2>3. /\ request'[r].pc = "save" /\ request'[r].owner = request[r].owner
        /\ request'[r].event = request[r].event
        /\ request'[r] = [pc |-> "save", owner |-> request[r].owner, event |-> request[r].event,
                          old |-> sub[request[r].owner]]
    BY <2>2 DEF BillingInv, BillingShape
  <2>4. BillingShape'
    BY <2>1, <2>2, <2>3 DEF BillingShape, BillingInv
  <2>5. QED
    BY <2>1, <2>2, <2>3, <2>4, QuietStep
<1>6. ASSUME NEW r \in Requests, Cut(r) PROVE BillingInv'
  <2>1. request' = [request EXCEPT ![r] = Free] /\ crashes' = crashes + 1
        /\ UNCHANGED <<applied, processed, trail, answered>>
    BY <1>6 DEF Cut
  <2>2. BillingShape' /\ crashes' # 0
    BY <2>1 DEF BillingShape, BillingInv, Free
  <2>3. QED
    BY <2>1, <2>2, QuietStep DEF BillingInv, BillingShape, Free
<1>7. CASE UNCHANGED billingVars
  BY <1>0, <1>7 DEF billingVars
<1>8. QED
  BY <1>1, <1>2, <1>3, <1>4, <1>5, <1>6, <1>7, MarkStep, SaveStep, AuditStep DEF BillingNext

\* An event changes the subscription at most once, and its change is in the audit
\* trail unless its request was cut short (POST /api/billing/webhook, server.ts):
\* for any owners, concurrent requests, events and cuts.
THEOREM EventsApplyOnce == BillingSpec => []AppliedOnceAndAudited
<1>1. BillingInv => AppliedOnceAndAudited
  <2>1. SUFFICES ASSUME BillingInv, NEW o \in Owners
                 PROVE  /\ \A n \in 1..MaxEvents : applied[o][n] <= 1
                        /\ \A n \in answered[o] :
                             applied[o][n] > 0 /\ crashes = 0
                               /\ (\A r \in Requests : request[r].owner # o)
                               => \E i \in DOMAIN trail[o] : trail[o][i] = n
    BY DEF AppliedOnceAndAudited
  <2>2. answered[o] \subseteq 1..MaxEvents
    BY <2>1 DEF BillingInv, BillingShape
  <2>3. QED
    BY <2>1, <2>2 DEF BillingInv, Uncarried, Audited, InTrail, Carries
<1>2. QED
  BY <1>1, BillingStarts, BillingNextPreserves, PTL DEF BillingSpec

-----------------------------------------------------------------------------
(* What is paid for.  While the events of an owner come one at a time, the *)
(* answered ones are the first k, and nobody handles another than the next *)
(* one (InTurn); so the stored subscription follows the last event applied, *)
(* unless one was marked and lost (Stored).                                *)

\* Owner o is one that the property speaks of: its events come one at a time, and only they
\* write its subscription.
Plain(o) == serial[o] /\ o \notin waived

\* Every event that was marked is applied, or its carrier is on the way to apply it.
NoneLost(o) ==
  \A n \in processed[o] :
    \/ applied[o][n] > 0
    \/ \E r \in Requests : Carries(r, o, n) /\ request[r].pc \in {"get", "save"}

\* The provider runs a subscription exactly from a created event to a canceled one.
ProviderFollows(o) ==
  /\ events[o] = <<>> => provider[o] = "none"
  /\ events[o] # <<>> =>
       /\ events[o][1] = "created"
       /\ provider[o] = IF events[o][Len(events[o])] = "canceled" THEN "ended" ELSE "active"

\* The first k events are answered, and nobody handles any event but the next one.
InTurn(o, k) ==
  /\ k \in 0..Len(events[o]) /\ answered[o] = 1..k
  /\ processed[o] = 1..k \/ (k < Len(events[o]) /\ processed[o] = 1..(k + 1))
  /\ \A r \in Requests : request[r].owner = o => request[r].event = k + 1 /\ k < Len(events[o])
  /\ \A r, q \in Requests : request[r].owner = o /\ request[q].owner = o => r = q

\* What is stored says what the last event applied says, unless an event was lost.
Stored(o) ==
  /\ \A r \in Requests :
       request[r].owner = o /\ request[r].pc = "save" => request[r].old = sub[o]
  /\ (\A n \in 1..MaxEvents : applied[o][n] = 0) => ~sub[o].active
  /\ \A m \in 1..Len(events[o]) :
       NoneLost(o) /\ applied[o][m] > 0
           /\ (\A n \in 1..MaxEvents : applied[o][n] > 0 => n <= m)
         => sub[o].plan = "pro" /\ sub[o].active = (events[o][m] # "canceled")

PaidTyping ==
  /\ events \in [Owners -> Seq(Types)] /\ DOMAIN sub = Owners /\ DOMAIN provider = Owners
  /\ \A o \in Owners : Len(events[o]) <= MaxEvents
  /\ \A r \in Requests : request[r].pc = "idle" => request[r].owner = NoOwner

Paid(o) ==
  Plain(o) => ProviderFollows(o) /\ (\E k \in Nat : InTurn(o, k)) /\ Stored(o)

PaidInv == BillingInv /\ PaidTyping /\ \A o \in Owners : Paid(o)

LEMMA PaidStarts == BillingInit => PaidInv
<1> SUFFICES ASSUME BillingInit PROVE PaidInv
  OBVIOUS
<1>1. BillingInv
  BY BillingStarts
<1>2. \A r \in Requests : request[r].pc = "idle" /\ request[r].owner = NoOwner
  BY DEF BillingInit, Free
<1>3. PaidTyping
  <2>1. <<>> \in Seq(Types) /\ Len(<<>>) = 0
    OBVIOUS
  <2> QED
    BY <1>2, <2>1, BillingAssumption DEF PaidTyping, BillingInit
<1>4. ASSUME NEW o \in Owners
      PROVE  Paid(o)
  <2>1. /\ events[o] = <<>> /\ provider[o] = "none" /\ answered[o] = {} /\ processed[o] = {}
        /\ sub[o] = NoSub
    BY DEF BillingInit
  <2>2. InTurn(o, 0)
    BY <1>2, <2>1, BillingAssumption DEF InTurn
  <2>3. Stored(o)
    BY <1>2, <2>1 DEF Stored, NoSub
  <2>4. ProviderFollows(o)
    BY <2>1 DEF ProviderFollows
  <2> QED
    BY <2>2, <2>3, <2>4 DEF Paid
<1> QED
  BY <1>1, <1>3, <1>4 DEF PaidInv

\* A step that concerns another owner.
Untouched(p) ==
  /\ serial'[p] = serial[p] /\ (p \in waived => p \in waived')
  /\ provider'[p] = provider[p] /\ events'[p] = events[p] /\ answered'[p] = answered[p]
  /\ processed'[p] = processed[p] /\ sub'[p] = sub[p] /\ applied'[p] = applied[p]
  /\ \A q \in Requests :
       request'[q].owner = p \/ request[q].owner = p => request'[q] = request[q]

LEMMA UntouchedStaysPaid ==
  ASSUME NEW p \in Owners, Paid(p), Untouched(p)
  PROVE  Paid(p)'
<1>1. Plain(p)' => Plain(p)
  BY DEF Plain, Untouched
<1>2. NoneLost(p)' => NoneLost(p)
  BY DEF NoneLost, Untouched, Carries
<1>3. ProviderFollows(p) => ProviderFollows(p)'
  BY DEF ProviderFollows, Untouched
<1>4. ASSUME NEW k \in Nat, InTurn(p, k)
      PROVE  InTurn(p, k)'
  BY <1>4 DEF InTurn, Untouched
<1>5. Stored(p) => Stored(p)'
  BY <1>2 DEF Stored, Untouched
<1> QED
  BY <1>1, <1>3, <1>4, <1>5 DEF Paid

\* A step that writes neither the subscription nor what is applied.
LEMMA StoredStays ==
  ASSUME NEW o \in Owners, Stored(o), events'[o] = events[o], sub'[o] = sub[o],
         applied'[o] = applied[o], NoneLost(o)' => NoneLost(o),
         \A r \in Requests : request'[r].owner = o /\ request'[r].pc = "save" =>
                               request'[r].old = sub[o]
  PROVE  Stored(o)'
BY DEF Stored

\* What is applied was marked, and what was marked was issued.
LEMMA AppliedWasIssued ==
  ASSUME PaidInv, NEW o \in Owners, NEW k \in Nat, InTurn(o, k), NEW n \in 1..MaxEvents,
         applied[o][n] > 0
  PROVE  n \in processed[o] /\ n \in 1..Len(events[o]) /\ n <= k + 1
<1>1. n \in processed[o]
  BY DEF PaidInv, BillingInv, Uncarried
<1>2. Len(events[o]) \in Nat
  BY DEF PaidInv, PaidTyping
<1> QED
  BY <1>1, <1>2 DEF InTurn

LEMMA ProviderStepPaid ==
  ASSUME PaidInv, NEW o \in Owners, ProviderStep(o), Plain(o)
  PROVE  Paid(o)'
<1>1. PICK from, to, type : Issue(o, from, to, type)
                            /\ \/ type = "created" /\ from = {"none", "ended"} /\ to = "active"
                               \/ type = "updated" /\ from = {"active"} /\ to = "active"
                               \/ type = "canceled" /\ from = {"active", "ending"} /\ to = "ended"
  BY DEF ProviderStep
<1>2. /\ ProviderFollows(o) /\ Stored(o) /\ events[o] \in Seq(Types)
      /\ DOMAIN provider = Owners /\ DOMAIN events = Owners
  BY DEF PaidInv, PaidTyping, Paid
<1>3. PICK k \in Nat : InTurn(o, k)
  BY DEF PaidInv, Paid
<1>4. /\ provider[o] \in from /\ provider'[o] = to /\ events'[o] = Append(events[o], type)
      /\ UNCHANGED <<answered, processed, sub, request, applied>>
  BY <1>1, <1>2 DEF Issue, ProviderStep
<1>5. PICK n \in Nat : n = Len(events[o])
  BY <1>2
<1>6. type \in Types
  BY <1>1 DEF Types
<1>7. /\ Len(events'[o]) = n + 1 /\ events'[o][n + 1] = type /\ events'[o] # <<>>
      /\ \A m \in 1..n : events'[o][m] = events[o][m]
  <2>1. \A s \in Seq(Types) : /\ Len(Append(s, type)) = Len(s) + 1
                              /\ Append(s, type)[Len(s) + 1] = type /\ Append(s, type) # <<>>
                              /\ \A m \in 1..Len(s) : Append(s, type)[m] = s[m]
    BY ONLY <1>6
  <2> QED
    BY ONLY <1>2, <1>4, <1>5, <2>1
<1>8. ProviderFollows(o)'
  <2>1. provider'[o] = IF type = "canceled" THEN "ended" ELSE "active"
    BY <1>1, <1>4
  <2>2. events'[o][1] = "created"
    <3>1. CASE n = 0
      <4>1. events[o] = <<>>
        BY <1>2, <1>5, <3>1, EmptySeq
      <4> QED
        BY <1>1, <1>2, <1>4, <1>7, <3>1, <4>1 DEF ProviderFollows
    <3>2. CASE n # 0
      <4>1. events[o] # <<>> /\ 1 \in 1..n
        BY <1>2, <1>5, <3>2
      <4> QED
        BY <1>2, <1>7, <4>1 DEF ProviderFollows
    <3> QED
      BY <3>1, <3>2
  <2> QED
    BY <1>7, <2>1, <2>2 DEF ProviderFollows
<1>9. InTurn(o, k)'
  <2>1. k <= n /\ k \in 0..(n + 1)
    BY <1>3, <1>5 DEF InTurn
  <2>2. \A r \in Requests : request[r].owner = o => request[r].event = k + 1
    BY <1>3 DEF InTurn
  <2> QED
    BY <1>3, <1>4, <1>5, <1>7, <2>1, <2>2 DEF InTurn
<1>10. Stored(o)'
  <2>1. NoneLost(o)' <=> NoneLost(o)
    BY <1>4 DEF NoneLost, Carries
  <2>2. Len(events'[o]) <= MaxEvents
    BY <1>1, <1>5, <1>7, BillingAssumption DEF Issue
  <2>3. ASSUME NEW m \in 1..(n + 1), NoneLost(o)', applied[o][m] > 0,
               \A i \in 1..MaxEvents : applied[o][i] > 0 => i <= m
        PROVE  sub[o].plan = "pro" /\ sub[o].active = (events'[o][m] # "canceled")
    <3>1. m \in 1..MaxEvents
      BY <1>7, <2>2, BillingAssumption
    <3>2. m \in 1..n
      BY <1>3, <1>5, <2>3, <3>1, AppliedWasIssued
    <3> QED
      BY <1>2, <1>5, <1>7, <2>1, <2>3, <3>2 DEF Stored
  <2> QED
    BY <1>2, <1>4, <1>7, <2>3 DEF Stored
<1> QED
  BY <1>8, <1>9, <1>10 DEF Paid

LEMMA DeliverPaid ==
  ASSUME PaidInv, NEW r \in Requests, NEW o \in Owners, NEW n \in 1..MaxEvents,
         Deliver(r, o, n), Plain(o)
  PROVE  Paid(o)'
<1>1. ProviderFollows(o) /\ Stored(o) /\ Len(events[o]) \in Nat
  BY DEF PaidInv, PaidTyping, Paid
<1>2. PICK k \in Nat : InTurn(o, k)
  BY DEF PaidInv, Paid
<1>3. /\ request[r].pc = "idle" /\ n \in 1..Len(events[o]) \ answered[o]
      /\ 1..(n - 1) \subseteq answered[o] /\ \A q \in Requests : request[q].owner # o
      /\ UNCHANGED <<provider, events, answered, processed, sub, applied>>
  BY DEF Deliver, Plain
<1>4. /\ request'[r].pc = "mark" /\ request'[r].owner = o /\ request'[r].event = n
      /\ \A q \in Requests \ {r} : request'[q] = request[q]
  BY DEF Deliver, PaidInv, BillingInv, BillingShape
<1>5. n = k + 1 /\ k < Len(events[o])
  <2>1. answered[o] = 1..k
    BY <1>2 DEF InTurn
  <2>2. n > k
    BY <1>3, <2>1
  <2>3. n - 1 <= k
    <3>1. CASE n = 1
      BY <3>1
    <3>2. CASE n # 1
      <4>1. n - 1 \in 1..(n - 1)
        BY <1>3, <3>2
      <4> QED
        BY <1>3, <2>1, <4>1
    <3> QED
      BY <3>1, <3>2
  <2> QED
    BY <1>1, <1>3, <2>2, <2>3
<1>6. ProviderFollows(o)'
  BY <1>1, <1>3 DEF ProviderFollows
<1>7. InTurn(o, k)'
  <2>1. \A q \in Requests : request'[q].owner = o => q = r
    BY <1>3, <1>4
  <2> QED
    BY <1>2, <1>3, <1>4, <1>5, <2>1 DEF InTurn
<1>8. NoneLost(o)' => NoneLost(o)
  BY <1>3, <1>4 DEF NoneLost, Carries
<1>9. Stored(o)'
  BY <1>1, <1>3, <1>4, <1>8, StoredStays
<1> QED
  BY <1>6, <1>7, <1>9 DEF Paid

\* What a request of a plain owner handles is the event after the answered ones.
LEMMA PlainRequest ==
  ASSUME PaidInv, NEW r \in Requests, NEW o \in Owners, request[r].owner = o, Plain(o)
  PROVE  /\ ProviderFollows(o) /\ Stored(o) /\ Len(events[o]) \in Nat
         /\ \E k \in Nat : /\ InTurn(o, k) /\ request[r].event = k + 1
                           /\ k + 1 \in 1..MaxEvents /\ k + 1 <= Len(events[o])
         /\ \A q \in Requests \ {r} : request[q].owner # o
<1>1. ProviderFollows(o) /\ Stored(o) /\ Len(events[o]) \in Nat /\ Len(events[o]) <= MaxEvents
  BY DEF PaidInv, PaidTyping, Paid
<1>2. PICK k \in Nat : InTurn(o, k)
  BY DEF PaidInv, Paid
<1>3. request[r].event = k + 1 /\ k < Len(events[o])
  BY <1>2 DEF InTurn
<1>4. k + 1 \in 1..MaxEvents /\ k + 1 <= Len(events[o])
  BY <1>1, <1>3, BillingAssumption
<1>5. \A q \in Requests \ {r} : request[q].owner # o
  BY <1>2 DEF InTurn
<1> QED
  BY <1>1, <1>2, <1>3, <1>4, <1>5

\* The handler moves on; the event stays marked or not.
LEMMA HandlerStepPaid ==
  ASSUME PaidInv, NEW r \in Requests, NEW o \in Owners, request[r].owner = o, Plain(o),
         \A q \in Requests \ {r} : request'[q] = request[q],
         UNCHANGED <<provider, events, answered, sub, applied>>,
         \/ request'[r].owner = NoOwner
         \/ /\ request'[r].owner = o /\ request'[r].event = request[r].event
            /\ request'[r].pc = "save" => request'[r].old = sub[o],
         processed'[o] = processed[o] \/ processed'[o] = processed[o] \cup {request[r].event},
         NoneLost(o)' => NoneLost(o)
  PROVE  Paid(o)'
<1>1. /\ ProviderFollows(o) /\ Stored(o) /\ \A q \in Requests \ {r} : request[q].owner # o
      /\ Len(events[o]) \in Nat
  BY PlainRequest
<1>2. PICK k \in Nat : InTurn(o, k) /\ request[r].event = k + 1 /\ k + 1 <= Len(events[o])
  BY PlainRequest
<1>3. ProviderFollows(o)'
  BY <1>1 DEF ProviderFollows
<1>4. \A q \in Requests : request'[q].owner = o =>
        q = r /\ request'[q].event = k + 1 /\ (request'[q].pc = "save" => request'[q].old = sub[o])
  BY <1>1, <1>2, BillingAssumption
<1>5. processed'[o] = 1..k \/ processed'[o] = 1..(k + 1)
  <2>1. processed[o] = 1..k \/ processed[o] = 1..(k + 1)
    BY <1>2 DEF InTurn
  <2>2. (1..k) \cup {k + 1} = 1..(k + 1) /\ (1..(k + 1)) \cup {k + 1} = 1..(k + 1)
    OBVIOUS
  <2> QED
    BY <1>2, <2>1, <2>2
<1>6. InTurn(o, k)'
  <2>1. k < Len(events[o])
    BY <1>1, <1>2
  <2> QED
    BY <1>2, <1>4, <1>5, <2>1 DEF InTurn
<1>7. Stored(o)'
  BY <1>1, <1>4, StoredStays
<1> QED
  BY <1>3, <1>6, <1>7 DEF Paid

\* The handler has answered: the event joins the answered ones, and was marked before.
LEMMA AnsweredStepPaid ==
  ASSUME PaidInv, NEW r \in Requests, NEW o \in Owners, request[r].owner = o, Plain(o),
         \A q \in Requests \ {r} : request'[q] = request[q], request'[r] = Free,
         UNCHANGED <<provider, events, processed, sub, applied>>,
         request[r].event \in processed[o],
         answered'[o] = answered[o] \cup {request[r].event}
  PROVE  Paid(o)'
<1>1. /\ ProviderFollows(o) /\ Stored(o) /\ \A q \in Requests \ {r} : request[q].owner # o
      /\ Len(events[o]) \in Nat
  BY PlainRequest
<1>2. PICK k \in Nat : InTurn(o, k) /\ request[r].event = k + 1 /\ k + 1 <= Len(events[o])
  BY PlainRequest
<1>3. ProviderFollows(o)'
  BY <1>1 DEF ProviderFollows
<1>4. \A q \in Requests : request'[q].owner # o
  BY <1>1, BillingAssumption DEF Free
<1>5. processed[o] = 1..(k + 1) /\ answered'[o] = 1..(k + 1)
  <2>1. (1..k) \cup {k + 1} = 1..(k + 1) /\ k + 1 \notin 1..k
    OBVIOUS
  <2> QED
    BY <1>2, <2>1 DEF InTurn
<1>6. InTurn(o, k + 1)'
  BY <1>1, <1>2, <1>4, <1>5 DEF InTurn
<1>7. NoneLost(o)' => NoneLost(o)
  BY <1>4 DEF NoneLost, Carries
<1>8. Stored(o)'
  BY <1>1, <1>4, <1>7, StoredStays
<1> QED
  BY <1>3, <1>6, <1>8 DEF Paid

LEMMA MarkPaid ==
  ASSUME PaidInv, NEW r \in Requests, NEW o \in Owners, request[r].owner = o, Plain(o), Mark(r)
  PROVE  Paid(o)'
<1>1. /\ request[r].pc = "mark" /\ UNCHANGED <<provider, events, sub, applied>>
      /\ DOMAIN request = Requests /\ DOMAIN answered = Owners /\ DOMAIN processed = Owners
  BY DEF Mark, PaidInv, BillingInv, BillingShape
<1>2. PICK n \in 1..MaxEvents : n = request[r].event
  BY PlainRequest
<1>3. CASE n \in processed[o]
  <2>1. /\ request'[r] = Free /\ \A q \in Requests \ {r} : request'[q] = request[q]
        /\ UNCHANGED processed /\ answered'[o] = answered[o] \cup {n}
    BY <1>1, <1>2, <1>3 DEF Mark
  <2> QED
    BY <1>1, <1>2, <1>3, <2>1, AnsweredStepPaid
<1>4. CASE n \notin processed[o]
  <2>1. /\ request' = [request EXCEPT ![r].pc = "get"]
        /\ processed'[o] = processed[o] \cup {n} /\ UNCHANGED answered
    BY <1>1, <1>2, <1>4 DEF Mark
  <2>2. request[r] = [pc |-> request[r].pc, owner |-> request[r].owner,
                      event |-> request[r].event, old |-> request[r].old]
    BY DEF PaidInv, BillingInv, BillingShape
  <2>3. /\ request'[r].pc = "get" /\ request'[r].owner = o /\ request'[r].event = n
        /\ \A q \in Requests \ {r} : request'[q] = request[q]
    BY <1>1, <1>2, <2>1, <2>2
  <2>4. NoneLost(o)' => NoneLost(o)
    <3>1. ASSUME NoneLost(o)', NEW m \in processed[o], ~(applied[o][m] > 0)
          PROVE  \E q \in Requests : Carries(q, o, m) /\ request[q].pc \in {"get", "save"}
      <4>1. m \in processed'[o]
        BY <2>1
      <4>2. PICK q \in Requests : Carries(q, o, m)' /\ request'[q].pc \in {"get", "save"}
        BY <1>1, <3>1, <4>1 DEF NoneLost
      <4>3. q # r
        BY <1>4, <2>3, <4>2 DEF Carries
      <4> QED
        BY <2>3, <4>2, <4>3 DEF Carries
    <3> QED
      BY <3>1 DEF NoneLost
  <2> QED
    BY <1>1, <1>2, <2>1, <2>3, <2>4, HandlerStepPaid
<1> QED
  BY <1>3, <1>4

LEMMA ApplyGetPaid ==
  ASSUME PaidInv, NEW r \in Requests, NEW o \in Owners, request[r].owner = o, Plain(o),
         ApplyGet(r)
  PROVE  Paid(o)'
<1>1. /\ request[r].pc = "get" /\ UNCHANGED <<provider, events, answered, processed, sub, applied>>
      /\ request' = [request EXCEPT ![r].pc = "save", ![r].old = sub[o]]
      /\ DOMAIN request = Requests
  BY DEF ApplyGet, PaidInv, BillingInv, BillingShape
<1>2. request[r] = [pc |-> request[r].pc, owner |-> request[r].owner,
                    event |-> request[r].event, old |-> request[r].old]
  BY DEF PaidInv, BillingInv, BillingShape
<1>3. /\ request'[r].pc = "save" /\ request'[r].owner = o /\ request'[r].old = sub[o]
      /\ request'[r].event = request[r].event
      /\ \A q \in Requests \ {r} : request'[q] = request[q]
  BY <1>1, <1>2
<1>4. NoneLost(o)' => NoneLost(o)
  <2>1. ASSUME NEW m, NEW q \in Requests, Carries(q, o, m)', request'[q].pc \in {"get", "save"}
        PROVE  Carries(q, o, m) /\ request[q].pc \in {"get", "save"}
    BY <1>1, <1>3, <2>1 DEF Carries
  <2> QED
    BY <1>1, <2>1 DEF NoneLost
<1> QED
  BY <1>1, <1>3, <1>4, HandlerStepPaid

\* The event that is applied is the one after the last applied, or another was lost.
LEMMA ApplySavePaid ==
  ASSUME PaidInv, NEW r \in Requests, NEW o \in Owners, request[r].owner = o, Plain(o),
         ApplySave(r)
  PROVE  Paid(o)'
<1>1. /\ request[r].pc = "save" /\ UNCHANGED <<provider, events, answered, processed>>
      /\ request' = [request EXCEPT ![r].pc = "audit"] /\ sub' = [sub EXCEPT ![o] = Merged(r)]
      /\ DOMAIN request = Requests /\ DOMAIN sub = Owners
      /\ applied \in [Owners -> [1..MaxEvents -> Nat]]
  BY DEF ApplySave, PaidInv, PaidTyping, BillingInv, BillingShape
<1>2. /\ ProviderFollows(o) /\ Stored(o) /\ Len(events[o]) \in Nat
      /\ \A q \in Requests \ {r} : request[q].owner # o
  BY PlainRequest
<1>3. PICK k \in Nat : /\ InTurn(o, k) /\ request[r].event = k + 1
                       /\ k + 1 \in 1..MaxEvents /\ k + 1 <= Len(events[o])
  BY PlainRequest
<1>4. PICK n \in 1..MaxEvents : n = k + 1
  BY <1>3
<1>5. request[r] = [pc |-> request[r].pc, owner |-> request[r].owner,
                    event |-> request[r].event, old |-> request[r].old]
  BY DEF PaidInv, BillingInv, BillingShape
<1>6. /\ request'[r].pc = "audit" /\ request'[r].owner = o /\ request'[r].event = n
      /\ \A q \in Requests \ {r} : request'[q] = request[q]
  BY <1>1, <1>3, <1>4, <1>5
<1>7. applied' = [applied EXCEPT ![o][n] = @ + 1]
  BY <1>3, <1>4 DEF ApplySave
<1>8. /\ applied'[o][n] = applied[o][n] + 1
      /\ \A i \in 1..MaxEvents : i # n => applied'[o][i] = applied[o][i]
      /\ \A i \in 1..MaxEvents : applied[o][i] \in Nat
  BY <1>1, <1>7
<1>9. Carries(r, o, n) /\ applied[o][n] = 0 /\ n \in processed[o]
  BY <1>1, <1>3, <1>4 DEF Carries, PaidInv, BillingInv, OneCarrier, Uncarried
<1>10. ProviderFollows(o)'
  BY <1>1, <1>2 DEF ProviderFollows
<1>11. InTurn(o, k)'
  <2>1. \A q \in Requests : request'[q].owner = o => q = r
    BY <1>2, <1>6
  <2>2. k < Len(events[o])
    BY <1>2, <1>3
  <2> QED
    BY <1>1, <1>3, <1>4, <1>6, <2>1, <2>2 DEF InTurn
<1>12. NoneLost(o)' => NoneLost(o)
  <2>1. ASSUME NoneLost(o)', NEW m \in processed[o], ~(applied[o][m] > 0)
        PROVE  \E q \in Requests : Carries(q, o, m) /\ request[q].pc \in {"get", "save"}
    <3>1. CASE m = n
      BY <1>1, <1>9, <3>1
    <3>2. CASE m # n
      <4>1. m \in 1..MaxEvents
        BY DEF PaidInv, BillingInv, BillingShape
      <4>2. PICK q \in Requests : Carries(q, o, m)' /\ request'[q].pc \in {"get", "save"}
        BY <1>1, <1>8, <2>1, <3>2, <4>1 DEF NoneLost
      <4> QED
        BY <1>2, <1>6, <4>2 DEF Carries
    <3> QED
      BY <3>1, <3>2
  <2> QED
    BY <2>1 DEF NoneLost
<1>13. /\ sub'[o] = Merged(r) /\ TypeOf(r) = events[o][n]
       /\ request[r].old = sub[o]
  BY <1>1, <1>2, <1>3, <1>4 DEF TypeOf, Stored
<1>14. Merged(r).active = (events[o][n] # "canceled")
  BY <1>13 DEF Merged
<1>15. ASSUME NoneLost(o)
       PROVE  Merged(r).plan = "pro"
  <2>1. CASE k = 0
    <3>1. events[o] # <<>>
      BY <1>3, <1>4
    <3>2. events[o][n] = "created"
      BY <1>2, <1>4, <2>1, <3>1 DEF ProviderFollows
    <3> QED
      BY <1>13, <3>2 DEF Merged
  <2>2. CASE k # 0
    <3>1. k \in 1..MaxEvents /\ k \in processed[o] /\ k \in 1..Len(events[o])
      <4>1. k \in 1..k /\ k \in 1..(k + 1) /\ k \in 1..MaxEvents /\ k \in 1..Len(events[o])
        BY <1>2, <1>3, <2>2, BillingAssumption
      <4>2. processed[o] = 1..k \/ processed[o] = 1..(k + 1)
        BY <1>3 DEF InTurn
      <4> QED
        BY <4>1, <4>2
    <3>2. applied[o][k] > 0
      <4>1. \A q \in Requests : ~Carries(q, o, k)
        BY <1>2, <1>3 DEF Carries
      <4> QED
        BY <1>15, <3>1, <4>1 DEF NoneLost
    <3>3. \A i \in 1..MaxEvents : applied[o][i] > 0 => i <= k
      <4>1. ASSUME NEW i \in 1..MaxEvents, applied[o][i] > 0
            PROVE  i <= k
        <5>1. i <= k + 1 /\ i # n
          BY <1>3, <1>9, <4>1, AppliedWasIssued
        <5> QED
          BY <1>4, <5>1
      <4> QED
        BY <4>1
    <3>4. sub[o].plan = "pro"
      BY <1>2, <1>15, <3>1, <3>2, <3>3 DEF Stored
    <3> QED
      BY <1>13, <3>4 DEF Merged
  <2> QED
    BY <2>1, <2>2
<1>16. Stored(o)'
  <2>1. \A q \in Requests : request'[q].owner = o => request'[q].pc # "save"
    BY <1>2, <1>6
  <2>2. applied'[o][n] # 0 /\ applied'[o][n] > 0
    BY <1>8, <1>9
  <2>3. ASSUME NEW m \in 1..Len(events[o]), NoneLost(o)', applied'[o][m] > 0,
               \A i \in 1..MaxEvents : applied'[o][i] > 0 => i <= m
        PROVE  sub'[o].plan = "pro" /\ sub'[o].active = (events[o][m] # "canceled")
    <3>1. Len(events[o]) <= MaxEvents
      BY DEF PaidInv, PaidTyping
    <3>2. m \in 1..MaxEvents /\ n <= m
      BY <1>2, <2>2, <2>3, <3>1, BillingAssumption
    <3>3. m <= n
      <4>1. CASE m # n
        <5>1. applied[o][m] > 0
          BY <1>8, <2>3, <3>2, <4>1
        <5>2. m <= k + 1
          BY <1>3, <3>2, <5>1, AppliedWasIssued
        <5> QED
          BY <1>4, <5>2
      <4> QED
        BY <4>1
    <3>4. m = n
      BY <3>2, <3>3
    <3> QED
      BY <1>12, <1>13, <1>14, <1>15, <2>3, <3>4
  <2> QED
    BY <1>1, <2>1, <2>2, <2>3 DEF Stored
<1> QED
  BY <1>10, <1>11, <1>16 DEF Paid

LEMMA ApplyAuditPaid ==
  ASSUME PaidInv, NEW r \in Requests, NEW o \in Owners, request[r].owner = o, Plain(o),
         ApplyAudit(r)
  PROVE  Paid(o)'
<1>1. PICK n \in 1..MaxEvents : n = request[r].event
  BY PlainRequest
<1>2. /\ request[r].pc = "audit" /\ UNCHANGED <<provider, events, processed, sub, applied>>
      /\ request' = [request EXCEPT ![r] = Free]
      /\ answered' = [answered EXCEPT ![o] = @ \cup {n}]
      /\ DOMAIN request = Requests /\ DOMAIN answered = Owners
  BY <1>1 DEF ApplyAudit, PaidInv, BillingInv, BillingShape
<1>3. /\ request'[r] = Free /\ \A q \in Requests \ {r} : request'[q] = request[q]
      /\ answered'[o] = answered[o] \cup {n}
  BY <1>2
<1>4. n \in processed[o]
  BY <1>1, <1>2 DEF Carries, PaidInv, BillingInv, OneCarrier
<1> QED
  BY <1>1, <1>2, <1>3, <1>4, AnsweredStepPaid

LEMMA CutPaid ==
  ASSUME PaidInv, NEW r \in Requests, NEW o \in Owners, request[r].owner = o, Plain(o), Cut(r)
  PROVE  Paid(o)'
<1>1. /\ UNCHANGED <<provider, events, answered, processed, sub, applied>>
      /\ request'[r] = Free /\ \A q \in Requests \ {r} : request'[q] = request[q]
  BY DEF Cut, PaidInv, BillingInv, BillingShape
<1>2. request'[r].owner = NoOwner /\ request'[r].pc = "idle"
  BY <1>1 DEF Free
<1>3. NoneLost(o)' => NoneLost(o)
  BY <1>1, <1>2 DEF NoneLost, Carries
<1> QED
  BY <1>1, <1>2, <1>3, HandlerStepPaid

LEMMA PaidTypingKept ==
  ASSUME PaidInv, [BillingNext]_billingVars
  PROVE  PaidTyping'
<1> USE DEF PaidTyping
<1>1. /\ PaidTyping /\ DOMAIN request = Requests
      /\ \A r \in Requests : /\ request[r] = [pc |-> request[r].pc, owner |-> request[r].owner,
                                              event |-> request[r].event, old |-> request[r].old]
  BY DEF PaidInv, BillingInv, BillingShape
<1>2. ASSUME NEW o \in Owners, NEW from, NEW to, NEW type \in Types, Issue(o, from, to, type)
      PROVE  /\ events' \in [Owners -> Seq(Types)] /\ DOMAIN provider' = Owners
             /\ \A p \in Owners : Len(events'[p]) <= MaxEvents
  <2>1. PICK n \in Nat : n = Len(events[o]) /\ n < MaxEvents
    BY <1>1, <1>2 DEF Issue
  <2>2. Append(events[o], type) \in Seq(Types) /\ Len(Append(events[o], type)) = n + 1
    BY <1>1, <2>1
  <2>3. n + 1 <= MaxEvents
    BY <2>1, BillingAssumption
  <2> QED
    BY <1>1, <1>2, <2>2, <2>3 DEF Issue
<1>3. {"created", "updated", "canceled"} \subseteq Types
  BY DEF Types
<1>4. ASSUME NEW o \in Owners, ProviderStep(o)
      PROVE  PaidTyping'
  BY <1>1, <1>2, <1>3, <1>4 DEF ProviderStep
<1>5. ASSUME NEW r \in Requests, NEW o \in Owners, Cancel(r, o)
      PROVE  PaidTyping'
  <2>1. /\ UNCHANGED sub
        /\ Issue(o, {"active"}, "ending", "updated") \/ UNCHANGED <<provider, events>>
        /\ request' = [request EXCEPT ![r] = [pc |-> "get", owner |-> o, event |-> 0,
                                              old |-> NoSub]]
    BY <1>5 DEF Cancel
  <2>2. \A q \in Requests : request'[q].pc = "idle" => request'[q].owner = NoOwner
    BY <1>1, <2>1
  <2> QED
    BY <1>1, <1>2, <1>3, <2>1, <2>2
<1>6. ASSUME NEW o \in Owners, NEW plan \in Plans, AdminSetPlan(o, plan)
      PROVE  PaidTyping'
  BY <1>1, <1>6 DEF AdminSetPlan
<1>7. ASSUME NEW r \in Requests, NEW o \in Owners, NEW n \in 1..MaxEvents, Deliver(r, o, n)
      PROVE  PaidTyping'
  BY <1>1, <1>7 DEF Deliver
<1>8. ASSUME NEW r \in Requests, Mark(r) \/ ApplyGet(r) \/ ApplySave(r) \/ ApplyAudit(r) \/ Cut(r)
      PROVE  PaidTyping'
  <2>1. UNCHANGED <<events, provider>> /\ DOMAIN sub' = Owners
    BY <1>1, <1>8 DEF Mark, ApplyGet, ApplySave, ApplyAudit, Cut
  <2>2. /\ \A q \in Requests \ {r} : request'[q] = request[q]
        /\ request'[r] = Free \/ request'[r].pc \in {"get", "save", "audit"}
    BY <1>1, <1>8 DEF Mark, ApplyGet, ApplySave, ApplyAudit, Cut
  <2>3. Free.owner = NoOwner
    BY DEF Free
  <2> QED
    BY <1>1, <2>1, <2>2, <2>3
<1>9. CASE UNCHANGED billingVars
  BY <1>1, <1>9 DEF billingVars
<1> QED
  BY <1>4, <1>5, <1>6, <1>7, <1>8, <1>9 DEF BillingNext

\* A step concerns one owner, whose subscription it keeps true or takes out of the property.
LEMMA PaidNextPreserves == PaidInv /\ [BillingNext]_billingVars => PaidInv'
<1> SUFFICES ASSUME PaidInv, [BillingNext]_billingVars PROVE PaidInv'
  OBVIOUS
<1>1. BillingInv' /\ PaidTyping'
  BY BillingNextPreserves, PaidTypingKept DEF PaidInv
<1>2. /\ DOMAIN request = Requests /\ DOMAIN sub = Owners /\ DOMAIN provider = Owners
      /\ DOMAIN events = Owners /\ DOMAIN processed = Owners /\ DOMAIN answered = Owners
      /\ applied \in [Owners -> [1..MaxEvents -> Nat]]
  BY DEF PaidInv, PaidTyping, BillingInv, BillingShape
<1>3. \A p \in Owners : Paid(p)
  BY DEF PaidInv
<1>4. serial' = serial /\ waived \subseteq waived'
  BY DEF BillingNext, ProviderStep, Deliver, Cancel, Mark, ApplyGet, ApplySave, ApplyAudit, Cut,
     AdminSetPlan, billingVars
<1>5. \A p \in Owners : Plain(p)' => Plain(p)
  BY <1>4 DEF Plain
<1>6. SUFFICES ASSUME NEW p \in Owners, Plain(p)'
               PROVE  Paid(p)'
  <2>1. \A p \in Owners : ~Plain(p)' => Paid(p)'
    BY DEF Paid
  <2> QED
    BY <1>1, <1>6, <2>1 DEF PaidInv
<1>7. Plain(p) /\ Paid(p)
  BY <1>3, <1>5, <1>6
<1>8. ASSUME NEW o \in Owners, ProviderStep(o)
      PROVE  Paid(p)'
  <2>1. CASE p = o
    BY <1>7, <1>8, <2>1, ProviderStepPaid
  <2>2. CASE p # o
    <3>1. Untouched(p)
      BY <1>2, <1>8, <2>2 DEF ProviderStep, Issue, Untouched
    <3> QED
      BY <1>7, <3>1, UntouchedStaysPaid
  <2> QED
    BY <2>1, <2>2
<1>9. ASSUME NEW r \in Requests, NEW o \in Owners, NEW n \in 1..MaxEvents, Deliver(r, o, n)
      PROVE  Paid(p)'
  <2>1. CASE p = o
    BY <1>7, <1>9, <2>1, DeliverPaid
  <2>2. CASE p # o
    <3>1. /\ request[r].owner = NoOwner /\ request'[r].owner = o
          /\ \A q \in Requests \ {r} : request'[q] = request[q]
      BY <1>2, <1>9 DEF Deliver, PaidInv, PaidTyping
    <3>2. Untouched(p)
      BY <1>9, <2>2, <3>1, BillingAssumption DEF Deliver, Untouched
    <3> QED
      BY <1>7, <3>2, UntouchedStaysPaid
  <2> QED
    BY <2>1, <2>2
<1>10. ASSUME NEW r \in Requests, NEW o \in Owners, Cancel(r, o)
       PROVE  Paid(p)'
  <2>1. p # o
    BY <1>6, <1>10 DEF Cancel, Plain
  <2>2. /\ request[r].owner = NoOwner /\ request'[r].owner = o
        /\ \A q \in Requests \ {r} : request'[q] = request[q]
    BY <1>2, <1>10 DEF Cancel, PaidInv, PaidTyping
  <2>3. provider'[p] = provider[p] /\ events'[p] = events[p]
    BY <1>2, <1>10, <2>1 DEF Cancel, Issue
  <2>4. Untouched(p)
    BY <1>4, <1>10, <2>1, <2>2, <2>3, BillingAssumption DEF Cancel, Untouched
  <2> QED
    BY <1>7, <2>4, UntouchedStaysPaid
<1>11. ASSUME NEW o \in Owners, NEW plan \in Plans, AdminSetPlan(o, plan)
       PROVE  Paid(p)'
  <2>1. p # o
    BY <1>6, <1>11 DEF AdminSetPlan, Plain
  <2>2. Untouched(p)
    BY <1>2, <1>4, <1>11, <2>1 DEF AdminSetPlan, Untouched
  <2> QED
    BY <1>7, <2>2, UntouchedStaysPaid
<1>12. ASSUME NEW r \in Requests, Mark(r) \/ ApplyGet(r) \/ ApplySave(r) \/ ApplyAudit(r) \/ Cut(r)
       PROVE  Paid(p)'
  <2>1. CASE request[r].owner = p
    BY <1>7, <1>12, <2>1, MarkPaid, ApplyGetPaid, ApplySavePaid, ApplyAuditPaid, CutPaid
  <2>2. CASE request[r].owner # p
    <3>1. /\ \A q \in Requests \ {r} : request'[q] = request[q]
          /\ request'[r].owner \in {request[r].owner, NoOwner}
      <4>1. request[r] = [pc |-> request[r].pc, owner |-> request[r].owner,
                          event |-> request[r].event, old |-> request[r].old]
        BY DEF PaidInv, BillingInv, BillingShape
      <4> QED
        BY <1>2, <1>12, <4>1 DEF Mark, ApplyGet, ApplySave, ApplyAudit, Cut, Free
    <3>2. /\ answered'[p] = answered[p] /\ processed'[p] = processed[p]
          /\ sub'[p] = sub[p] /\ UNCHANGED <<serial, waived, provider, events>>
      BY <1>2, <1>12, <2>2 DEF Mark, ApplyGet, ApplySave, ApplyAudit, Cut
    <3>3. applied'[p] = applied[p]
      BY <1>2, <1>12, <2>2 DEF Mark, ApplyGet, ApplySave, ApplyAudit, Cut
    <3>4. Untouched(p)
      BY <2>2, <3>1, <3>2, <3>3, BillingAssumption DEF Untouched
    <3> QED
      BY <1>7, <3>4, UntouchedStaysPaid
  <2> QED
    BY <2>1, <2>2
<1>13. CASE UNCHANGED billingVars
  <2>1. Untouched(p)
    BY <1>13 DEF billingVars, Untouched
  <2> QED
    BY <1>7, <2>1, UntouchedStaysPaid
<1> QED
  BY <1>8, <1>9, <1>10, <1>11, <1>12, <1>13 DEF BillingNext

\* An owner whose events come one at a time, with all the retries that cut requests call for,
\* has a paid plan exactly while the provider runs the subscription, once every event was
\* answered and none was marked and then lost (applyWebhookEvent): for any owners, concurrent
\* requests, events and cuts.
THEOREM PaidMeansEntitled == BillingSpec => []EntitledAsPaid
<1>1. PaidInv => EntitledAsPaid
  <2>1. SUFFICES ASSUME PaidInv, NEW o \in Owners, Plain(o), Settled(o)
                 PROVE  Entitled(o) <=> provider[o] = "active"
    BY DEF EntitledAsPaid, Plain
  <2>2. ProviderFollows(o) /\ Stored(o) /\ events[o] \in Seq(Types) /\ Len(events[o]) <= MaxEvents
    BY <2>1 DEF PaidInv, PaidTyping, Paid
  <2>3. PICK k \in Nat : InTurn(o, k)
    BY <2>1 DEF PaidInv, Paid
  <2>4. PICK n \in Nat : n = Len(events[o])
    BY <2>2
  <2>5. answered[o] = 1..n /\ answered[o] = 1..k /\ k <= n
    BY <2>1, <2>3, <2>4 DEF Settled, InTurn
  <2>6. k = n
    <3>1. CASE k < n
      <4>1. n \in 1..n /\ n \notin 1..k
        BY <3>1
      <4> QED
        BY <2>5, <4>1
    <3> QED
      BY <2>5, <3>1
  <2>7. processed[o] = 1..n
    BY <2>3, <2>4, <2>6 DEF InTurn
  <2>8. NoneLost(o)
    BY <2>1 DEF Settled, NoneLost
  <2>9. CASE n = 0
    <3>1. events[o] = <<>>
      BY <2>2, <2>4, <2>9, EmptySeq
    <3>2. provider[o] = "none"
      BY <2>2, <3>1 DEF ProviderFollows
    <3>3. ASSUME NEW i \in 1..MaxEvents
          PROVE  applied[o][i] = 0
      <4>1. applied[o][i] \in Nat
        BY <2>1 DEF PaidInv, BillingInv, BillingShape
      <4>2. processed[o] = {}
        BY <2>7, <2>9
      <4>3. ~(applied[o][i] > 0)
        BY <2>1, <4>2 DEF PaidInv, BillingInv, Uncarried
      <4> QED
        BY <4>1, <4>3
    <3>4. ~sub[o].active
      BY <2>2, <3>3 DEF Stored
    <3> QED
      BY <3>2, <3>4 DEF Entitled
  <2>10. CASE n # 0
    <3>1. n \in 1..n /\ n \in 1..MaxEvents /\ events[o] # <<>>
      BY <2>2, <2>4, <2>10, EmptySeq, BillingAssumption
    <3>2. applied[o][n] > 0
      BY <2>1, <2>7, <3>1 DEF Settled
    <3>3. \A i \in 1..MaxEvents : applied[o][i] > 0 => i <= n
      BY <2>1, <2>3, <2>4, AppliedWasIssued
    <3>4. sub[o].plan = "pro" /\ sub[o].active = (events[o][n] # "canceled")
      BY <2>2, <2>4, <2>8, <3>1, <3>2, <3>3 DEF Stored
    <3>5. provider[o] = IF events[o][n] = "canceled" THEN "ended" ELSE "active"
      BY <2>2, <2>4, <3>1 DEF ProviderFollows
    <3> QED
      BY <3>4, <3>5 DEF Entitled, Plans
  <2> QED
    BY <2>9, <2>10
<1> QED
  BY <1>1, PaidStarts, PaidNextPreserves, PTL DEF BillingSpec

-----------------------------------------------------------------------------
(* What is metered, over however many runs of one media task and whatever  *)
(* route of providers.  The property says nothing of a run on its way:     *)
(* MediaInv adds that a run past its submission holds a generation that its *)
(* provider took, that a run is in the ledger from its metering on, and that *)
(* a prompt that may not be generated never gets as far.                   *)

Metered(v) == \E i \in DOMAIN ledger : ledger[i] = Generation(v)

Beyond == {"mark", "poll", "host", "meter", "save", "ready"}

\* A run that a provider answered holds a generation.
Held == \A v \in Viewers : viewing[v].pc \in Beyond => Generation(v) \in generating

\* A run that has passed the metering is in the ledger.
Entered == \A v \in Viewers : viewing[v].pc \in {"save", "ready"} => Metered(v)

\* A row that says ready was written by a run that ended so.
IsDelivered == task.status = "ready" => task.by \in Viewers /\ viewing[task.by].pc = "ready"

\* What may not be generated is not submitted.
Refused == asked # "fine" =>
  /\ generating = {}
  /\ \A v \in Viewers : viewing[v].pc \in {"idle", "screen", "fail", "failed", "blocked"}

\* No generation is in the ledger twice, and each entry is of a run past it.
Once ==
  /\ \A i, j \in DOMAIN ledger : ledger[i] = ledger[j] => i = j
  /\ \A i \in DOMAIN ledger : /\ ledger[i] \in generating
                              /\ viewing[ledger[i][1]].pc \in {"save", "ready"}

MediaInv == MediaTypeOK /\ Held /\ Entered /\ IsDelivered /\ Refused /\ Once

\* What a run's generation is, and what it depends on.
LEMMA GenerationIsOf ==
  ASSUME MediaTypeOK, NEW v \in Viewers
  PROVE  /\ Generation(v)[1] = v
         /\ viewing[v].provider # Providers + 1 => Generation(v) \in Viewers \X (1..Providers)
<1>1. viewing[v].provider \in 1..(Providers + 1)
  BY DEF MediaTypeOK
<1>2. QED
  BY <1>1, MediaAssumption DEF Generation

\* A run that moves keeps its type, and its provider and polls.
LEMMA Moved ==
  ASSUME MediaTypeOK, NEW v \in Viewers, NEW pc \in MediaPcs
  PROVE  [viewing EXCEPT ![v].pc = pc]
           \in [Viewers -> [pc : MediaPcs, provider : 1..(Providers + 1), polls : 0..MaxPolls]]
<1>1. viewing[v] \in [pc : MediaPcs, provider : 1..(Providers + 1), polls : 0..MaxPolls]
  BY DEF MediaTypeOK
<1>2. [viewing[v] EXCEPT !.pc = pc]
        \in [pc : MediaPcs, provider : 1..(Providers + 1), polls : 0..MaxPolls]
  BY <1>1
<1>3. QED
  BY <1>2 DEF MediaTypeOK

LEMMA MediaStarts == MediaInit => MediaInv
<1> SUFFICES ASSUME MediaInit PROVE MediaInv
  OBVIOUS
<1>1. ledger = <<>> /\ DOMAIN ledger = {} /\ ledger \in Seq(Viewers \X (1..Providers))
  BY DEF MediaInit
<1>2. MediaTypeOK
  BY <1>1, MediaAssumption DEF MediaInit, MediaTypeOK, MediaPcs, MediaStatuses
<1>3. \A v \in Viewers : viewing[v].pc = "idle"
  BY DEF MediaInit
<1>4. Held /\ Entered /\ Refused /\ Once /\ IsDelivered
  BY <1>1, <1>3 DEF Held, Entered, IsDelivered, Refused, Once, Beyond, MediaInit
<1>5. QED
  BY <1>2, <1>4 DEF MediaInv

\* Every step but the metering leaves the ledger alone: it keeps the invariant if
\* it keeps the types, moves one run and saves for it, takes it into Beyond with
\* its generation only, and into "save" or "ready" from there only.
LEMMA QuietViewing ==
  ASSUME MediaInv, NEW v \in Viewers, MediaTypeOK',
         UNCHANGED <<asked, ledger>>,
         \A u \in Viewers \ {v} : viewing'[u] = viewing[u],
         viewing[v].pc \notin {"ready"},
         viewing[v].pc = "save" => viewing'[v].pc = "ready",
         viewing'[v].pc = "save" => FALSE,
         viewing'[v].pc = "ready" => viewing[v].pc = "save",
         viewing'[v].provider # viewing[v].provider => viewing'[v].pc = "submit",
         viewing'[v].pc \in Beyond => Generation(v)' \in generating',
         generating \subseteq generating',
         asked # "fine" => /\ generating' = generating
                           /\ viewing'[v].pc \in {"idle", "screen", "fail", "failed", "blocked"},
         task' = task \/ (task'.status # "ready") \/ (task'.by = v /\ viewing'[v].pc = "ready"),
         task'.status = "ready" /\ task' # task => task'.by = v
  PROVE  MediaInv'
<1>1. \A u \in Viewers \ {v} : Generation(u)' = Generation(u)
  BY DEF Generation
<1>2. viewing[v].pc = "save" => Generation(v)' = Generation(v)
  BY DEF Generation
<1>3. \A u \in Viewers : Metered(u) => viewing[u].pc \in {"save", "ready"}
  <2>1. SUFFICES ASSUME NEW u \in Viewers, NEW i \in DOMAIN ledger, ledger[i] = Generation(u)
                 PROVE  viewing[u].pc \in {"save", "ready"}
    BY DEF Metered
  <2>2. Generation(u)[1] = u
    BY GenerationIsOf DEF MediaInv
  <2>3. QED
    BY <2>1, <2>2 DEF MediaInv, Once
<1>4. Held'
  BY <1>1 DEF Held, MediaInv
<1>5. Entered'
  BY <1>1, <1>2 DEF Entered, MediaInv, Metered
<1>6. IsDelivered'
  BY DEF IsDelivered, MediaInv
<1>7. Refused'
  BY DEF Refused, MediaInv
<1>8. Once'
  <2>1. SUFFICES ASSUME NEW i \in DOMAIN ledger
                 PROVE  viewing'[ledger[i][1]].pc \in {"save", "ready"}
    BY DEF Once, MediaInv
  <2>2. ledger[i] \in Viewers \X (1..Providers)
    <3>1. DOMAIN ledger = 1..Len(ledger)
      BY DEF MediaInv, MediaTypeOK
    <3>2. QED
      BY <3>1, <2>1 DEF MediaInv, MediaTypeOK
  <2>3. ledger[i][1] \in Viewers /\ viewing[ledger[i][1]].pc \in {"save", "ready"}
    BY <2>1, <2>2 DEF Once, MediaInv
  <2>4. QED
    BY <2>3
<1>9. QED
  BY <1>4, <1>5, <1>6, <1>7, <1>8 DEF MediaInv

\* The metering adds the run's generation, which was not there.
LEMMA MeterStep ==
  ASSUME MediaInv, NEW v \in Viewers, MediaMeter(v)
  PROVE  MediaInv'
<1>1. viewing[v].pc = "meter" /\ viewing' = [viewing EXCEPT ![v].pc = "save"]
      /\ ledger' = Append(ledger, Generation(v)) /\ UNCHANGED <<asked, task, generating>>
  BY DEF MediaMeter, MediaGo
<1>2. \A u \in Viewers : Generation(u)' = Generation(u)
  BY <1>1 DEF Generation, MediaInv, MediaTypeOK
<1>3. Generation(v) \in generating /\ Generation(v)[1] = v
  BY <1>1, GenerationIsOf DEF MediaInv, Held, Beyond
<1>4. /\ Len(ledger') = Len(ledger) + 1
      /\ DOMAIN ledger = 1..Len(ledger) /\ DOMAIN ledger' = 1..(Len(ledger) + 1)
      /\ \A i \in DOMAIN ledger : ledger'[i] = ledger[i]
      /\ ledger'[Len(ledger) + 1] = Generation(v)
      /\ Len(ledger) \in Nat
      /\ ledger' \in Seq(Viewers \X (1..Providers))
  <2>1. ledger \in Seq(Viewers \X (1..Providers)) /\ Generation(v) \in Viewers \X (1..Providers)
    BY <1>3 DEF MediaInv, MediaTypeOK
  <2>2. QED
    BY <2>1, <1>1
<1>5. \A i \in DOMAIN ledger : ledger[i] \in Viewers \X (1..Providers)
  BY <1>4 DEF MediaInv, MediaTypeOK
<1>6. \A i \in DOMAIN ledger : ledger[i] # Generation(v)
  BY <1>1, <1>3 DEF MediaInv, Once
<1>7. MediaTypeOK'
  BY <1>1, <1>4 DEF MediaTypeOK, MediaInv, MediaPcs
<1>8. \A u \in Viewers : viewing'[u].pc = IF u = v THEN "save" ELSE viewing[u].pc
  BY <1>1 DEF MediaInv, MediaTypeOK
<1>9. Held'
  BY <1>1, <1>2, <1>3, <1>8 DEF Held, MediaInv
<1>10. Entered'
  <2>1. SUFFICES ASSUME NEW u \in Viewers, viewing'[u].pc \in {"save", "ready"}
                 PROVE  \E i \in DOMAIN ledger' : ledger'[i] = Generation(u)
    BY <1>2 DEF Entered, Metered
  <2>2. CASE u = v
    BY <2>2, <1>4
  <2>3. CASE u # v
    BY <2>1, <2>3, <1>4, <1>8 DEF MediaInv, Entered, Metered
  <2>4. QED
    BY <2>2, <2>3
<1>11. IsDelivered'
  BY <1>1, <1>8 DEF IsDelivered, MediaInv
<1>12. Refused'
  BY <1>1 DEF Refused, MediaInv
<1>13. Once'
  <2>1. \A i, j \in DOMAIN ledger' : ledger'[i] = ledger'[j] => i = j
    <3>1. SUFFICES ASSUME NEW i \in DOMAIN ledger', NEW j \in DOMAIN ledger',
                          ledger'[i] = ledger'[j]
                   PROVE  i = j
      OBVIOUS
    <3>2. CASE i \in DOMAIN ledger /\ j \in DOMAIN ledger
      BY <3>1, <3>2, <1>4 DEF Once, MediaInv
    <3>3. CASE i = Len(ledger) + 1
      BY <3>1, <3>3, <1>4, <1>6
    <3>4. CASE j = Len(ledger) + 1
      BY <3>1, <3>4, <1>4, <1>6
    <3>5. QED
      BY <3>2, <3>3, <3>4, <1>4
  <2>2. \A i \in DOMAIN ledger : viewing'[ledger[i][1]].pc \in {"save", "ready"}
    BY <1>5, <1>8 DEF Once, MediaInv
  <2>3. \A i \in DOMAIN ledger' : /\ ledger'[i] \in generating'
                                  /\ viewing'[ledger'[i][1]].pc \in {"save", "ready"}
    BY <2>2, <1>1, <1>3, <1>4, <1>8 DEF Once, MediaInv
  <2>4. QED
    BY <2>1, <2>3 DEF Once
<1>14. QED
  BY <1>7, <1>9, <1>10, <1>11, <1>12, <1>13 DEF MediaInv

LEMMA MediaNextPreserves == MediaInv /\ [MediaNext]_mediaVars => MediaInv'
<1> SUFFICES ASSUME MediaInv, [MediaNext]_mediaVars PROVE MediaInv'
  OBVIOUS
<1> USE MediaAssumption DEF MediaGo, SaveTask
<1>0. /\ \A v \in Viewers : viewing[v] \in [pc : MediaPcs, provider : 1..(Providers + 1),
                                            polls : 0..MaxPolls]
      /\ DOMAIN viewing = Viewers
  BY DEF MediaInv, MediaTypeOK
<1>a. {"screen", "submit", "mark", "poll", "host", "meter", "save", "fail", "ready", "failed",
        "blocked"} \subseteq MediaPcs
  BY DEF MediaPcs
<1>1. ASSUME NEW v \in Viewers, MediaUnpriced(v) PROVE MediaInv'
  <2>1. MediaTypeOK'
    BY <1>a, <1>1, Moved DEF MediaUnpriced, MediaTypeOK, MediaInv
  <2>2. QED
    BY <1>0, <1>1, <2>1, QuietViewing DEF MediaUnpriced, Beyond
<1>2. ASSUME NEW v \in Viewers, MediaCreate(v) PROVE MediaInv'
  <2>1. MediaTypeOK'
    BY <1>a, <1>2, Moved DEF MediaCreate, MediaTypeOK, MediaInv, MediaStatuses
  <2>2. QED
    BY <1>0, <1>2, <2>1, QuietViewing DEF MediaCreate, Beyond
<1>3. ASSUME NEW v \in Viewers, MediaScreen(v) PROVE MediaInv'
  <2>1. MediaTypeOK'
    <3>1. viewing' \in [Viewers -> [pc : MediaPcs, provider : 1..(Providers + 1),
                                     polls : 0..MaxPolls]]
      <4>1. \E pc \in {"submit", "blocked"} : viewing' = [viewing EXCEPT ![v].pc = pc]
        BY <1>3 DEF MediaScreen
      <4>2. QED
        BY <4>1, <1>a, Moved DEF MediaInv
    <3>2. QED
      BY <1>3, <3>1 DEF MediaScreen, MediaInv, MediaTypeOK, MediaStatuses
  <2>2. QED
    BY <1>0, <1>3, <2>1, QuietViewing DEF MediaScreen, Beyond
<1>4. ASSUME NEW v \in Viewers, MediaSubmit(v) PROVE MediaInv'
  <2>1. viewing[v].provider \in 1..Providers
    BY <1>0, <1>4 DEF MediaSubmit
  <2>2. Generation(v)' = Generation(v) /\ Generation(v) \in Viewers \X (1..Providers)
    BY <1>0, <1>4, <2>1 DEF MediaSubmit, Generation
  <2>3. MediaTypeOK'
    BY <1>a, <1>4, <2>2, Moved DEF MediaSubmit, MediaTypeOK, MediaInv
  <2>4. asked = "fine"
    BY <1>4 DEF MediaSubmit, MediaInv, Refused
  <2>5. QED
    BY <1>0, <1>4, <2>2, <2>3, <2>4, QuietViewing DEF MediaSubmit, Beyond
<1>5. ASSUME NEW v \in Viewers, MediaFallBack(v) PROVE MediaInv'
  <2>1. viewing[v].provider \in 1..Providers
    BY <1>0, <1>5 DEF MediaFallBack
  <2>2. Generation(v) \in Viewers \X (1..Providers)
    BY <2>1 DEF Generation
  <2>3. MediaTypeOK'
    <3>1. [viewing[v] EXCEPT !.provider = @ + 1]
            \in [pc : MediaPcs, provider : 1..(Providers + 1), polls : 0..MaxPolls]
      BY <1>0, <2>1
    <3>2. viewing' \in [Viewers -> [pc : MediaPcs, provider : 1..(Providers + 1),
                                    polls : 0..MaxPolls]]
      BY <1>5, <3>1 DEF MediaFallBack, MediaInv, MediaTypeOK
    <3>3. QED
      BY <1>5, <2>2, <3>2 DEF MediaFallBack, MediaInv, MediaTypeOK
  <2>4. asked = "fine"
    BY <1>5 DEF MediaFallBack, MediaInv, Refused
  <2>5. viewing'[v].pc = "submit"
    BY <1>0, <1>5 DEF MediaFallBack
  <2>6. QED
    BY <1>0, <1>5, <2>3, <2>4, <2>5, QuietViewing DEF MediaFallBack, Beyond
<1>6. ASSUME NEW v \in Viewers, MediaExhaust(v) PROVE MediaInv'
  <2>1. MediaTypeOK'
    BY <1>a, <1>6, Moved DEF MediaExhaust, MediaTypeOK, MediaInv
  <2>2. asked = "fine"
    BY <1>6 DEF MediaExhaust, MediaInv, Refused
  <2>3. QED
    BY <1>0, <1>6, <2>1, <2>2, QuietViewing DEF MediaExhaust, Beyond
<1>7. ASSUME NEW v \in Viewers, MediaMark(v) PROVE MediaInv'
  <2>1. MediaTypeOK'
    BY <1>a, <1>7, Moved DEF MediaMark, MediaTypeOK, MediaInv, MediaStatuses
  <2>2. asked = "fine" /\ Generation(v)' = Generation(v) /\ Generation(v) \in generating
    BY <1>0, <1>7 DEF MediaMark, MediaInv, Refused, Held, Beyond, Generation
  <2>3. QED
    BY <1>0, <1>7, <2>1, <2>2, QuietViewing DEF MediaMark, Beyond
<1>8. ASSUME NEW v \in Viewers, MediaPoll(v) PROVE MediaInv'
  <2>1. MediaTypeOK'
    <3>1. ASSUME viewing[v].polls < MaxPolls, viewing' = [viewing EXCEPT ![v].polls = @ + 1]
          PROVE  viewing' \in [Viewers -> [pc : MediaPcs, provider : 1..(Providers + 1),
                                     polls : 0..MaxPolls]]
      <4>1. [viewing[v] EXCEPT !.polls = @ + 1]
              \in [pc : MediaPcs, provider : 1..(Providers + 1), polls : 0..MaxPolls]
        BY <1>0, <3>1
      <4>2. QED
        BY <3>1, <4>1 DEF MediaInv, MediaTypeOK
    <3>2. viewing' \in [Viewers -> [pc : MediaPcs, provider : 1..(Providers + 1),
                                     polls : 0..MaxPolls]]
      <4>1. CASE \E pc \in {"host", "fail"} : viewing' = [viewing EXCEPT ![v].pc = pc]
        BY <4>1, <1>a, Moved DEF MediaInv
      <4>2. QED
        BY <4>1, <3>1, <1>8 DEF MediaPoll
    <3>3. QED
      BY <1>8, <3>2 DEF MediaPoll, MediaInv, MediaTypeOK
  <2>2. asked = "fine" /\ Generation(v)' = Generation(v) /\ Generation(v) \in generating
    BY <1>0, <1>8 DEF MediaPoll, MediaInv, Refused, Held, Beyond, Generation
  <2>3. viewing'[v].pc \in {"host", "fail", "poll"} /\ viewing'[v].provider = viewing[v].provider
    BY <1>0, <1>8 DEF MediaPoll
  <2>4. \A u \in Viewers \ {v} : viewing'[u] = viewing[u]
    BY <1>0, <1>8 DEF MediaPoll
  <2>5. QED
    BY <1>8, <2>1, <2>2, <2>3, <2>4, QuietViewing DEF MediaPoll
<1>9. ASSUME NEW v \in Viewers, MediaHost(v) PROVE MediaInv'
  <2>1. MediaTypeOK'
    <3>1. viewing' \in [Viewers -> [pc : MediaPcs, provider : 1..(Providers + 1),
                                     polls : 0..MaxPolls]]
      <4>1. \E pc \in {"meter", "fail"} : viewing' = [viewing EXCEPT ![v].pc = pc]
        BY <1>9 DEF MediaHost
      <4>2. QED
        BY <4>1, <1>a, Moved DEF MediaInv
    <3>2. QED
      BY <1>9, <3>1 DEF MediaHost, MediaInv, MediaTypeOK
  <2>2. asked = "fine" /\ Generation(v)' = Generation(v) /\ Generation(v) \in generating
    BY <1>0, <1>9 DEF MediaHost, MediaInv, Refused, Held, Beyond, Generation
  <2>3. QED
    BY <1>0, <1>9, <2>1, <2>2, QuietViewing DEF MediaHost, Beyond
<1>10. ASSUME NEW v \in Viewers, MediaSave(v) PROVE MediaInv'
  <2>1. MediaTypeOK'
    BY <1>a, <1>10, Moved DEF MediaSave, MediaTypeOK, MediaInv, MediaStatuses
  <2>2. asked = "fine" /\ Generation(v)' = Generation(v) /\ Generation(v) \in generating
    BY <1>0, <1>10 DEF MediaSave, MediaInv, Refused, Held, Beyond, Generation
  <2>3. QED
    BY <1>0, <1>10, <2>1, <2>2, QuietViewing DEF MediaSave, Beyond
<1>11. ASSUME NEW v \in Viewers, MediaFail(v) PROVE MediaInv'
  <2>1. MediaTypeOK'
    BY <1>a, <1>11, Moved DEF MediaFail, MediaTypeOK, MediaInv, MediaStatuses
  <2>2. QED
    BY <1>0, <1>11, <2>1, QuietViewing DEF MediaFail, Beyond
<1>12. CASE UNCHANGED mediaVars
  BY <1>12 DEF mediaVars, MediaInv, MediaTypeOK, Held, Entered, IsDelivered, Refused, Once,
               Metered, Generation
<1>13. QED
  BY <1>1, <1>2, <1>3, <1>4, <1>5, <1>6, <1>7, <1>8, <1>9, <1>10, <1>11, <1>12, MeterStep
  DEF MediaNext

\* Whatever is metered was generated once and goes on to be delivered, a ready row
\* is metered, and a refused prompt costs nothing: for any number of runs of the
\* task, of providers on its route and of polls (media/orchestrator.ts, run).
THEOREM DeliveredIsMetered == MediaSpec => []MeteredAsDelivered
<1>1. MediaInv => MeteredAsDelivered
  <2>1. SUFFICES ASSUME MediaInv PROVE MeteredAsDelivered
    OBVIOUS
  <2>2. task.status = "ready" => \E i \in DOMAIN ledger : ledger[i] = Generation(task.by)
    BY <2>1 DEF MediaInv, IsDelivered, Entered, Metered
  <2>3. QED
    BY <2>1, <2>2 DEF MediaInv, Once, Refused, MeteredAsDelivered
<1>2. QED
  BY <1>1, MediaStarts, MediaNextPreserves, PTL DEF MediaSpec

-----------------------------------------------------------------------------
(* The types of the services.                                              *)

LEMMA SchedulerValues ==
  /\ Horizon \in Nat /\ 0 \in Minutes /\ Minutes \subseteq Nat
  /\ NoRow \in Row /\ Quiet \in TickState
  /\ \A t \in Tasks, r \in Row : [task |-> t, row |-> r] \in Copies
  /\ \A c \in Copies : c.task \in Tasks /\ c.row \in Row
BY SchedulerAssumption DEF Minutes, NoRow, Row, Quiet, TickState, Copies

LEMMA RestTyped ==
  ASSUME SchedulerTypeOK, NEW k \in Ticks, NEW c
  PROVE  Rest(k, c) \in TickState
<1>1. tick[k] \in TickState
  BY DEF SchedulerTypeOK
<1>2. PICK left : left = tick[k].todo \ {c} /\ left \subseteq Copies
  BY <1>1 DEF TickState
<1>3. [tick[k] EXCEPT !.todo = left, !.saving = {}] \in TickState
  BY <1>1, <1>2 DEF TickState
<1> QED
  BY <1>2, <1>3, SchedulerValues DEF Rest

\* A visit to a task in a tick.
LEMMA VisitTyped ==
  ASSUME SchedulerTypeOK, NEW k \in Ticks, NEW c \in tick[k].todo,
         TickSkip(k, c) \/ TickFire(k, c) \/ TickSave(k, c)
  PROVE  SchedulerTypeOK'
<1>1. tick[k] \in TickState /\ tick[k].at \in Minutes
  BY DEF SchedulerTypeOK, TickState
<1>2. c \in Copies /\ c.task \in Tasks /\ c.row \in Row
  BY <1>1, SchedulerValues DEF TickState
<1>3. CASE TickSkip(k, c)
  BY <1>3, RestTyped DEF SchedulerTypeOK, TickSkip
<1>4. CASE TickFire(k, c)
  <2>1. [tick[k] EXCEPT !.saving = {c}] \in TickState
    BY <1>1, <1>2 DEF TickState
  <2>2. tick' \in [Ticks -> TickState]
    BY <1>4, <2>1 DEF SchedulerTypeOK, TickFire
  <2>3. [started[c.task] EXCEPT ![tick[k].at] = @ + 1] \in [Minutes -> Nat]
    BY <1>1, <1>2 DEF SchedulerTypeOK
  <2>4. started' \in [Tasks -> [Minutes -> Nat]]
    BY <1>4, <2>3 DEF SchedulerTypeOK, TickFire
  <2> QED
    BY <1>4, <2>2, <2>4 DEF SchedulerTypeOK, TickFire
<1>5. CASE TickSave(k, c)
  <2>1. [c.row EXCEPT !.last = tick[k].at] \in Row
    BY <1>1, <1>2 DEF Row
  <2> QED
    BY <1>5, <2>1, RestTyped DEF SchedulerTypeOK, TickSave
<1> QED
  BY <1>3, <1>4, <1>5

\* A copy that a toggle has read is one of the toggles that are left.
EditsAreLeft == \A t \in Tasks : edit[t].there => edits[t] < MaxEdits

LEMMA SchedulerStepTyped ==
  SchedulerTypeOK /\ EditsAreLeft /\ [SchedulerNext]_schedulerVars => SchedulerTypeOK'
<1> SUFFICES ASSUME SchedulerTypeOK, EditsAreLeft, [SchedulerNext]_schedulerVars PROVE SchedulerTypeOK'
  OBVIOUS
<1> USE SchedulerAssumption, SchedulerValues
<1>1. ASSUME NEW t \in Tasks, Create(t)
      PROVE  SchedulerTypeOK'
  <2>1. [there |-> TRUE, enabled |-> TRUE, last |-> Never] \in Row
    BY DEF Row
  <2> QED
    BY <1>1, <2>1 DEF SchedulerTypeOK, Create
<1>2. ASSUME NEW t \in Tasks, ToggleRead(t)
      PROVE  SchedulerTypeOK'
  BY <1>2 DEF SchedulerTypeOK, ToggleRead
<1>3. ASSUME NEW t \in Tasks, Delete(t)
      PROVE  SchedulerTypeOK'
  BY <1>3 DEF SchedulerTypeOK, Delete
<1>4. ASSUME NEW t \in Tasks, NEW on \in BOOLEAN, ToggleSave(t, on)
      PROVE  SchedulerTypeOK'
  <2>1. [edit[t] EXCEPT !.enabled = on] \in Row
    BY DEF SchedulerTypeOK, Row
  <2>2. edits[t] + 1 \in 0..MaxEdits
    BY <1>4 DEF SchedulerTypeOK, EditsAreLeft, ToggleSave
  <2> QED
    BY <1>4, <2>1, <2>2 DEF SchedulerTypeOK, ToggleSave
<1>5. ASSUME NEW k \in Ticks, TickBegin(k)
      PROVE  SchedulerTypeOK'
  <2> DEFINE enabled == {t \in Tasks : row[t].there /\ row[t].enabled}
             listed == {[task |-> t, row |-> row[t]] : t \in enabled}
  <2>1. listed \subseteq Copies
    BY DEF SchedulerTypeOK
  <2>2. [at |-> minute, saving |-> {}, todo |-> listed] \in TickState
    BY <2>1 DEF SchedulerTypeOK, TickState
  <2>3. tick'[k] \in TickState /\ tick' = [tick EXCEPT ![k] = tick'[k]]
    BY <1>5, <2>2 DEF SchedulerTypeOK, TickBegin
  <2>4. tick' \in [Ticks -> TickState]
    BY <2>3 DEF SchedulerTypeOK
  <2>5. ticked' \in 0..2
    BY <1>5 DEF SchedulerTypeOK, TickBegin
  <2> QED
    BY <1>5, <2>4, <2>5 DEF SchedulerTypeOK, TickBegin
<1>6. ASSUME NEW k \in Ticks, TickCut(k)
      PROVE  SchedulerTypeOK'
  <2>1. tick[k].at \in Minutes
    BY DEF SchedulerTypeOK, TickState
  <2>2. cuts' \in 0..MaxCuts
    BY <1>6 DEF SchedulerTypeOK, TickCut
  <2> QED
    BY <1>6, <2>1, <2>2 DEF SchedulerTypeOK, TickCut
<1>7. CASE Advance
  BY <1>7 DEF SchedulerTypeOK, Advance, Minutes
<1>8. CASE UNCHANGED schedulerVars
  BY <1>8 DEF SchedulerTypeOK, schedulerVars
<1> QED
  BY <1>1, <1>2, <1>3, <1>4, <1>5, <1>6, <1>7, <1>8, VisitTyped DEF SchedulerNext

LEMMA EditsStayLeft ==
  SchedulerTypeOK /\ EditsAreLeft /\ [SchedulerNext]_schedulerVars => EditsAreLeft'
<1> SUFFICES ASSUME SchedulerTypeOK, EditsAreLeft, [SchedulerNext]_schedulerVars PROVE EditsAreLeft'
  OBVIOUS
<1> USE DEF EditsAreLeft
<1>1. ASSUME NEW t \in Tasks, ToggleRead(t)
      PROVE  EditsAreLeft'
  BY <1>1 DEF SchedulerTypeOK, ToggleRead
<1>2. ASSUME NEW t \in Tasks, NEW on \in BOOLEAN, ToggleSave(t, on)
      PROVE  EditsAreLeft'
  BY <1>2 DEF SchedulerTypeOK, ToggleSave, NoRow
<1>3. UNCHANGED <<edit, edits>> => EditsAreLeft'
  OBVIOUS
<1>4. ASSUME NEW k \in Ticks,
             \/ TickBegin(k) \/ TickCut(k)
             \/ \E c \in tick[k].todo : TickSkip(k, c) \/ TickFire(k, c) \/ TickSave(k, c)
      PROVE  UNCHANGED <<edit, edits>>
  BY <1>4 DEF TickBegin, TickCut, TickSkip, TickFire, TickSave
<1>5. ASSUME NEW t \in Tasks, Create(t) \/ Delete(t)
      PROVE  UNCHANGED <<edit, edits>>
  BY <1>5 DEF Create, Delete
<1>6. Advance \/ UNCHANGED schedulerVars => UNCHANGED <<edit, edits>>
  BY DEF Advance, schedulerVars
<1> QED
  BY <1>1, <1>2, <1>3, <1>4, <1>5, <1>6 DEF SchedulerNext

\* Every variable of the scheduler keeps its type, for any number of ticks at a time.
LEMMA SchedulerIsTyped == SchedulerSpec => []SchedulerTypeOK
<1>1. SchedulerInit => SchedulerTypeOK /\ EditsAreLeft
  <2> SUFFICES ASSUME SchedulerInit PROVE SchedulerTypeOK /\ EditsAreLeft
    OBVIOUS
  <2>1. [m \in Minutes |-> 0] \in [Minutes -> Nat] /\ 0 \in 0..MaxEdits /\ 0 \in 0..MaxCuts
    BY SchedulerAssumption
  <2>2. started \in [Tasks -> [Minutes -> Nat]]
    BY <2>1 DEF SchedulerInit
  <2>3. EditsAreLeft
    BY DEF SchedulerInit, EditsAreLeft, NoRow
  <2>4. minute \in Minutes /\ ticked \in 0..2 /\ cut \subseteq Minutes /\ cuts \in 0..MaxCuts
    BY <2>1, SchedulerValues DEF SchedulerInit
  <2>5. /\ row \in [Tasks -> Row] /\ edit \in [Tasks -> Row] /\ tick \in [Ticks -> TickState]
        /\ born \in [Tasks -> Minutes \cup {Never}] /\ edits \in [Tasks -> 0..MaxEdits]
    BY <2>1, SchedulerValues DEF SchedulerInit
  <2> QED
    BY <2>2, <2>3, <2>4, <2>5 DEF SchedulerTypeOK
<1> QED
  BY <1>1, SchedulerStepTyped, EditsStayLeft, PTL DEF SchedulerSpec

\* A request for JSON is repeated a few times on a candidate.
TriesAreFew == call.tries \in 0..JsonMaxRetries

LEMMA TriesStayFew == RouterInv /\ TriesAreFew /\ [RouterNext]_routerVars => TriesAreFew'
<1> SUFFICES ASSUME RouterInv, TriesAreFew, [RouterNext]_routerVars PROVE TriesAreFew'
  OBVIOUS
<1>1. call \in CallTypes /\ call.tries \in 0..JsonMaxRetries
  BY DEF RouterInv, RouterTyping, TriesAreFew
<1>2. NextCandidate.tries = 0 /\ NextKey.tries \in 0..JsonMaxRetries
  BY <1>1, RouterAssumption DEF NextCandidate, NextKey, CallTypes
<1>3. \A pc \in {"done", "thrown", "exhausted"} : [call EXCEPT !.pc = pc].tries = call.tries
  BY <1>1 DEF CallTypes
<1>4. call.tries < JsonMaxRetries => [call EXCEPT !.tries = @ + 1].tries \in 0..JsonMaxRetries
  BY <1>1, RouterAssumption DEF CallTypes
<1>5. 0 \in 0..JsonMaxRetries
  BY RouterAssumption
<1>6. CASE RouterNext
  BY <1>1, <1>2, <1>3, <1>4, <1>5, <1>6
     DEF RouterNext, SkipCandidate, StreamChunk, StreamEnd, StreamBreak, FailOver, JsonValid,
         JsonInvalid, Exhaust, TriesAreFew
<1>7. CASE UNCHANGED routerVars
  BY <1>1, <1>7 DEF routerVars, TriesAreFew
<1> QED
  BY <1>6, <1>7

\* Every variable of the router keeps its type.
LEMMA RouterIsTyped == RouterSpec => []RouterTypeOK
<1>1. ASSUME RouterInv, TriesAreFew
      PROVE  RouterTypeOK
  <2>1. call \in CallTypes /\ call.candidate \in 1..(Candidates + 1) /\ call.tries \in 0..JsonMaxRetries
    BY <1>1 DEF RouterInv, RouterTyping, OnAKey, TriesAreFew
  <2>2. call.key \in 1..MaxKeys
    <3>1. CASE call.candidate <= Candidates /\ keys[call.candidate] > 0
      <4>1. keys[call.candidate] \in 0..MaxKeys /\ call.key \in 1..keys[call.candidate]
        BY <1>1, <2>1, <3>1, RouterAssumption DEF RouterInv, RouterTyping, OnAKey
      <4> QED
        BY <4>1, RouterAssumption
    <3>2. CASE call.candidate > Candidates
      BY <1>1, <3>2, RouterAssumption DEF RouterInv, OnAKey
    <3>3. CASE call.candidate <= Candidates /\ ~(keys[call.candidate] > 0)
      <4>1. keys[call.candidate] = 0
        BY <1>1, <2>1, <3>3, RouterAssumption DEF RouterInv, RouterTyping
      <4> QED
        BY <1>1, <4>1, RouterAssumption DEF RouterInv, OnAKey
    <3> QED
      BY <2>1, <3>1, <3>2, <3>3, RouterAssumption
  <2>3. call \in [kind : {"complete", "json"}, pc : RouterPcs, candidate : 1..(Candidates + 1),
                  key : 1..MaxKeys, tries : 0..JsonMaxRetries]
    BY <2>1, <2>2 DEF CallTypes
  <2> QED
    BY <1>1, <2>3 DEF RouterInv, RouterTyping, RouterTypeOK
<1>2. RouterInit => TriesAreFew
  BY RouterAssumption DEF RouterInit, TriesAreFew
<1> QED
  BY <1>1, <1>2, RouterStarts, RouterNextPreserves, TriesStayFew, PTL DEF RouterSpec

\* Every variable of a conversation keeps its type.
LEMMA ChatIsTyped == ChatSpec => []ChatTypeOK
<1>1. ASSUME ChatInv
      PROVE  ChatTypeOK
  <2>1. Done \subseteq Turns
    BY DEF Done
  <2>2. ASSUME NEW t \in Turns
        PROVE  /\ turn[t].pc \in {"idle", "compact", "reply", "done", "failed"}
               /\ turn[t].messages \in Transcripts
    BY <1>1 DEF ChatInv, ChatTyping
  <2>3. \A m \in Transcripts : Remembered(m) \subseteq Turns
    <3>1. ASSUME NEW m \in Transcripts, NEW i \in DOMAIN m
          PROVE  m[i].of \subseteq Turns
      <4> DEFINE Messages == [role : Roles, of : SUBSET Turns]
      <4>0. m \in Seq(Messages) /\ \A x \in Messages : x.of \subseteq Turns
        BY <3>1 DEF Transcripts
      <4> HIDE DEF Messages
      <4>1. m[i] \in Messages
        BY <3>1, <4>0
      <4> QED
        BY <4>0, <4>1
    <3> QED
      BY <3>1 DEF Remembered
  <2>4. Remembered(thread) \subseteq Turns
    BY <1>1, <2>1 DEF ChatInv, ThreadInv
  <2> QED
    BY <1>1, <2>2, <2>3, <2>4 DEF ChatTypeOK, ChatInv, ChatTyping
<1> QED
  BY <1>1, ChatStart, ChatKeeps, PTL DEF ChatSpec

LEMMA BillingValues ==
  /\ MaxEvents \in Nat /\ NoSub \in Subscription /\ Free \in Request
  /\ 0 \in 0..MaxEvents /\ \A n \in 1..MaxEvents : n \in 0..MaxEvents
  /\ \A plan \in Plans : [plan |-> plan, active |-> TRUE, ref |-> FALSE] \in Subscription
BY BillingAssumption DEF NoSub, Subscription, Plans, Free, Request

\* What a request merges into the row is a subscription.
LEMMA MergedIsSubscription ==
  ASSUME BillingTypeOK, NEW r \in Requests
  PROVE  Merged(r) \in Subscription
<1>1. request[r].old \in Subscription /\ request[r].event \in 0..MaxEvents
  BY DEF BillingTypeOK, Request
<1>2. request[r].old.plan \in Plans \cup {"unset"} /\ request[r].old.ref \in BOOLEAN
  BY <1>1 DEF Subscription
<1> DEFINE type == TypeOf(r)
           plan == CASE type = "created" -> "pro"
                     [] type # "created" /\ request[r].old.plan # "unset" -> request[r].old.plan
                     [] OTHER -> IF type = "canceled" THEN "free" ELSE "pro"
           ref == request[r].event # 0 \/ request[r].old.ref
<1>3. plan \in Plans \cup {"unset"}
  BY <1>2 DEF Plans
<1>4. ref \in BOOLEAN /\ (type # "canceled") \in BOOLEAN
  BY <1>2
<1>5. Merged(r) = [plan |-> plan, active |-> type # "canceled", ref |-> ref]
  BY DEF Merged
<1> HIDE DEF plan, ref, type
<1> QED
  BY <1>3, <1>4, <1>5 DEF Subscription

\* A step of one request.
LEMMA RequestTyped ==
  ASSUME BillingTypeOK, NEW r \in Requests, NEW new \in Request, request' = [request EXCEPT ![r] = new]
  PROVE  request' \in [Requests -> Request]
BY DEF BillingTypeOK

LEMMA BillingStepTyped ==
  BillingTypeOK /\ BillingInv /\ [BillingNext]_billingVars => BillingTypeOK'
<1> SUFFICES ASSUME BillingTypeOK, BillingInv, [BillingNext]_billingVars PROVE BillingTypeOK'
  OBVIOUS
<1> USE BillingValues, BillingAssumption
<1>1. ASSUME NEW o \in Owners, NEW from, NEW to, NEW type, Issue(o, from, to, type),
             to \in {"none", "active", "ending", "ended"}, type \in Types
      PROVE  /\ provider' \in [Owners -> {"none", "active", "ending", "ended"}]
             /\ events' \in [Owners -> Seq(Types)]
  BY <1>1 DEF BillingTypeOK, Issue
<1>2. {"created", "updated", "canceled"} \subseteq Types
  BY DEF Types
<1>3. ASSUME NEW o \in Owners, ProviderStep(o)
      PROVE  BillingTypeOK'
  <2>1. /\ provider' \in [Owners -> {"none", "active", "ending", "ended"}]
        /\ events' \in [Owners -> Seq(Types)]
    BY <1>1, <1>2, <1>3 DEF ProviderStep
  <2> QED
    BY <1>3, <2>1 DEF BillingTypeOK, ProviderStep
<1>4. ASSUME NEW r \in Requests, NEW o \in Owners, NEW n \in 1..MaxEvents, Deliver(r, o, n)
      PROVE  BillingTypeOK'
  <2>1. [pc |-> "mark", owner |-> o, event |-> n, old |-> NoSub] \in Request
    BY DEF Request
  <2> QED
    BY <1>4, <2>1, RequestTyped DEF BillingTypeOK, Deliver
<1>5. ASSUME NEW r \in Requests, NEW o \in Owners, Cancel(r, o)
      PROVE  BillingTypeOK'
  <2>1. [pc |-> "get", owner |-> o, event |-> 0, old |-> NoSub] \in Request
    BY DEF Request
  <2>2. /\ provider' \in [Owners -> {"none", "active", "ending", "ended"}]
        /\ events' \in [Owners -> Seq(Types)]
    BY <1>1, <1>2, <1>5 DEF Cancel, BillingTypeOK
  <2> QED
    BY <1>5, <2>1, <2>2, RequestTyped DEF BillingTypeOK, Cancel
<1>6. ASSUME NEW o \in Owners, NEW plan \in Plans, AdminSetPlan(o, plan)
      PROVE  BillingTypeOK'
  BY <1>6 DEF BillingTypeOK, AdminSetPlan
\* A request under way is of an owner.
<1>7. ASSUME NEW r \in Requests, request[r].pc # "idle"
      PROVE  /\ request[r] \in Request /\ request[r].owner \in Owners /\ request[r].event \in 0..MaxEvents
             /\ \A pc \in {"get", "save", "audit"}, old \in Subscription :
                  [request[r] EXCEPT !.pc = pc, !.old = old] \in Request
             /\ \A pc \in {"get", "save", "audit"} : [request[r] EXCEPT !.pc = pc] \in Request
  BY <1>7 DEF BillingTypeOK, BillingInv, BillingShape, Request
<1>8. ASSUME NEW r \in Requests, Mark(r)
      PROVE  BillingTypeOK'
  <2>1. request[r].pc = "mark" /\ request[r].event \in 1..MaxEvents
    BY <1>8 DEF Mark, BillingInv, BillingShape
  <2>2. request' \in [Requests -> Request]
    BY <1>7, <1>8, <2>1, RequestTyped DEF Mark
  <2>3. processed' \in [Owners -> SUBSET (1..MaxEvents)] /\ answered' \in [Owners -> SUBSET (1..MaxEvents)]
    <3>1. request[r].owner \in Owners
      BY <1>7, <2>1
    <3>2. PICK o, n : o = request[r].owner /\ n = request[r].event /\ o \in Owners /\ n \in 1..MaxEvents
      BY <2>1, <3>1
    <3>3. /\ processed' = processed \/ processed' = [processed EXCEPT ![o] = @ \cup {n}]
          /\ answered' = answered \/ answered' = [answered EXCEPT ![o] = @ \cup {n}]
      BY <1>8, <3>2 DEF Mark
    <3>4. {n} \subseteq 1..MaxEvents
      BY <3>2
    <3>5. [processed EXCEPT ![o] = @ \cup {n}] \in [Owners -> SUBSET (1..MaxEvents)]
      BY <3>2, <3>4, Zenon DEF BillingTypeOK
    <3>6. [answered EXCEPT ![o] = @ \cup {n}] \in [Owners -> SUBSET (1..MaxEvents)]
      BY <3>2, <3>4, Zenon DEF BillingTypeOK
    <3> QED
      BY <3>3, <3>5, <3>6 DEF BillingTypeOK
  <2> QED
    BY <1>8, <2>2, <2>3 DEF BillingTypeOK, Mark
<1>9. ASSUME NEW r \in Requests, ApplyGet(r)
      PROVE  BillingTypeOK'
  <2>1. request[r].owner \in Owners /\ request[r].pc = "get"
    BY <1>7, <1>9 DEF ApplyGet
  <2>2. [request[r] EXCEPT !.pc = "save", !.old = sub[request[r].owner]] \in Request
    BY <1>7, <2>1 DEF BillingTypeOK
  <2>3. request' = [request EXCEPT ![r] = [request[r] EXCEPT !.pc = "save", !.old = sub[request[r].owner]]]
    BY <1>9 DEF ApplyGet, BillingTypeOK
  <2>4. request' \in [Requests -> Request]
    BY <2>2, <2>3, RequestTyped
  <2> QED
    BY <1>9, <2>4 DEF BillingTypeOK, ApplyGet
<1>10. ASSUME NEW r \in Requests, ApplySave(r)
       PROVE  BillingTypeOK'
  <2>1. /\ request[r].owner \in Owners /\ request[r].event \in 0..MaxEvents
        /\ [request[r] EXCEPT !.pc = "audit"] \in Request
    BY <1>7, <1>10 DEF ApplySave
  <2>2. request' \in [Requests -> Request]
    BY <1>10, <2>1 DEF ApplySave, BillingTypeOK
  <2>3. sub' \in [Owners -> Subscription]
    BY <1>10, <2>1, MergedIsSubscription DEF BillingTypeOK, ApplySave
  <2>4. applied' \in [Owners -> [1..MaxEvents -> Nat]]
    <3>1. CASE request[r].event = 0
      BY <1>10, <3>1 DEF BillingTypeOK, ApplySave
    <3>2. CASE request[r].event # 0
      <4>1. request[r].event \in 1..MaxEvents
        BY <2>1, <3>2
      <4>2. [applied[request[r].owner] EXCEPT ![request[r].event] = @ + 1] \in [1..MaxEvents -> Nat]
        BY <2>1, <4>1 DEF BillingTypeOK
      <4> QED
        BY <1>10, <2>1, <3>2, <4>2 DEF BillingTypeOK, ApplySave
    <3> QED
      BY <3>1, <3>2
  <2> QED
    BY <1>10, <2>2, <2>3, <2>4 DEF BillingTypeOK, ApplySave
<1>11. ASSUME NEW r \in Requests, ApplyAudit(r)
       PROVE  BillingTypeOK'
  <2>1. request[r].owner \in Owners /\ request[r].event \in 0..MaxEvents
    BY <1>7, <1>11 DEF ApplyAudit
  <2>2. request' \in [Requests -> Request]
    BY <1>11, RequestTyped DEF ApplyAudit
  <2>3. trail' \in [Owners -> Seq(0..MaxEvents)]
    BY <1>11, <2>1 DEF BillingTypeOK, ApplyAudit
  <2>4. answered' \in [Owners -> SUBSET (1..MaxEvents)]
    <3>1. CASE request[r].event = 0
      BY <1>11, <3>1 DEF BillingTypeOK, ApplyAudit
    <3>2. CASE request[r].event # 0
      BY <1>11, <2>1, <3>2 DEF BillingTypeOK, ApplyAudit
    <3> QED
      BY <3>1, <3>2
  <2> QED
    BY <1>11, <2>2, <2>3, <2>4 DEF BillingTypeOK, ApplyAudit
<1>12. ASSUME NEW r \in Requests, Cut(r)
       PROVE  BillingTypeOK'
  BY <1>12, RequestTyped DEF BillingTypeOK, Cut
<1>13. CASE UNCHANGED billingVars
  BY <1>13 DEF BillingTypeOK, billingVars
<1> QED
  BY <1>3, <1>4, <1>5, <1>6, <1>8, <1>9, <1>10, <1>11, <1>12, <1>13 DEF BillingNext

\* Every variable of the subscriptions keeps its type.
LEMMA BillingIsTyped == BillingSpec => []BillingTypeOK
<1>1. BillingInit => BillingTypeOK
  <2> SUFFICES ASSUME BillingInit PROVE BillingTypeOK
    OBVIOUS
  <2>1. [n \in 1..MaxEvents |-> 0] \in [1..MaxEvents -> Nat] /\ 0 \in 0..MaxCrashes
        /\ <<>> \in Seq(Types) /\ <<>> \in Seq(0..MaxEvents)
    BY BillingAssumption
  <2> QED
    BY <2>1, BillingValues DEF BillingInit, BillingTypeOK
<1> QED
  BY <1>1, BillingStarts, BillingNextPreserves, BillingStepTyped, PTL DEF BillingSpec

\* Every variable of the generations of media keeps its type.
LEMMA MediaIsTyped == MediaSpec => []MediaTypeOK
<1>1. MediaInv => MediaTypeOK
  BY DEF MediaInv
<1> QED
  BY <1>1, MediaStarts, MediaNextPreserves, PTL DEF MediaSpec

-----------------------------------------------------------------------------
(* The services together.                                                  *)

\* One step of all of them is a step of the one in focus and of no other.
LEMMA NextIsOfEach ==
  ASSUME [Next]_servicesVars
  PROVE  /\ focus' = focus
         /\ [SchedulerNext]_schedulerVars /\ [AgentNext]_agentVars /\ [BillingNext]_billingVars
         /\ [WorkspaceNext]_workspaceVars /\ [CollabNext]_collabVars /\ [RouterNext]_routerVars
         /\ [ChatNext]_chatVars /\ [MediaNext]_mediaVars /\ [CoworkNext]_coworkVars
<1>1. CASE Next
  BY <1>1, Zenon DEF Next
<1>2. CASE UNCHANGED servicesVars
  BY <1>2 DEF servicesVars
<1> QED
  BY <1>1, <1>2

\* Composed, each service is the service of its own specification: what a theorem
\* says of one holds of it among the others (MCServices.tla, the modules it names).
THEOREM EachServiceIsItself ==
  Spec => /\ SchedulerSpec /\ AgentSpec /\ BillingSpec /\ WorkspaceSpec /\ CollabSpec
          /\ RouterSpec /\ ChatSpec /\ MediaSpec /\ CoworkSpec
<1>1. Init => /\ SchedulerInit /\ AgentInit /\ BillingInit /\ WorkspaceInit /\ CollabInit
              /\ RouterInit /\ ChatInit /\ MediaInit /\ CoworkInit
  BY Zenon DEF Init
<1>2. [Next]_servicesVars => [SchedulerNext]_schedulerVars
  BY NextIsOfEach, Zenon
<1>3. [Next]_servicesVars => [AgentNext]_agentVars
  BY NextIsOfEach, Zenon
<1>4. [Next]_servicesVars => [BillingNext]_billingVars
  BY NextIsOfEach, Zenon
<1>5. [Next]_servicesVars => [WorkspaceNext]_workspaceVars
  BY NextIsOfEach, Zenon
<1>6. [Next]_servicesVars => [CollabNext]_collabVars
  BY NextIsOfEach, Zenon
<1>7. [Next]_servicesVars => [RouterNext]_routerVars
  BY NextIsOfEach, Zenon
<1>8. [Next]_servicesVars => [ChatNext]_chatVars
  BY NextIsOfEach, Zenon
<1>9. [Next]_servicesVars => [MediaNext]_mediaVars
  BY NextIsOfEach, Zenon
<1>10. [Next]_servicesVars => [CoworkNext]_coworkVars
  BY NextIsOfEach, Zenon
<1> QED
  BY <1>1, <1>2, <1>3, <1>4, <1>5, <1>6, <1>7, <1>8, <1>9, <1>10, PTL
  DEF Spec, SchedulerSpec, AgentSpec, BillingSpec, WorkspaceSpec, CollabSpec, RouterSpec,
      ChatSpec, MediaSpec, CoworkSpec

\* Every variable of every service keeps its type, whatever people, providers and
\* networks do (the state of the nine modules that MCServices.tla composes).
THEOREM ServicesKeepTheirTypes == Spec => []ServicesTypeOK
<1>1. Init => focus \in Services
  BY DEF Init
<1>2. focus \in Services /\ [Next]_servicesVars => (focus \in Services)'
  BY NextIsOfEach DEF Services
<1>3. /\ focus \in Services
      /\ SchedulerTypeOK /\ AgentTypeOK /\ BillingTypeOK /\ WorkspaceTypeOK /\ CollabTypeOK
      /\ RouterTypeOK /\ ChatTypeOK /\ MediaTypeOK /\ CoworkTypeOK
      => ServicesTypeOK
  BY Zenon DEF ServicesTypeOK
<1>4. Spec => [](focus \in Services)
  BY <1>1, <1>2, PTL DEF Spec
<1> QED
  BY <1>3, <1>4, EachServiceIsItself, SchedulerIsTyped, AgentIsTyped, BillingIsTyped,
     WorkspaceIsTyped, CollabIsTyped, RouterIsTyped, ChatIsTyped, MediaIsTyped, CoworkIsTyped, PTL

\* What each service promises it keeps in the composition (the safety properties that
\* the run of MCServices.cfg checks; the scheduler's for ticks that never overlap).
THEOREM ServicesKeepTheirPromises ==
  Spec => /\ [](WritesAreGranted /\ TrailIsTheHistory)
          /\ [](AppliedOnceAndAudited /\ EntitledAsPaid)
          /\ [](WritesAreTrailed /\ OvershootIsBounded)
          /\ [](Converges /\ AnsweredByOne /\ TranscriptIsWhole)
          /\ [](MeteredAsDelivered /\ BriefIsOfThisRun)
          /\ OneTick => []FiresAsScheduled
<1> QED
  BY EachServiceIsItself, NoWriteWithoutGrant, EveryCallIsRecorded, EventsApplyOnce,
     PaidMeansEntitled, WritesLeaveTheirTrail, OvershootIsByFew, ReplicasConverge,
     OneAttemptAnswers, FiresOnTime, NothingAnsweredIsForgotten, DeliveredIsMetered,
     BriefsAreOfTheirRun, PTL
=============================================================================
