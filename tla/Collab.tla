------------------------------- MODULE Collab -------------------------------
(***************************************************************************)
(* One collaborative document: the browser tabs that edit it, each with a  *)
(* replica of the text CRDT, and the session the server keeps in memory.   *)
(* A tab turns every change of its text area into inserts and deletes,     *)
(* applies them to its replica and posts them without waiting: posts may   *)
(* overtake one another or be lost.  The server applies what it has not    *)
(* seen and appends it to its log; each tab's event stream sends the log   *)
(* from a cursor on, and is closed for good on the first error.            *)
(***************************************************************************)
EXTENDS Integers, FiniteSets, Sequences, SequencesExt

CONSTANTS
  Tabs,
  Letters,      \* the characters a user types
  Keystrokes,   \* bound on the changes made to the text areas
  MaxNames      \* bound on how often the document is opened

ASSUME CollabAssumption == Keystrokes \in Nat /\ MaxNames \in Nat \ {0}

VARIABLES
  tab,      \* tab[t]: the page of tab t
  log,      \* the session's operations in order of arrival
  server,   \* the session's replica
  posts,    \* batches of operations on their way to the server
  typed,    \* how many changes were made
  named,    \* the replica names in use, drawn at random when a tab opens
  faults    \* what has gone wrong: a post was lost, the server restarted

collabVars == <<tab, log, server, posts, typed, named, faults>>

Names == 1..MaxNames
ElemIds == Names \X Nat
DocStart == <<0, 0>>   \* `after: null`

-----------------------------------------------------------------------------
\* The CRDT

\* `ops`, the operations applied so far, is not in the code: it is what
\* convergence is stated about.
EmptyRga == [elems |-> [i \in {} |-> <<>>], tombstoned |-> {}, ops |-> {}]

Insertion(i, after, ch) == [type |-> "ins", id |-> i, after |-> after, ch |-> ch]
Deletion(i) == [type |-> "del", id |-> i]

Known(rga) == DOMAIN rga.elems

\* A replay of a known operation changes nothing.
Fresh(rga, op) ==
  IF op.type = "ins" THEN op.id \notin Known(rga) ELSE op.id \notin rga.tombstoned

ApplyInsert(rga, op) ==
  [rga EXCEPT !.elems = [i \in Known(rga) \cup {op.id} |->
     IF i = op.id
       THEN [after |-> op.after, ch |-> op.ch, deleted |-> i \in rga.tombstoned]
       ELSE rga.elems[i]]]

\* Seeded fault: a delete whose insert has not arrived is dropped.
ApplyDeleteUnlessUnknown(rga, op) ==
  IF op.id \in Known(rga)
    THEN [rga EXCEPT !.tombstoned = @ \cup {op.id}, !.elems[op.id].deleted = TRUE]
    ELSE rga

\* A delete that arrives before its insert is remembered.
ApplyDelete(rga, op) ==
  [rga EXCEPT !.tombstoned = @ \cup {op.id},
              !.elems = [i \in Known(rga) |->
                IF i = op.id THEN [@[i] EXCEPT !.deleted = TRUE] ELSE @[i]]]

Apply(rga, op) ==
  [IF ~Fresh(rga, op) THEN rga
   ELSE IF op.type = "ins" THEN ApplyInsert(rga, op)
   ELSE ApplyDelete(rga, op) EXCEPT !.ops = @ \cup {op}]

ApplyMany(rga, ops) == FoldLeft(Apply, rga, ops)

\* The order of ids: by counter, then by replica.
IdGreater(i, j) == i[2] > j[2] \/ (i[2] = j[2] /\ i[1] > j[1])

LargestFirst(ids) ==
  CHOOSE s \in [1..Cardinality(ids) -> ids] :
    \A k, l \in DOMAIN s : k < l => IdGreater(s[k], s[l])

\* Seeded fault: what hangs from an unknown element is shown at the start.
ChildrenAdopted(rga, after) ==
  LargestFirst({i \in Known(rga) :
                  \/ rga.elems[i].after = after
                  \/ after = DocStart /\ rga.elems[i].after \notin Known(rga)})

\* What was inserted right after `after`, larger ids first.
Children(rga, after) == LargestFirst({i \in Known(rga) : rga.elems[i].after = after})

\* What is shown after `after`, given what is shown after its children.
VisibleAfter(rga, walk, after) ==
  FoldLeft(LAMBDA out, i :
             out \o (IF rga.elems[i].deleted THEN <<>> ELSE <<i>>) \o walk[i],
           <<>>, Children(rga, after))

\* The document is a walk of the tree of `after`, each element before the ones
\* inserted after it; what hangs from an unknown element is not reached.
VisibleIds(rga) ==
  LET walk[after \in Known(rga) \cup {DocStart}] == VisibleAfter(rga, walk, after)
  IN  walk[DocStart]

TextOf(rga) ==
  LET ids == VisibleIds(rga)
  IN  [k \in 1..Len(ids) |-> rga.elems[ids[k]].ch]

-----------------------------------------------------------------------------
\* A tab's edits

\* An edit so far: the replica, its counter and the operations produced.
InsertAtIndex(edit, name, index, ch) ==
  LET ids == VisibleIds(edit.rga)
      after == IF index \in 1..Len(ids) THEN ids[index] ELSE DocStart
      op == Insertion(<<name, edit.counter + 1>>, after, ch)
  IN  [rga |-> Apply(edit.rga, op), counter |-> edit.counter + 1,
       ops |-> Append(edit.ops, op)]

InsertStringAt(edit, name, index, s) ==
  FoldLeftDomain(LAMBDA e, k : InsertAtIndex(e, name, index + k - 1, s[k]), edit, s)

\* Deleting n times at an index removes n neighbours.
DeleteAt(edit, index, n) ==
  LET ids == SubSeq(VisibleIds(edit.rga), index + 1, index + n)
      ops == [k \in 1..Len(ids) |-> Deletion(ids[k])]
  IN  [edit EXCEPT !.rga = ApplyMany(@, ops), !.ops = @ \o ops]

CommonPrefix(s, u) ==
  Max({k \in 0..Min({Len(s), Len(u)}) : SubSeq(s, 1, k) = SubSeq(u, 1, k)})

\* The text area against the replica: what lies between their common prefix and
\* their common suffix is deleted and typed anew.
ChangeToOps(page, next) ==
  LET prev == TextOf(page.rga)
      p == CommonPrefix(prev, next)
      s == CommonPrefix(Reverse(SubSeq(prev, p + 1, Len(prev))),
                        Reverse(SubSeq(next, p + 1, Len(next))))
      edit == [rga |-> page.rga, counter |-> page.counter, ops |-> <<>>]
  IN  InsertStringAt(DeleteAt(edit, p, Len(prev) - p - s), page.name, p,
                     SubSeq(next, p + 1, Len(next) - s))

-----------------------------------------------------------------------------
Closed == [open |-> FALSE, live |-> FALSE, name |-> 0, counter |-> 0,
           rga |-> EmptyRga, text |-> <<>>, cursor |-> 0]

CollabInit ==
  /\ tab = [t \in Tabs |-> Closed]
  /\ log = <<>>
  /\ server = EmptyRga
  /\ posts = {}
  /\ typed = 0
  /\ named = {}
  /\ faults = {}

\* The page draws a replica name, loads the whole log and subscribes from its
\* end on.
OpenDoc(t) ==
  /\ ~tab[t].open
  /\ \E name \in Names \ named :
       LET rga == ApplyMany(EmptyRga, log) IN
       /\ tab' = [tab EXCEPT ![t] =
            [open |-> TRUE, live |-> TRUE, name |-> name, counter |-> 0,
             rga |-> rga, text |-> TextOf(rga), cursor |-> Len(log)]]
       /\ named' = named \cup {name}
  /\ UNCHANGED <<log, server, posts, typed, faults>>

CloseDoc(t) ==
  /\ tab[t].open
  /\ tab' = [tab EXCEPT ![t] = Closed]
  /\ UNCHANGED <<log, server, posts, typed, named, faults>>

\* One key: a letter typed or erased somewhere in the text area.
NextTexts(text) ==
  {InsertAt(text, k, c) : k \in 1..(Len(text) + 1), c \in Letters}
    \cup {RemoveAt(text, k) : k \in 1..Len(text)}

\* The text area shows what was typed; the replica applies the operations it
\* stands for; the post is not awaited.
OnEdit(t) ==
  /\ tab[t].open
  /\ typed < Keystrokes
  /\ typed' = typed + 1
  /\ \E next \in NextTexts(tab[t].text) :
       LET edit == ChangeToOps(tab[t], next) IN
       /\ tab' = [tab EXCEPT ![t].text = next, ![t].rga = edit.rga,
                             ![t].counter = edit.counter]
       /\ posts' = posts \cup (IF edit.ops = <<>> THEN {} ELSE {edit.ops})
  /\ UNCHANGED <<log, server, named, faults>>

OpsSince(cursor, seq) == SubSeq(log, cursor + 1, seq)

\* The ends of the events that can be on their way to the tab: the server wrote
\* one when the log was that long.
Events(t) == (tab[t].cursor + 1)..Len(log)

\* Seeded fault: the cursor moves to the end of the log, not of what was sent.
OnEventSkipping(t) ==
  /\ tab[t].live
  /\ \E seq \in Events(t) :
       LET ops == OpsSince(tab[t].cursor, seq)
           rga == ApplyMany(tab[t].rga, ops)
       IN  tab' = [tab EXCEPT ![t].rga = rga, ![t].cursor = Len(log),
                              ![t].text = TextOf(rga)]
  /\ UNCHANGED <<log, server, posts, typed, named, faults>>

\* An event carries the log from the cursor on; the text area is redrawn only
\* if the replica changed.
OnEvent(t) ==
  /\ tab[t].live
  /\ \E seq \in Events(t) :
       LET ops == OpsSince(tab[t].cursor, seq)
           rga == ApplyMany(tab[t].rga, ops)
           changed == \E k \in DOMAIN ops : Fresh(tab[t].rga, ops[k])
       IN  tab' = [tab EXCEPT ![t].rga = rga, ![t].cursor = seq,
                              ![t].text = IF changed THEN TextOf(rga) ELSE @]
  /\ UNCHANGED <<log, server, posts, typed, named, faults>>

\* An error closes the stream; the page stays open and keeps editing.
StreamError(t) ==
  /\ tab[t].live
  /\ tab' = [tab EXCEPT ![t].live = FALSE]
  /\ UNCHANGED <<log, server, posts, typed, named, faults>>

\* The session applies each operation of a batch and logs it if it was new.
ApplyOps(session, ops) ==
  FoldLeft(LAMBDA s, op : [rga |-> Apply(s.rga, op),
                           log |-> IF Fresh(s.rga, op) THEN Append(s.log, op) ELSE s.log],
           session, ops)

PostOps ==
  /\ \E ops \in posts :
       LET session == ApplyOps([rga |-> server, log |-> log], ops) IN
       /\ server' = session.rga
       /\ log' = session.log
       /\ posts' = posts \ {ops}
  /\ UNCHANGED <<tab, typed, named, faults>>

\* A post that fails is caught and forgotten.
LosePost ==
  /\ \E ops \in posts : posts' = posts \ {ops}
  /\ faults' = faults \cup {"lost"}
  /\ UNCHANGED <<tab, log, server, typed, named>>

\* The session lives in memory: a restart forgets it and ends every stream.
RestartServer ==
  /\ "restarted" \notin faults
  /\ faults' = faults \cup {"restarted"}
  /\ log' = <<>>
  /\ server' = EmptyRga
  /\ tab' = [t \in Tabs |-> [tab[t] EXCEPT !.live = FALSE]]
  /\ UNCHANGED <<posts, typed, named>>

CollabNext ==
  \/ \E t \in Tabs : OpenDoc(t) \/ CloseDoc(t) \/ OnEdit(t) \/ OnEvent(t) \/ StreamError(t)
  \/ PostOps \/ LosePost \/ RestartServer

CollabSpec == CollabInit /\ [][CollabNext]_collabVars

-----------------------------------------------------------------------------
\* Properties

Replicas == {tab[t].rga : t \in Tabs} \cup {server}

\* Every variable keeps its type.
CollabTypeOK ==
  /\ named \subseteq Names /\ typed \in 0..Keystrokes
  /\ faults \subseteq {"lost", "restarted"}
  /\ \A t \in Tabs :
       /\ tab[t].open \in BOOLEAN /\ tab[t].live \in BOOLEAN
       /\ tab[t].live => tab[t].open /\ tab[t].cursor \in 0..Len(log)
       /\ tab[t].text \in Seq(Letters)
  /\ \A rga \in Replicas :
       /\ Known(rga) \subseteq ElemIds /\ rga.tombstoned \subseteq ElemIds
       /\ rga.elems \in [Known(rga) -> [after : ElemIds \cup {DocStart}, ch : Letters,
                                        deleted : BOOLEAN]]

\* Two characters both shown by two replicas stand in the same order in both.
OrderIsStable ==
  \A r, s \in Replicas :
    LET u == VisibleIds(r)
        v == VisibleIds(s)
    IN  \A i, j \in DOMAIN u, k, l \in DOMAIN v :
          (u[i] = v[k] /\ u[j] = v[l]) => (i < j <=> k < l)

\* A tab whose stream is live, once its own posts and the whole log have been
\* delivered, has the server's document.
CaughtUp ==
  faults = {} /\ posts = {} =>
    \A t \in Tabs :
      tab[t].live /\ tab[t].cursor = Len(log) =>
        tab[t].rga = server

\* Replicas that have applied the same operations, in whatever order and however
\* often, show the same text (rga.ts:3-5); and what two replicas both show stands
\* in the same order, whatever else the one has received and the other has not; and the
\* stream's cursor skips nothing.
Converges ==
  /\ OrderIsStable
  /\ \A r, s \in Replicas : r.ops = s.ops => TextOf(r) = TextOf(s)
  /\ CaughtUp

\* The text area of such a tab shows that document ("every client reaches the
\* same text", session.ts:6).
SameTextEverywhere ==
  faults = {} /\ posts = {} =>
    \A t \in Tabs :
      tab[t].live /\ tab[t].cursor = Len(log) =>
        tab[t].text = TextOf(server)
=============================================================================
