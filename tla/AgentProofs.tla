---------------------------- MODULE AgentProofs ----------------------------
(***************************************************************************)
(* For every set of streams, background runs and tools, every declaration  *)
(* of risks and every number of steps: no write happens without its grant, *)
(* and the audit trail is the history of the calls.  The argument for the  *)
(* grants: a prompt is in one place at a time -- on the screen, in an      *)
(* answer that travels, with the run that the answer let go on, or with    *)
(* the invocation that run made -- and it never goes back, so it lets one  *)
(* call through at most.                                                   *)
(* For any tabs, letters and names, the replicas of a document converge:   *)
(* an operation is a fact that only adds to a forest, whose order does not *)
(* depend on which of the others are there.                                *)
(***************************************************************************)
EXTENDS Agent, Collab, FiniteSetTheorems, SequenceTheorems, TLAPS

-----------------------------------------------------------------------------
(* The folds of the replica: one step of each.                             *)

Gather(how, acc, x) ==
  IF how.fold = "apply" THEN Apply(acc, x)
  ELSE IF how.fold = "serve" THEN
    [rga |-> Apply(acc.rga, x),
     log |-> IF Fresh(acc.rga, x) THEN Append(acc.log, x) ELSE acc.log]
  ELSE IF how.fold = "type" THEN InsertAtIndex(acc, how.name, how.index + x - 1, how.s[x])
  ELSE acc \o (IF how.rga.elems[x].deleted THEN <<>> ELSE <<x>>) \o how.walk[x]

INSTANCE Folding WITH Step <- Gather

LEMMA ApplyManyIs ==
  \A rga, ops : ApplyMany(rga, ops) = Folded([fold |-> "apply"], rga, ops)
BY DEF ApplyMany, FoldLeft, MapThenFoldSet, Folded, Folds, Gather

LEMMA ApplyOpsIs ==
  \A session, ops : ApplyOps(session, ops) = Folded([fold |-> "serve"], session, ops)
BY DEF ApplyOps, FoldLeft, MapThenFoldSet, Folded, Folds, Gather

LEMMA InsertStringIs ==
  \A edit, name, index, s :
    InsertStringAt(edit, name, index, s)
      = Folded([fold |-> "type", name |-> name, index |-> index, s |-> s], edit,
               [i \in DOMAIN s |-> i])
BY DEF InsertStringAt, FoldLeftDomain, FoldLeft, MapThenFoldSet, Folded, Folds, Gather

Walk(rga, walk) == [fold |-> "walk", rga |-> rga, walk |-> walk]
Visit(rga, walk, out, i) ==
  out \o (IF rga.elems[i].deleted THEN <<>> ELSE <<i>>) \o walk[i]
Visits(f, rga, walk, new) ==
  f = [s \in SUBSET DOMAIN new |->
         IF s = {} THEN <<>> ELSE Visit(rga, walk, f[s \ {Max(s)}], new[Max(s)])]
Walks(w, rga) == w = [a \in Known(rga) \cup {DocStart} |-> VisibleAfter(rga, w, a)]

LEMMA VisibleAfterIs ==
  \A rga, walk, a :
    VisibleAfter(rga, walk, a)
      = (CHOOSE f : Visits(f, rga, walk, Children(rga, a)))[DOMAIN Children(rga, a)]
BY DEF VisibleAfter, FoldLeft, MapThenFoldSet, Visits, Visit

LEMMA VisitIsStep ==
  \A rga, walk, out, i : Gather(Walk(rga, walk), out, i) = Visit(rga, walk, out, i)
<1>1. \A rga, walk : LET how == Walk(rga, walk)
                    IN  how.fold = "walk" /\ how.rga = rga /\ how.walk = walk
  BY DEF Walk
<1> QED
  BY <1>1 DEF Gather, Visit

LEMMA WalkRuns ==
  ASSUME NEW n \in Nat, NEW rga, NEW walk, NEW a, DOMAIN Children(rga, a) = 1..n
  PROVE  \E g : Runs(g, Walk(rga, walk), <<>>, Children(rga, a), n)
                  /\ VisibleAfter(rga, walk, a) = g[n]
<1> DEFINE how == Walk(rga, walk)
<1> DEFINE new == Children(rga, a)
<1>1. \A f : Visits(f, rga, walk, new) <=> Folds(f, how, <<>>, new, 1..n)
  <2>1. DOMAIN new = 1..n /\ \A out, i : Gather(how, out, i) = Visit(rga, walk, out, i)
    BY VisitIsStep
  <2> HIDE DEF how, new
  <2> QED
    BY <2>1 DEF Visits, Folds
<1> DEFINE f == CHOOSE h : Visits(h, rga, walk, new)
<1>2. \E h : Folds(h, how, <<>>, new, 1..n)
  BY FoldsExist
<1>3. Folds(f, how, <<>>, new, 1..n)
  BY <1>1, <1>2
<1>4. VisibleAfter(rga, walk, a) = f[1..n]
  BY VisibleAfterIs
<1> HIDE DEF f, how, new
<1>5. \E g : Runs(g, how, <<>>, new, n) /\ f[1..n] = g[n]
  BY <1>3, FoldRuns
<1> QED
  BY <1>4, <1>5 DEF how, new

LEMMA VisibleIs ==
  \A rga : VisibleIds(rga) = (CHOOSE w : Walks(w, rga))[DocStart]
BY DEF VisibleIds, Walks

-----------------------------------------------------------------------------
(* The children of an element, each once, in the order of their ids.       *)

Sorted(s) == \A k, l \in DOMAIN s : k < l => IdGreater(s[k], s[l])

LEMMA IdsAreNumbers == \A i \in ElemIds : i = <<i[1], i[2]>> /\ i[1] \in Nat /\ i[2] \in Nat
BY CollabAssumption DEF ElemIds, Names

LEMMA GreaterIsTotal ==
  \A i, j \in ElemIds : /\ i # j => IdGreater(i, j) \/ IdGreater(j, i)
                      /\ ~(IdGreater(i, j) /\ IdGreater(j, i))
BY IdsAreNumbers DEF IdGreater

LEMMA LeastId ==
  ASSUME NEW S \in SUBSET ElemIds, S # {}
  PROVE  \E m \in S : \A j \in S : j # m => IdGreater(j, m)
<1> DEFINE counters == {i[2] : i \in S}
<1>1. counters \in SUBSET Nat /\ counters # {}
  BY IdsAreNumbers
<1>2. PICK c \in counters : \A d \in counters : c <= d
  BY <1>1, Smallest
<1> DEFINE names == {i[1] : i \in {j \in S : j[2] = c}}
<1>3. names \in SUBSET Nat /\ names # {}
  BY IdsAreNumbers
<1>4. PICK n \in names : \A d \in names : n <= d
  BY <1>3, Smallest
<1>5. PICK m \in S : m[2] = c /\ m[1] = n
  OBVIOUS
<1>6. ASSUME NEW j \in S, j # m
      PROVE  IdGreater(j, m)
  <2>1. j[2] \in counters /\ c <= j[2] /\ j \in ElemIds /\ m \in ElemIds
    BY <1>2
  <2>2. j[2] = c => j[1] \in names /\ n <= j[1]
    BY <1>4
  <2>3. j[2] = c => j[1] # n
    BY <1>5, <1>6, <2>1, IdsAreNumbers
  <2> QED
    BY <1>5, <2>1, <2>2, <2>3, IdsAreNumbers DEF IdGreater
<1> QED
  BY <1>6

SortsOut(s, S) == s \in [1..Cardinality(S) -> S] /\ Sorted(s)

LEMMA SortedExists ==
  ASSUME NEW S \in SUBSET ElemIds, IsFiniteSet(S)
  PROVE  \E s : SortsOut(s, S)
<1> DEFINE bad == {n \in Nat : \E T \in SUBSET ElemIds :
                     IsFiniteSet(T) /\ Cardinality(T) = n /\ ~\E s : SortsOut(s, T)}
<1>1. SUFFICES ASSUME bad # {} PROVE FALSE
  BY FS_CardinalityType
<1>2. PICK n \in bad : \A k \in bad : n <= k
  BY <1>1, Smallest
<1>3. PICK T \in SUBSET ElemIds : IsFiniteSet(T) /\ Cardinality(T) = n /\ ~\E s : SortsOut(s, T)
  BY <1>2
<1>4. T # {}
  <2>1. SUFFICES ASSUME T = {} PROVE FALSE
    OBVIOUS
  <2>2. Cardinality(T) = 0
    BY <1>3, <2>1, FS_EmptySet
  <2>3. <<>> \in [1..0 -> T] /\ Sorted(<<>>)
    BY DEF Sorted
  <2> QED
    BY <1>3, <2>2, <2>3 DEF SortsOut
<1>5. PICK m \in T : \A j \in T : j # m => IdGreater(j, m)
  BY <1>4, LeastId
<1> DEFINE U == T \ {m}
<1>6. IsFiniteSet(U) /\ Cardinality(U) = n - 1 /\ Cardinality(U) \in Nat /\ U \in SUBSET ElemIds
  BY <1>3, FS_RemoveElement, FS_CardinalityType
<1>7. PICK s : SortsOut(s, U)
  <2>1. ~(n <= n - 1)
    BY <1>2
  <2>2. Cardinality(U) \notin bad
    BY <1>2, <1>6, <2>1
  <2> QED
    BY <1>6, <2>2
<1> DEFINE u == [k \in 1..n |-> IF k = n THEN m ELSE s[k]]
<1>8. n \in Nat /\ s \in [1..(n - 1) -> U] /\ \A k \in 1..n : k # n => k \in 1..(n - 1)
  <2>1. n \in Nat
    BY <1>2
  <2>2. Cardinality(U) = n - 1
    BY <1>6
  <2> HIDE DEF U
  <2>3. s \in [1..Cardinality(U) -> U]
    BY <1>7 DEF SortsOut
  <2>4. s \in [1..(n - 1) -> U]
    BY <2>2, <2>3
  <2>5. \A k \in 1..n : k # n => k \in 1..(n - 1)
    BY <2>1
  <2> QED
    BY <2>1, <2>4, <2>5
<1>9. u \in [1..n -> T]
  BY <1>8
<1>10. ASSUME NEW k \in 1..n, NEW l \in 1..n, k < l
       PROVE  IdGreater(u[k], u[l])
  <2>1. k \in 1..(n - 1) /\ u[k] = s[k] /\ s[k] \in U
    BY <1>8, <1>10
  <2>2. CASE l = n
    BY <1>5, <2>1, <2>2
  <2>3. CASE l # n
    <3>1. l \in 1..(n - 1) /\ u[l] = s[l]
      BY <1>8, <2>3
    <3>2. DOMAIN s = 1..(n - 1) /\ Sorted(s)
      BY <1>7, <1>8 DEF SortsOut
    <3> QED
      BY <1>10, <2>1, <3>1, <3>2 DEF Sorted
  <2> QED
    BY <2>2, <2>3
<1>11. SortsOut(u, T)
  <2>1. DOMAIN u = 1..n
    OBVIOUS
  <2> QED
    BY <1>3, <1>9, <1>10, <2>1 DEF SortsOut, Sorted
<1> QED
  BY <1>3, <1>11

\* s lists S: each member once, larger ids first.
Lists(s, S, n) ==
  /\ n \in Nat /\ s \in [1..n -> S] /\ Sorted(s)
  /\ \A i \in S : \E k \in 1..n : s[k] = i

LEMMA LargestFirstLists ==
  ASSUME NEW S \in SUBSET ElemIds, IsFiniteSet(S)
  PROVE  Lists(LargestFirst(S), S, Cardinality(S))
<1> DEFINE s == LargestFirst(S)
<1> DEFINE n == Cardinality(S)
<1>1. n \in Nat
  BY FS_CardinalityType
<1>2. s \in [1..n -> S] /\ Sorted(s)
  BY SortedExists DEF LargestFirst, SortsOut, Sorted
<1>3. s \in Injection(1..n, S)
  <2>1. ASSUME NEW k \in 1..n, NEW l \in 1..n, s[k] = s[l], k # l
        PROVE  FALSE
    <3>1. IdGreater(s[k], s[k]) /\ s[k] \in ElemIds
      BY <1>1, <1>2, <2>1 DEF Sorted
    <3> QED
      BY <3>1, GreaterIsTotal
  <2>2. DOMAIN s = 1..n
    BY <1>2
  <2>3. \A k, l \in DOMAIN s : s[k] = s[l] => k = l
    BY <2>1, <2>2
  <2> HIDE DEF s
  <2> QED
    BY <1>2, <2>3, Zenon DEF Injection, IsInjective
<1>4. s \in Surjection(1..n, S)
  <2>1. IsFiniteSet(1..n) /\ Cardinality(1..n) = n
    BY <1>1, FS_Interval
  <2> HIDE DEF s
  <2> QED
    BY <1>3, <2>1, FS_Injection
<1>5. \A i \in S : \E k \in 1..n : s[k] = i
  BY <1>4 DEF Surjection
<1> QED
  BY <1>1, <1>2, <1>5 DEF Lists

-----------------------------------------------------------------------------
(* The operations, and what a replica that has applied some of them holds. *)

Places == ElemIds \cup {DocStart}
Insertions == [type : {"ins"}, id : ElemIds, after : Places, ch : Letters]
Deletions == [type : {"del"}, id : ElemIds]
Ops == Insertions \cup Deletions

Ins(A) == {o \in A : o.type = "ins"}
IdsOf(A) == {o.id : o \in Ins(A)}
Deleted(A) == {o.id : o \in {p \in A : p.type = "del"}}

\* The replica's state is what the set of its operations says, in whatever
\* order they came.
Reflects(rga) ==
  /\ rga = [elems |-> rga.elems, tombstoned |-> rga.tombstoned, ops |-> rga.ops]
  /\ rga.ops \in SUBSET Ops
  /\ Known(rga) = IdsOf(rga.ops) /\ IsFiniteSet(Known(rga))
  /\ rga.tombstoned = Deleted(rga.ops)
  /\ rga.elems = [i \in Known(rga) |-> rga.elems[i]]
  /\ \A o \in Ins(rga.ops) :
       rga.elems[o.id] = [after |-> o.after, ch |-> o.ch, deleted |-> o.id \in rga.tombstoned]

\* One insertion per id.
OneEach(A) == \A o, p \in Ins(A) : o.id = p.id => o = p

LEMMA OpsAre ==
  \A o \in Ops :
    /\ o.id \in ElemIds
    /\ o.type = "ins" => o \in Insertions /\ o.after \in Places /\ o.ch \in Letters
                           /\ o = [type |-> "ins", id |-> o.id, after |-> o.after, ch |-> o.ch]
    /\ o.type # "ins" => o \in Deletions /\ o.type = "del" /\ o = [type |-> "del", id |-> o.id]
BY DEF Ops, Insertions, Deletions

LEMMA NewOps ==
  /\ \A i \in ElemIds, after \in Places, ch \in Letters :
       LET o == Insertion(i, after, ch)
       IN  o \in Ops /\ o.type = "ins" /\ o.id = i /\ o.after = after /\ o.ch = ch
  /\ \A i \in ElemIds :
       LET o == Deletion(i) IN o \in Ops /\ o.type = "del" /\ o.id = i
BY DEF Ops, Insertions, Deletions, Insertion, Deletion

LEMMA EmptyReflects == Reflects(EmptyRga) /\ EmptyRga.ops = {} /\ EmptyRga.tombstoned = {}
<1>1. EmptyRga.elems = [i \in {} |-> <<>>] /\ EmptyRga.ops = {} /\ EmptyRga.tombstoned = {}
  BY DEF EmptyRga
<1>2. Ins({}) = {} /\ IdsOf({}) = {} /\ Deleted({}) = {} /\ IsFiniteSet({})
  BY FS_EmptySet DEF Ins, IdsOf, Deleted
<1>3. Known(EmptyRga) = {}
  BY <1>1 DEF Known
<1>4. EmptyRga.elems = [i \in Known(EmptyRga) |-> EmptyRga.elems[i]]
  BY <1>1, <1>3
<1>5. EmptyRga = [elems |-> EmptyRga.elems, tombstoned |-> EmptyRga.tombstoned,
                  ops |-> EmptyRga.ops]
  BY DEF EmptyRga
<1> QED
  BY <1>1, <1>2, <1>3, <1>4, <1>5 DEF Reflects

LEMMA OneOpMore ==
  ASSUME NEW A, NEW op
  PROVE  /\ op.type = "ins" => /\ Ins(A \cup {op}) = Ins(A) \cup {op}
                               /\ IdsOf(A \cup {op}) = IdsOf(A) \cup {op.id}
                               /\ Deleted(A \cup {op}) = Deleted(A)
         /\ op.type = "del" => /\ Ins(A \cup {op}) = Ins(A)
                               /\ IdsOf(A \cup {op}) = IdsOf(A)
                               /\ Deleted(A \cup {op}) = Deleted(A) \cup {op.id}
BY DEF Ins, IdsOf, Deleted

\* Applying an operation: the same set of operations with it added, and the
\* state that set stands for.
LEMMA ApplyKeeps ==
  ASSUME NEW rga, Reflects(rga), NEW op \in Ops, OneEach(rga.ops \cup {op})
  PROVE  /\ Reflects(Apply(rga, op))
         /\ Apply(rga, op).ops = rga.ops \cup {op}
         /\ ~Fresh(rga, op) => op \in rga.ops
<1> DEFINE B == rga.ops \cup {op}
<1> DEFINE new == Apply(rga, op)
<1>1. op.id \in ElemIds /\ B \in SUBSET Ops
  BY OpsAre DEF Reflects
<1>2. rga = [elems |-> rga.elems, tombstoned |-> rga.tombstoned, ops |-> rga.ops]
  BY DEF Reflects
<1>3. CASE op.type = "ins" /\ op.id \in Known(rga)
  <2>1. PICK o \in Ins(rga.ops) : o.id = op.id
    BY <1>3 DEF Reflects, IdsOf
  <2>2. op = o
    BY <1>3, <2>1 DEF OneEach, Ins
  <2>3. op \in rga.ops /\ B = rga.ops
    BY <2>1, <2>2 DEF Ins
  <2>4. new = [rga EXCEPT !.ops = @ \cup {op}]
    BY <1>3 DEF Apply, Fresh
  <2>5. new = rga
    BY <1>2, <2>3, <2>4
  <2> QED
    BY <2>3, <2>5
<1>4. CASE op.type = "del" /\ op.id \in rga.tombstoned
  <2>1. PICK o \in rga.ops : o.type = "del" /\ o.id = op.id
    BY <1>4 DEF Reflects, Deleted
  <2>2. op = o
    BY <1>1, <1>4, <2>1, OpsAre DEF Reflects
  <2>3. op \in rga.ops /\ B = rga.ops
    BY <2>1, <2>2
  <2>4. new = [rga EXCEPT !.ops = @ \cup {op}]
    BY <1>4 DEF Apply, Fresh
  <2>5. new = rga
    BY <1>2, <2>3, <2>4
  <2> QED
    BY <2>3, <2>5
<1>5. CASE op.type = "ins" /\ op.id \notin Known(rga)
  <2> DEFINE elems == [i \in Known(rga) \cup {op.id} |->
         IF i = op.id
           THEN [after |-> op.after, ch |-> op.ch, deleted |-> i \in rga.tombstoned]
           ELSE rga.elems[i]]
  <2>1. new = [elems |-> elems, tombstoned |-> rga.tombstoned, ops |-> B]
    <3>1. new = [ApplyInsert(rga, op) EXCEPT !.ops = @ \cup {op}]
      BY <1>5 DEF Apply, Fresh
    <3>2. ApplyInsert(rga, op) = [rga EXCEPT !.elems = elems]
      BY DEF ApplyInsert
    <3> HIDE DEF elems
    <3>3. ApplyInsert(rga, op) = [elems |-> elems, tombstoned |-> rga.tombstoned, ops |-> rga.ops]
      BY <1>2, <3>2
    <3> QED
      BY <3>1, <3>3
  <2>2. new.elems = elems /\ new.tombstoned = rga.tombstoned /\ new.ops = B
    BY <2>1
  <2>3. Known(new) = Known(rga) \cup {op.id}
    BY <2>2 DEF Known
  <2>4. IsFiniteSet(Known(new))
    BY <2>3, FS_AddElement DEF Reflects
  <2>5. Known(new) = IdsOf(B) /\ new.tombstoned = Deleted(B)
    BY <1>5, <2>2, <2>3, OneOpMore DEF Reflects
  <2>6. new.elems = [i \in Known(new) |-> new.elems[i]]
    BY <2>2, <2>3
  <2>7. ASSUME NEW o \in Ins(B)
        PROVE  new.elems[o.id]
                 = [after |-> o.after, ch |-> o.ch, deleted |-> o.id \in new.tombstoned]
    <3>1. CASE o = op
      BY <2>2, <3>1
    <3>2. CASE o # op
      <4>1. o \in Ins(rga.ops) /\ o.id \in Known(rga) /\ o.id # op.id
        BY <1>5, <3>2 DEF Ins, Reflects, IdsOf
      <4>2. new.elems[o.id] = rga.elems[o.id]
        BY <2>2, <4>1
      <4> QED
        BY <2>2, <4>1, <4>2 DEF Reflects
    <3> QED
      BY <3>1, <3>2
  <2>8. new = [elems |-> new.elems, tombstoned |-> new.tombstoned, ops |-> new.ops]
    BY <2>1, <2>2
  <2>9. Fresh(rga, op)
    BY <1>5 DEF Fresh
  <2> HIDE DEF new, elems
  <2> QED
    BY <1>1, <2>2, <2>4, <2>5, <2>6, <2>7, <2>8, <2>9 DEF Reflects, new
<1>6. CASE op.type = "del" /\ op.id \notin rga.tombstoned
  <2> DEFINE elems == [i \in Known(rga) |->
         IF i = op.id THEN [rga.elems[i] EXCEPT !.deleted = TRUE] ELSE rga.elems[i]]
  <2>1. new = [elems |-> elems, tombstoned |-> rga.tombstoned \cup {op.id}, ops |-> B]
    <3> DEFINE mid == [elems |-> elems, tombstoned |-> rga.tombstoned \cup {op.id}, ops |-> rga.ops]
    <3>1. new = [ApplyDelete(rga, op) EXCEPT !.ops = @ \cup {op}]
      BY <1>6 DEF Apply, Fresh
    <3>2. ApplyDelete(rga, op) = [rga EXCEPT !.tombstoned = @ \cup {op.id}, !.elems = elems]
      BY DEF ApplyDelete
    <3> HIDE DEF elems
    <3>3. ApplyDelete(rga, op) = mid
      BY <1>2, <3>2
    <3> QED
      BY <3>1, <3>3
  <2>2. new.elems = elems /\ new.tombstoned = rga.tombstoned \cup {op.id} /\ new.ops = B
    BY <2>1
  <2>3. Known(new) = Known(rga)
    BY <2>2 DEF Known
  <2>4. IsFiniteSet(Known(new))
    BY <2>3 DEF Reflects
  <2>5. Known(new) = IdsOf(B) /\ new.tombstoned = Deleted(B) /\ Ins(B) = Ins(rga.ops)
    BY <1>6, <2>2, <2>3, OneOpMore DEF Reflects
  <2>6. new.elems = [i \in Known(new) |-> new.elems[i]]
    BY <2>2, <2>3
  <2>7. ASSUME NEW o \in Ins(B)
        PROVE  new.elems[o.id]
                 = [after |-> o.after, ch |-> o.ch, deleted |-> o.id \in new.tombstoned]
    <3>1. o \in Ins(rga.ops) /\ o.id \in Known(rga)
      BY <2>5 DEF Reflects, IdsOf
    <3>2. rga.elems[o.id]
            = [after |-> o.after, ch |-> o.ch, deleted |-> o.id \in rga.tombstoned]
      BY <3>1 DEF Reflects
    <3>3. CASE o.id = op.id
      <4>1. new.elems[o.id] = [rga.elems[o.id] EXCEPT !.deleted = TRUE]
        BY <2>2, <3>1, <3>3
      <4>2. o.id \in new.tombstoned
        BY <2>2, <3>3
      <4>3. new.elems[o.id] = [after |-> o.after, ch |-> o.ch, deleted |-> TRUE]
        <5> DEFINE x == rga.elems[o.id]
        <5> DEFINE yes == TRUE
        <5> DEFINE was == (o.id \in rga.tombstoned)
        <5>1. x = [after |-> o.after, ch |-> o.ch, deleted |-> was]
          BY <3>2
        <5>2. new.elems[o.id] = [x EXCEPT !.deleted = yes]
          BY <4>1
        <5> HIDE DEF x, yes, was, new
        <5>3. new.elems[o.id] = [after |-> o.after, ch |-> o.ch, deleted |-> yes]
          BY <5>1, <5>2
        <5> QED
          BY <5>3 DEF yes
      <4>4. (o.id \in new.tombstoned) = TRUE
        BY <4>2
      <4> QED
        BY <4>3, <4>4
    <3>4. CASE o.id # op.id
      <4>1. new.elems[o.id] = rga.elems[o.id]
        BY <2>2, <3>1, <3>4
      <4>2. (o.id \in new.tombstoned) = (o.id \in rga.tombstoned)
        BY <2>2, <3>4
      <4> HIDE DEF new
      <4> QED
        BY <3>2, <4>1, <4>2
    <3> QED
      BY <3>3, <3>4
  <2>8. new = [elems |-> new.elems, tombstoned |-> new.tombstoned, ops |-> new.ops]
    BY <2>1, <2>2
  <2>9. Fresh(rga, op)
    BY <1>6 DEF Fresh
  <2> HIDE DEF new, elems
  <2> QED
    BY <1>1, <2>2, <2>4, <2>5, <2>6, <2>7, <2>8, <2>9 DEF Reflects, new
<1> QED
  BY <1>3, <1>4, <1>5, <1>6, OpsAre

LEMMA ReplicasAgree ==
  ASSUME NEW r, NEW s, Reflects(r), Reflects(s), r.ops = s.ops
  PROVE  r = s
<1>1. Known(r) = Known(s) /\ r.tombstoned = s.tombstoned
  BY DEF Reflects
<1>2. \A i \in Known(r) : r.elems[i] = s.elems[i]
  <2>1. SUFFICES ASSUME NEW i \in Known(r) PROVE r.elems[i] = s.elems[i]
    OBVIOUS
  <2>2. PICK o \in Ins(r.ops) : o.id = i
    BY DEF Reflects, IdsOf
  <2>3. r.elems[o.id] = [after |-> o.after, ch |-> o.ch, deleted |-> o.id \in r.tombstoned]
    BY DEF Reflects
  <2>4. s.elems[o.id] = [after |-> o.after, ch |-> o.ch, deleted |-> o.id \in s.tombstoned]
    BY DEF Reflects
  <2> QED
    BY <1>1, <2>2, <2>3, <2>4
<1>3. r.elems = s.elems
  <2>1. r.elems = [i \in Known(r) |-> r.elems[i]] /\ s.elems = [i \in Known(s) |-> s.elems[i]]
    BY DEF Reflects
  <2> QED
    BY <1>1, <1>2, <2>1
<1> QED
  BY <1>1, <1>3 DEF Reflects

LEMMA OneEachBelow ==
  \A A, B : A \subseteq B /\ OneEach(B) => OneEach(A)
BY DEF OneEach, Ins

LEMMA ApplyManyKeeps ==
  ASSUME NEW rga, Reflects(rga), NEW ops \in Seq(Ops), OneEach(rga.ops \cup ToSet(ops))
  PROVE  /\ Reflects(ApplyMany(rga, ops))
         /\ ApplyMany(rga, ops).ops = rga.ops \cup ToSet(ops)
<1> DEFINE n == Len(ops)
<1> DEFINE how == [fold |-> "apply"]
<1>1. n \in Nat /\ DOMAIN ops = 1..n /\ \A k \in 1..n : ops[k] \in Ops /\ ops[k] \in ToSet(ops)
  BY DEF ToSet
<1> HIDE DEF n
<1>2. PICK g : Runs(g, how, rga, ops, n) /\ Folded(how, rga, ops) = g[n]
  BY <1>1, FoldedRuns
<1> DEFINE Done(k) == {ops[j] : j \in 1..k}
<1> DEFINE Ok(k) == Reflects(g[k]) /\ g[k].ops = rga.ops \cup Done(k)
<1>3. Ok(0)
  <2>1. g[0] = rga /\ Done(0) = {}
    BY <1>2 DEF Runs
  <2> QED
    BY <2>1
<1>4. ASSUME NEW k \in 1..n, Ok(k - 1)
      PROVE  Ok(k)
  <2>1. g[k] = Apply(g[k - 1], ops[k])
    BY <1>2 DEF Runs, Gather
  <2>2. Done(k) = Done(k - 1) \cup {ops[k]}
    <3>1. 1..k = (1..(k - 1)) \cup {k}
      BY <1>1
    <3> QED
      BY <3>1
  <2>3. Done(k) \subseteq ToSet(ops)
    BY <1>1
  <2> HIDE DEF Done
  <2>4. OneEach(g[k - 1].ops \cup {ops[k]})
    <3>1. g[k - 1].ops \cup {ops[k]} \subseteq rga.ops \cup ToSet(ops)
      BY <1>4, <2>2, <2>3
    <3> QED
      BY <3>1, OneEachBelow
  <2>5. Reflects(Apply(g[k - 1], ops[k]))
          /\ Apply(g[k - 1], ops[k]).ops = g[k - 1].ops \cup {ops[k]}
    BY <1>1, <1>4, <2>4, ApplyKeeps
  <2> QED
    BY <1>4, <2>1, <2>2, <2>5
<1> DEFINE good == {k \in Nat : Ok(k)}
<1> HIDE DEF Ok
<1>5. \A k \in 0..n : k \in good
  <2>1. 0 \in good /\ \A k \in 1..n : k - 1 \in good => k \in good
    BY <1>1, <1>3, <1>4
  <2> HIDE DEF good
  <2> QED
    BY <1>1, <2>1, StepByStep
<1>6. Ok(n)
  BY <1>1, <1>5
<1>7. Done(n) = ToSet(ops)
  BY <1>1 DEF ToSet
<1>8. ApplyMany(rga, ops) = g[n]
  BY <1>2, ApplyManyIs
<1> QED
  BY <1>6, <1>7, <1>8 DEF Ok

\* The session after a batch: its replica as above, its log the old one with
\* what was new appended.
LEMMA ApplyOpsKeeps ==
  ASSUME NEW rga, Reflects(rga), NEW l \in Seq(Ops), ToSet(l) = rga.ops,
         NEW ops \in Seq(Ops), OneEach(rga.ops \cup ToSet(ops))
  PROVE  LET s == ApplyOps([rga |-> rga, log |-> l], ops)
         IN  /\ Reflects(s.rga) /\ s.rga.ops = rga.ops \cup ToSet(ops)
             /\ s.log \in Seq(Ops) /\ ToSet(s.log) = s.rga.ops
             /\ Len(l) <= Len(s.log) /\ \A k \in 1..Len(l) : s.log[k] = l[k]
<1> DEFINE n == Len(ops)
<1> DEFINE how == [fold |-> "serve"]
<1> DEFINE session == [rga |-> rga, log |-> l]
<1>1. n \in Nat /\ DOMAIN ops = 1..n /\ \A k \in 1..n : ops[k] \in Ops /\ ops[k] \in ToSet(ops)
  BY DEF ToSet
<1> HIDE DEF n
<1>2. PICK g : Runs(g, how, session, ops, n) /\ Folded(how, session, ops) = g[n]
  BY <1>1, FoldedRuns
<1> DEFINE Done(k) == {ops[j] : j \in 1..k}
<1> DEFINE Ok(k) ==
  /\ Reflects(g[k].rga) /\ g[k].rga.ops = rga.ops \cup Done(k)
  /\ g[k].log \in Seq(Ops) /\ ToSet(g[k].log) = g[k].rga.ops
  /\ Len(l) <= Len(g[k].log) /\ \A j \in 1..Len(l) : g[k].log[j] = l[j]
<1>3. Ok(0)
  <2>1. g[0] = session /\ Done(0) = {}
    BY <1>2 DEF Runs
  <2>2. g[0].rga = rga /\ g[0].log = l
    BY <2>1
  <2> QED
    BY <2>1, <2>2
<1>4. ASSUME NEW k \in 1..n, Ok(k - 1)
      PROVE  Ok(k)
  <2> DEFINE old == g[k - 1]
  <2> DEFINE op == ops[k]
  <2>1. g[k] = [rga |-> Apply(old.rga, op),
                log |-> IF Fresh(old.rga, op) THEN Append(old.log, op) ELSE old.log]
    BY <1>2 DEF Runs, Gather
  <2>2. Done(k) = Done(k - 1) \cup {op}
    <3>1. 1..k = (1..(k - 1)) \cup {k}
      BY <1>1
    <3> QED
      BY <3>1
  <2>3. Done(k) \subseteq ToSet(ops)
    BY <1>1
  <2>4. Reflects(old.rga) /\ old.rga.ops = rga.ops \cup Done(k - 1) /\ op \in Ops
    BY <1>1, <1>4
  <2>5. old.log \in Seq(Ops) /\ ToSet(old.log) = old.rga.ops
          /\ Len(l) <= Len(old.log) /\ \A j \in 1..Len(l) : old.log[j] = l[j]
    BY <1>4
  <2> HIDE DEF Done, op, old
  <2>6. OneEach(old.rga.ops \cup {op})
    <3>1. old.rga.ops \cup {op} \subseteq rga.ops \cup ToSet(ops)
      BY <2>2, <2>3, <2>4
    <3> QED
      BY <3>1, OneEachBelow
  <2>7. /\ Reflects(Apply(old.rga, op))
        /\ Apply(old.rga, op).ops = old.rga.ops \cup {op}
        /\ ~Fresh(old.rga, op) => op \in old.rga.ops
    BY <2>4, <2>6, ApplyKeeps
  <2>0. g[k].rga.ops = old.rga.ops \cup {op}
    <3>1. g[k].rga = Apply(old.rga, op)
      BY <2>1
    <3> QED
      BY <2>7, <3>1
  <2>8. Reflects(g[k].rga) /\ g[k].rga.ops = rga.ops \cup Done(k)
    BY <2>1, <2>2, <2>4, <2>7
  <2>9. CASE Fresh(old.rga, op)
    <3>1. g[k].log = Append(old.log, op)
      BY <2>1, <2>9
    <3>2. g[k].log \in Seq(Ops) /\ Len(g[k].log) = Len(old.log) + 1
      BY <2>4, <2>5, <3>1
    <3>3. \A j \in 1..Len(old.log) : g[k].log[j] = old.log[j]
      BY <2>4, <2>5, <3>1
    <3>4. g[k].log[Len(old.log) + 1] = op
      BY <2>4, <2>5, <3>1
    <3>5. ToSet(g[k].log) = ToSet(old.log) \cup {op}
      <4>1. DOMAIN g[k].log = 1..(Len(old.log) + 1) /\ DOMAIN old.log = 1..Len(old.log)
              /\ Len(old.log) \in Nat
        BY <2>5, <3>2
      <4>2. \A j \in 1..(Len(old.log) + 1) : j \in 1..Len(old.log) \/ j = Len(old.log) + 1
        BY <4>1
      <4>3. \A j \in 1..Len(old.log) : j \in 1..(Len(old.log) + 1)
        BY <4>1
      <4>4. Len(old.log) + 1 \in 1..(Len(old.log) + 1)
        BY <4>1
      <4> QED
        BY <3>3, <3>4, <4>1, <4>2, <4>3, <4>4 DEF ToSet
    <3>6. Len(l) \in Nat /\ Len(old.log) \in Nat
      BY <2>5
    <3>7. Len(l) <= Len(g[k].log) /\ \A j \in 1..Len(l) : g[k].log[j] = l[j]
      BY <2>5, <3>2, <3>3, <3>6
    <3>8. ToSet(g[k].log) = g[k].rga.ops
      BY <2>0, <2>5, <3>5
    <3> QED
      BY <2>8, <3>2, <3>7, <3>8
  <2>10. CASE ~Fresh(old.rga, op)
    <3>1. g[k].log = old.log
      BY <2>1, <2>10
    <3>2. g[k].rga.ops = old.rga.ops
      BY <2>0, <2>7, <2>10
    <3> QED
      BY <2>5, <2>8, <3>1, <3>2
  <2> QED
    BY <2>9, <2>10
<1> DEFINE good == {k \in Nat : Ok(k)}
<1> HIDE DEF Ok
<1>5. \A k \in 0..n : k \in good
  <2>1. 0 \in good /\ \A k \in 1..n : k - 1 \in good => k \in good
    BY <1>1, <1>3, <1>4
  <2> HIDE DEF good
  <2> QED
    BY <1>1, <2>1, StepByStep
<1>6. Ok(n)
  BY <1>1, <1>5
<1>7. Done(n) = ToSet(ops)
  BY <1>1 DEF ToSet
<1>8. ApplyOps(session, ops) = g[n]
  BY <1>2, ApplyOpsIs
<1> QED
  BY <1>6, <1>7, <1>8 DEF Ok

-----------------------------------------------------------------------------
(* Operations that hang together: what makes the tree of `after` a forest. *)

\* No element hangs, however indirectly, from itself, and every descent ends:
\* every set of places has one from which none of the others hangs.
Leafy(A) ==
  \A S \in SUBSET Places : S # {} => \E i \in S : \A o \in Ins(A) : o.id \in S => o.after # i

Sound(A) == A \in SUBSET Ops /\ OneEach(A) /\ Leafy(A)

\* The operations speak of no other places.
Within(A, M) == \A o \in A : o.id \in M /\ (o.type = "ins" => o.after \in M \cup {DocStart})

LEMMA SoundBelow ==
  \A A, B : A \subseteq B /\ Sound(B) => Sound(A)
<1>1. SUFFICES ASSUME NEW A, NEW B, A \subseteq B, Sound(B) PROVE Sound(A)
  OBVIOUS
<1>2. Ins(A) \subseteq Ins(B)
  BY <1>1 DEF Ins
<1>3. Leafy(A)
  BY <1>1, <1>2 DEF Sound, Leafy
<1> QED
  BY <1>1, <1>3, OneEachBelow DEF Sound

LEMMA WithinMore ==
  \A A, B, M, N : /\ A \subseteq B /\ M \subseteq N /\ Within(B, M) => Within(A, N)
                  /\ Within(A, M) /\ Within(B, M) => Within(A \cup B, M)
BY DEF Within

LEMMA StartIsNoId == DocStart \notin ElemIds
BY IdsAreNumbers, CollabAssumption DEF DocStart, ElemIds, Names

LEMMA SoundInsert ==
  ASSUME NEW A, Sound(A), NEW M \in SUBSET ElemIds, Within(A, M), NEW op \in Ops,
         op.type = "ins", op.id \notin M, op.after \in M \cup {DocStart}
  PROVE  Sound(A \cup {op})
<1> DEFINE B == A \cup {op}
<1>1. Ins(B) = Ins(A) \cup {op} /\ B \in SUBSET Ops
  BY OneOpMore DEF Sound
<1>2. op.id \in ElemIds
  BY OpsAre
<1>3. \A o \in Ins(A) : o.id \in M /\ o.after \in M \cup {DocStart}
  BY DEF Within, Ins
<1>4. OneEach(B)
  BY <1>1, <1>3 DEF OneEach, Sound
<1>5. ASSUME NEW S \in SUBSET Places, S # {}
      PROVE  \E i \in S : \A o \in Ins(B) : o.id \in S => o.after # i
  <2>1. CASE op.id \in S
    <3>1. \A o \in Ins(B) : o.after # op.id
      BY <1>1, <1>2, <1>3, StartIsNoId
    <3> QED
      BY <2>1, <3>1
  <2>2. CASE op.id \notin S
    <3>1. PICK i \in S : \A o \in Ins(A) : o.id \in S => o.after # i
      BY <1>5 DEF Sound, Leafy
    <3> QED
      BY <1>1, <2>2, <3>1
  <2> QED
    BY <2>1, <2>2
<1> QED
  BY <1>1, <1>4, <1>5 DEF Sound, Leafy

LEMMA SoundDelete ==
  ASSUME NEW A, Sound(A), NEW D \in SUBSET Ops, \A o \in D : o.type = "del"
  PROVE  Sound(A \cup D)
<1>1. Ins(A \cup D) = Ins(A)
  BY DEF Ins
<1> QED
  BY <1>1 DEF Sound, OneEach, Leafy

LEMMA NothingIsSound == Sound({})
BY DEF Sound, OneEach, Leafy, Ins

-----------------------------------------------------------------------------
(* The order of the document, from the operations alone: an element before *)
(* all that hangs from it, and of two siblings the larger id, with all     *)
(* that hangs from it, before the smaller.                                 *)

Spreads(A, C) == \A o \in Ins(A) : o.after \in C => o.id \in C

\* i is a, or hangs from it.
Under(A, i, a) == \A C \in SUBSET Places : a \in C /\ Spreads(A, C) => i \in C

Siblings(A, i, j) == \E o, p \in Ins(A) : o.id = i /\ p.id = j /\ o.after = p.after

Precedes(A, i, j) ==
  \/ Under(A, j, i) /\ i # j
  \/ \E a, b \in ElemIds : Siblings(A, a, b) /\ IdGreater(a, b) /\ Under(A, i, a) /\ Under(A, j, b)

LEMMA InsAre ==
  \A A : Sound(A) => \A o \in Ins(A) : o.id \in ElemIds /\ o.id \in Places /\ o.after \in Places
BY OpsAre DEF Sound, Ins, Places

LEMMA UnderItself == \A A, a : Under(A, a, a)
BY DEF Under

LEMMA UnderAfter == \A A : \A o \in Ins(A) : Under(A, o.id, o.after)
BY DEF Under, Spreads

LEMMA UnderPlace ==
  \A A, i : \A a \in Places : Sound(A) /\ Under(A, i, a) => i \in Places
<1>1. SUFFICES ASSUME NEW A, NEW i, NEW a \in Places, Sound(A), Under(A, i, a) PROVE i \in Places
  OBVIOUS
<1>2. Spreads(A, Places)
  BY <1>1, InsAre DEF Spreads
<1> QED
  BY <1>1, <1>2 DEF Under

LEMMA UnderUnder == \A A, i, a, b : Under(A, i, a) /\ Under(A, a, b) => Under(A, i, b)
BY DEF Under

LEMMA UnderMore ==
  \A A, B, i, a : A \subseteq B /\ Under(A, i, a) => Under(B, i, a)
<1>1. SUFFICES ASSUME NEW A, NEW B, A \subseteq B PROVE \A C : Spreads(B, C) => Spreads(A, C)
  BY DEF Under
<1> QED
  BY <1>1 DEF Spreads, Ins

\* What hangs from a hangs, by its last link, from something under a.
LEMMA LastLink ==
  ASSUME NEW A, Sound(A), NEW a \in Places, NEW i, Under(A, i, a), i # a
  PROVE  \E o \in Ins(A) : o.id = i /\ Under(A, o.after, a)
<1> DEFINE C == {x \in Places : \/ x = a
                                \/ \E o \in Ins(A) : o.id = x /\ Under(A, o.after, a)}
<1>1. \A x \in C : Under(A, x, a)
  BY UnderItself, UnderAfter, UnderUnder
<1>2. Spreads(A, C)
  BY <1>1, InsAre DEF Spreads
<1>3. i \in C
  <2>1. a \in C /\ C \in SUBSET Places
    OBVIOUS
  <2> HIDE DEF C
  <2> QED
    BY <1>2, <2>1 DEF Under
<1> QED
  BY <1>3

\* And by its first link from a child of a.
LEMMA FirstLink ==
  ASSUME NEW A, Sound(A), NEW a \in Places, NEW i, Under(A, i, a), i # a
  PROVE  \E o \in Ins(A) : o.after = a /\ Under(A, i, o.id)
<1> DEFINE C == {x \in Places : \/ x = a
                                \/ \E o \in Ins(A) : o.after = a /\ Under(A, x, o.id)}
<1>1. ASSUME NEW p \in Ins(A), p.after \in C
      PROVE  p.id \in C
  <2>1. p.id \in Places
    BY InsAre
  <2>2. CASE p.after = a
    BY <2>1, <2>2, UnderItself
  <2>3. CASE p.after # a
    <3>1. PICK o \in Ins(A) : o.after = a /\ Under(A, p.after, o.id)
      BY <1>1, <2>3
    <3>2. Under(A, p.id, o.id)
      BY <3>1, UnderAfter, UnderUnder
    <3> QED
      BY <2>1, <3>1, <3>2
  <2> QED
    BY <2>2, <2>3
<1>2. Spreads(A, C)
  BY <1>1 DEF Spreads
<1>3. i \in C
  <2>1. a \in C /\ C \in SUBSET Places
    OBVIOUS
  <2> HIDE DEF C
  <2> QED
    BY <1>2, <2>1 DEF Under
<1> QED
  BY <1>3

\* What one element hangs from is a chain.
LEMMA Chain ==
  ASSUME NEW A, Sound(A), NEW a \in Places, NEW b \in Places, NEW i,
         Under(A, i, a), Under(A, i, b)
  PROVE  Under(A, a, b) \/ Under(A, b, a)
<1> DEFINE C == {x \in Places :
                   Under(A, x, a) /\ (Under(A, x, b) => Under(A, a, b) \/ Under(A, b, a))}
<1>1. a \in C
  BY UnderItself
<1>2. ASSUME NEW o \in Ins(A), o.after \in C
      PROVE  o.id \in C
  <2>1. o.id \in Places /\ Under(A, o.id, a)
    BY <1>2, InsAre, UnderAfter, UnderUnder
  <2>2. ASSUME Under(A, o.id, b)
        PROVE  Under(A, a, b) \/ Under(A, b, a)
    <3>1. CASE o.id = b
      BY <2>1, <3>1
    <3>2. CASE o.id # b
      <4>1. PICK p \in Ins(A) : p.id = o.id /\ Under(A, p.after, b)
        BY <2>2, <3>2, LastLink
      <4>2. p = o
        BY <4>1 DEF Sound, OneEach
      <4> QED
        BY <1>2, <4>1, <4>2
    <3> QED
      BY <3>1, <3>2
  <2> QED
    BY <2>1, <2>2
<1>3. Spreads(A, C)
  BY <1>2 DEF Spreads
<1>4. i \in C
  <2>1. C \in SUBSET Places
    OBVIOUS
  <2> HIDE DEF C
  <2> QED
    BY <1>1, <1>3, <2>1 DEF Under
<1> QED
  BY <1>4

\* Nothing hangs from what hangs from it.
LEMMA NoCycle ==
  ASSUME NEW A, Sound(A), NEW a \in Places, NEW b \in Places, Under(A, a, b), Under(A, b, a)
  PROVE  a = b
<1>1. SUFFICES ASSUME a # b PROVE FALSE
  OBVIOUS
<1> DEFINE S == {x \in Places : Under(A, a, x) /\ Under(A, x, a)}
<1>2. a \in S /\ S \in SUBSET Places
  BY UnderItself
<1>3. PICK i \in S : \A o \in Ins(A) : o.id \in S => o.after # i
  <2> HIDE DEF S
  <2> QED
    BY <1>2 DEF Sound, Leafy
<1>4. \E o \in Ins(A) : o.after = i /\ Under(A, a, o.id)
  <2>1. CASE i # a
    BY <2>1, FirstLink
  <2>2. CASE i = a
    <3>1. PICK o \in Ins(A) : o.after = a /\ Under(A, b, o.id)
      BY <1>1, FirstLink
    <3>2. Under(A, a, o.id)
      BY <3>1, UnderUnder
    <3> QED
      BY <2>2, <3>1, <3>2
  <2> QED
    BY <2>1, <2>2
<1>5. PICK o \in Ins(A) : o.after = i /\ Under(A, a, o.id)
  BY <1>4
<1>6. Under(A, o.id, a)
  <2>1. Under(A, o.id, i) /\ Under(A, i, a)
    BY <1>5, UnderAfter
  <2> QED
    BY <2>1, UnderUnder
<1>7. o.id \in S
  BY <1>5, <1>6, InsAre
<1> QED
  BY <1>3, <1>5, <1>7

\* No element hangs from itself.
LEMMA HangsElsewhere ==
  ASSUME NEW A, Sound(A), NEW o \in Ins(A)
  PROVE  o.after # o.id
<1>1. {o.id} \in SUBSET Places /\ {o.id} # {}
  BY InsAre
<1>2. \E i \in {o.id} : \A p \in Ins(A) : p.id \in {o.id} => p.after # i
  BY <1>1 DEF Sound, Leafy
<1> QED
  BY <1>2

\* Nothing hangs from two siblings.
LEMMA SiblingsPart ==
  ASSUME NEW A, Sound(A), NEW a \in ElemIds, NEW b \in ElemIds, Siblings(A, a, b),
         NEW i, Under(A, i, a), Under(A, i, b)
  PROVE  a = b
<1>0. a \in Places /\ b \in Places
  BY DEF Places
<1>1. SUFFICES ASSUME a # b PROVE FALSE
  OBVIOUS
<1>2. PICK o \in Ins(A), p \in Ins(A) : o.id = a /\ p.id = b /\ o.after = p.after
  BY DEF Siblings
<1>3. o.after \in Places
  BY InsAre
<1>4. CASE Under(A, a, b)
  <2>1. PICK q \in Ins(A) : q.id = a /\ Under(A, q.after, b)
    BY <1>0, <1>1, <1>4, LastLink
  <2>2. q = o
    BY <1>2, <2>1 DEF Sound, OneEach
  <2>3. Under(A, o.after, b) /\ Under(A, b, o.after)
    BY <1>2, <2>1, <2>2, UnderAfter
  <2>4. b = o.after
    BY <1>0, <1>3, <2>3, NoCycle
  <2> QED
    BY <1>0, <1>2, <2>4, HangsElsewhere
<1>5. CASE Under(A, b, a)
  <2>1. PICK q \in Ins(A) : q.id = b /\ Under(A, q.after, a)
    BY <1>0, <1>1, <1>5, LastLink
  <2>2. q = p
    BY <1>2, <2>1 DEF Sound, OneEach
  <2>3. Under(A, o.after, a) /\ Under(A, a, o.after)
    BY <1>2, <2>1, <2>2, UnderAfter
  <2>4. a = o.after
    BY <1>0, <1>3, <2>3, NoCycle
  <2> QED
    BY <1>0, <1>2, <2>4, HangsElsewhere
<1> QED
  BY <1>0, <1>4, <1>5, Chain

\* Two places that hang from one element are ordered once.
LEMMA SiblingsSwap == \A A, a, b : Siblings(A, a, b) <=> Siblings(A, b, a)
BY DEF Siblings

\* i is under a, j under its sibling b; the same for c and d.  If a is at or
\* above d, both pairs are one.
LEMMA PairsMeet ==
  ASSUME NEW A, Sound(A), NEW a \in ElemIds, NEW b \in ElemIds, NEW c \in ElemIds, NEW d \in ElemIds,
         Siblings(A, a, b), Siblings(A, c, d), NEW i, NEW j,
         Under(A, i, a), Under(A, j, b), Under(A, j, c), Under(A, i, d), Under(A, a, d), c # d
  PROVE  a = d /\ b = c
<1>0. a \in Places /\ b \in Places /\ c \in Places /\ d \in Places
  BY DEF Places
<1>1. PICK o \in Ins(A), p \in Ins(A) : o.id = a /\ p.id = b /\ o.after = p.after
  BY DEF Siblings
<1>2. PICK q \in Ins(A), r \in Ins(A) : q.id = c /\ r.id = d /\ q.after = r.after
  BY DEF Siblings
<1>3. a = d
  <2>1. SUFFICES ASSUME a # d PROVE FALSE
    OBVIOUS
  <2>2. PICK l \in Ins(A) : l.id = a /\ Under(A, l.after, d)
    BY <1>0, <2>1, LastLink
  <2>3. l = o
    BY <1>1, <2>2 DEF Sound, OneEach
  <2>4. Under(A, j, d)
    <3>1. Under(A, b, o.after) /\ Under(A, o.after, d)
      BY <1>1, <2>2, <2>3, UnderAfter
    <3> QED
      BY <3>1, UnderUnder
  <2> QED
    BY <2>4, SiblingsPart
<1>4. r = o
  BY <1>1, <1>2, <1>3 DEF Sound, OneEach
<1>5. Siblings(A, b, c)
  BY <1>1, <1>2, <1>4 DEF Siblings
<1>6. b = c
  BY <1>5, SiblingsPart
<1> QED
  BY <1>3, <1>6

LEMMA BeforeIsOrder ==
  ASSUME NEW A, Sound(A), NEW i \in Places, NEW j \in Places, Precedes(A, i, j), Precedes(A, j, i)
  PROVE  FALSE
<1> DEFINE Split(x, y, a, b) ==
  Siblings(A, a, b) /\ IdGreater(a, b) /\ Under(A, x, a) /\ Under(A, y, b)
<1>0. \A a \in ElemIds : a \in Places /\ ~IdGreater(a, a)
  BY GreaterIsTotal DEF Places
<1>1. ASSUME NEW x \in Places, NEW y \in Places, Under(A, y, x),
             NEW a \in ElemIds, NEW b \in ElemIds, Split(x, y, a, b) \/ Split(y, x, a, b)
      PROVE  FALSE
  <2>1. Under(A, y, a) /\ Under(A, y, b)
    BY <1>1, UnderUnder
  <2>2. a = b
    BY <1>1, <2>1, SiblingsPart, SiblingsSwap
  <2> QED
    BY <1>0, <1>1, <2>2
<1>2. ASSUME NEW a \in ElemIds, NEW b \in ElemIds, NEW c \in ElemIds, NEW d \in ElemIds,
             Split(i, j, a, b), Split(j, i, c, d)
      PROVE  FALSE
  <2>1. a # b /\ c # d /\ a \in Places /\ d \in Places
    BY <1>0, <1>2
  <2>2. Under(A, a, d) \/ Under(A, d, a)
    BY <1>2, <2>1, Chain
  <2>3. a = d /\ b = c
    <3>1. CASE Under(A, a, d)
      BY <1>2, <2>1, <3>1, PairsMeet
    <3>2. CASE Under(A, d, a)
      <4>1. Siblings(A, d, c) /\ Siblings(A, b, a)
        BY <1>2, SiblingsSwap
      <4> QED
        BY <1>2, <2>1, <3>2, <4>1, PairsMeet
    <3> QED
      BY <2>2, <3>1, <3>2
  <2> QED
    BY <1>2, <2>3, GreaterIsTotal
<1>3. CASE Under(A, j, i) /\ i # j
  <2>1. CASE Under(A, i, j)
    BY <1>3, <2>1, NoCycle
  <2>2. CASE \E a, b \in ElemIds : Split(j, i, a, b)
    BY <1>1, <1>3, <2>2
  <2> QED
    BY <2>1, <2>2 DEF Precedes
<1>4. CASE \E a, b \in ElemIds : Split(i, j, a, b)
  <2>1. CASE Under(A, i, j)
    BY <1>1, <1>4, <2>1
  <2>2. CASE \E a, b \in ElemIds : Split(j, i, a, b)
    BY <1>2, <1>4, <2>2
  <2> QED
    BY <2>1, <2>2 DEF Precedes
<1> QED
  BY <1>3, <1>4 DEF Precedes

LEMMA BeforeMore == \A A, B, i, j : A \subseteq B /\ Precedes(A, i, j) => Precedes(B, i, j)
<1>1. \A A, B : A \subseteq B => Ins(A) \subseteq Ins(B)
  BY DEF Ins
<1>2. \A A, B, a, b : A \subseteq B /\ Siblings(A, a, b) => Siblings(B, a, b)
  BY <1>1 DEF Siblings
<1> QED
  BY <1>2, UnderMore DEF Precedes

-----------------------------------------------------------------------------
(* The walk of a replica follows that order.                               *)

LEMMA ElementIs ==
  ASSUME NEW rga, Reflects(rga), NEW o \in Ins(rga.ops)
  PROVE  o.id \in Known(rga) /\ rga.elems[o.id].after = o.after /\ rga.elems[o.id].ch = o.ch
<1> DEFINE was == (o.id \in rga.tombstoned)
<1>1. rga.elems[o.id] = [after |-> o.after, ch |-> o.ch, deleted |-> was]
  BY DEF Reflects
<1> HIDE DEF was
<1>2. rga.elems[o.id].after = o.after /\ rga.elems[o.id].ch = o.ch
  BY <1>1
<1> QED
  BY <1>2 DEF Reflects, IdsOf

\* A replica's children of an element are those of its operations.
LEMMA ChildrenAre ==
  ASSUME NEW rga, Reflects(rga), NEW a
  PROVE  \E n \in Nat :
           /\ DOMAIN Children(rga, a) = 1..n /\ Sorted(Children(rga, a))
           /\ \A k \in 1..n : \E o \in Ins(rga.ops) :
                o.id = Children(rga, a)[k] /\ o.after = a /\ o.id \in Known(rga)
<1> DEFINE S == {i \in Known(rga) : rga.elems[i].after = a}
<1>1. S \in SUBSET ElemIds /\ IsFiniteSet(S)
  <2>1. \A o \in Ins(rga.ops) : o.id \in ElemIds
    BY OpsAre DEF Reflects, Ins
  <2> QED
    BY <2>1, FS_Subset DEF Reflects, IdsOf
<1>2. Children(rga, a) = LargestFirst(S)
  BY DEF Children
<1>3. \A i \in S : \E o \in Ins(rga.ops) : o.id = i /\ o.after = a /\ o.id \in Known(rga)
  <2>1. SUFFICES ASSUME NEW i \in S
                 PROVE  \E o \in Ins(rga.ops) : o.id = i /\ o.after = a /\ o.id \in Known(rga)
    OBVIOUS
  <2>2. PICK o \in Ins(rga.ops) : o.id = i
    BY DEF Reflects, IdsOf
  <2>3. rga.elems[i].after = o.after
    BY <2>2, ElementIs
  <2> QED
    BY <2>2, <2>3
<1> HIDE DEF S
<1>4. Lists(LargestFirst(S), S, Cardinality(S))
  BY <1>1, LargestFirstLists
<1> QED
  BY <1>2, <1>3, <1>4 DEF Lists


\* A part of a document: its elements in the order of the operations A.
InRow(A, T, s) == s \in Seq(T) /\ \A k, l \in 1..Len(s) : k < l => Precedes(A, s[k], s[l])

LEMMA SeqMore == \A S, U, s : s \in Seq(S) /\ S \subseteq U => s \in Seq(U)
OBVIOUS

LEMMA RowOfTwo ==
  ASSUME NEW A, NEW S, NEW U, NEW s, NEW t, InRow(A, S, s), InRow(A, U, t),
         \A x \in S, y \in U : Precedes(A, x, y)
  PROVE  InRow(A, S \cup U, s \o t)
<1>1. s \in Seq(S \cup U) /\ t \in Seq(S \cup U)
  <2>1. s \in Seq(S) /\ t \in Seq(U)
    BY DEF InRow
  <2> QED
    BY <2>1, SeqMore
<1>2. /\ s \o t \in Seq(S \cup U) /\ Len(s \o t) = Len(s) + Len(t)
      /\ \A k \in 1..Len(s) : (s \o t)[k] = s[k]
      /\ \A k \in (Len(s) + 1)..(Len(s) + Len(t)) : (s \o t)[k] = t[k - Len(s)]
  BY <1>1
<1>3. Len(s) \in Nat /\ Len(t) \in Nat
  BY <1>1
<1>4. (\A k \in 1..Len(s) : s[k] \in S) /\ (\A k \in 1..Len(t) : t[k] \in U)
  BY DEF InRow
<1> DEFINE w == s \o t
<1>5. ASSUME NEW k \in 1..(Len(s) + Len(t)), NEW l \in 1..(Len(s) + Len(t)), k < l
      PROVE  Precedes(A, w[k], w[l])
  <2>1. CASE l <= Len(s)
    <3>1. k \in 1..Len(s) /\ l \in 1..Len(s)
      BY <1>3, <1>5, <2>1
    <3> QED
      BY <1>2, <1>5, <3>1 DEF InRow
  <2>2. CASE k > Len(s)
    <3>1. /\ k - Len(s) \in 1..Len(t) /\ l - Len(s) \in 1..Len(t) /\ k - Len(s) < l - Len(s)
          /\ k \in (Len(s) + 1)..(Len(s) + Len(t)) /\ l \in (Len(s) + 1)..(Len(s) + Len(t))
      BY <1>3, <1>5, <2>2
    <3>2. w[k] = t[k - Len(s)] /\ w[l] = t[l - Len(s)]
      BY <1>2, <3>1
    <3> QED
      BY <3>1, <3>2 DEF InRow
  <2>3. CASE ~(l <= Len(s)) /\ ~(k > Len(s))
    <3>1. k \in 1..Len(s) /\ l \in (Len(s) + 1)..(Len(s) + Len(t)) /\ l - Len(s) \in 1..Len(t)
      BY <1>3, <1>5, <2>3
    <3>2. w[k] \in S /\ w[l] \in U
      BY <1>2, <1>4, <3>1
    <3> QED
      BY <3>2
  <2> QED
    BY <2>1, <2>2, <2>3
<1> QED
  BY <1>2, <1>5 DEF InRow

LEMMA RowBelow == \A A, S, U, s : InRow(A, S, s) /\ S \subseteq U => InRow(A, U, s)
BY SeqMore DEF InRow

\* What of K hangs from a.
Hanging(A, K, a) == {x \in K : Under(A, x, a) /\ x # a}

\* If what is shown after every child is in order, so is what is shown after a.
LEMMA VisitedInOrder ==
  ASSUME NEW A, Sound(A), NEW rga, Reflects(rga), rga.ops \subseteq A, NEW a \in Places, NEW walk,
         \A o \in Ins(rga.ops) : o.after = a => InRow(A, Hanging(A, Known(rga), o.id), walk[o.id])
  PROVE  InRow(A, Hanging(A, Known(rga), a), VisibleAfter(rga, walk, a))
<1> DEFINE K == Known(rga)
<1> DEFINE new == Children(rga, a)
<1>1. PICK n \in Nat :
        /\ DOMAIN new = 1..n /\ Sorted(new)
        /\ \A k \in 1..n : \E o \in Ins(rga.ops) :
             o.id = new[k] /\ o.after = a /\ o.id \in K
  BY ChildrenAre
<1>2. PICK g : Runs(g, Walk(rga, walk), <<>>, new, n) /\ VisibleAfter(rga, walk, a) = g[n]
  BY <1>1, WalkRuns
<1> HIDE DEF K, new
<1>3. Ins(rga.ops) \subseteq Ins(A)
  BY DEF Ins
<1>4. \A k \in 1..n : /\ new[k] \in K /\ new[k] \in ElemIds
                      /\ \E o \in Ins(A) : o.id = new[k] /\ o.after = a
                      /\ InRow(A, Hanging(A, K, new[k]), walk[new[k]])
  BY <1>1, <1>3, InsAre DEF K
<1>5. \A j, k \in 1..n : j < k => Siblings(A, new[j], new[k]) /\ IdGreater(new[j], new[k])
  BY <1>1, <1>4 DEF Siblings, Sorted
<1> DEFINE Reached(k) == {x \in K : \E j \in 1..k : Under(A, x, new[j])}
<1> DEFINE Ok(k) == InRow(A, Reached(k), g[k])
<1>6. Ok(0)
  <2>1. g[0] = <<>>
    BY <1>2 DEF Runs
  <2>2. <<>> \in Seq(Reached(0)) /\ Len(<<>>) = 0
    OBVIOUS
  <2>3. 1..0 = {}
    OBVIOUS
  <2> HIDE DEF Reached
  <2> QED
    BY <2>1, <2>2, <2>3 DEF InRow
<1>7. ASSUME NEW k \in 1..n, Ok(k - 1)
      PROVE  Ok(k)
  <2> DEFINE c == new[k]
  <2> DEFINE own == IF rga.elems[c].deleted THEN <<>> ELSE <<c>>
  <2> DEFINE out == g[k - 1]
  <2>1. g[k] = (out \o own) \o walk[c]
    <3>1. g[k] = Gather(Walk(rga, walk), out, c)
      BY <1>2 DEF Runs
    <3>2. Gather(Walk(rga, walk), out, c) = Visit(rga, walk, out, c)
      BY VisitIsStep
    <3> HIDE DEF out, c
    <3>3. g[k] = Visit(rga, walk, out, c)
      BY <3>1, <3>2
    <3> QED
      BY <3>3 DEF Visit
  <2>2. \A x \in Reached(k - 1) : \A y : Under(A, y, c) => Precedes(A, x, y)
    <3>1. SUFFICES ASSUME NEW x \in Reached(k - 1), NEW y, Under(A, y, c) PROVE Precedes(A, x, y)
      OBVIOUS
    <3>2. PICK j \in 1..(k - 1) : Under(A, x, new[j])
      OBVIOUS
    <3>3. j \in 1..n /\ j < k /\ new[j] \in ElemIds /\ c \in ElemIds
      BY <1>4
    <3>4. Siblings(A, new[j], c) /\ IdGreater(new[j], c)
      BY <1>5, <3>3
    <3> QED
      BY <3>1, <3>2, <3>3, <3>4 DEF Precedes
  <2>3. InRow(A, {c}, own)
    <3>0. own = <<>> \/ own = <<c>>
      OBVIOUS
    <3> HIDE DEF own, c
    <3>1. own \in Seq({c}) /\ (Len(own) = 0 \/ Len(own) = 1)
      <4>1. <<c>> \in Seq({c}) /\ Len(<<c>>) = 1 /\ <<>> \in Seq({c}) /\ Len(<<>>) = 0
        OBVIOUS
      <4> QED
        BY <3>0, <4>1
    <3>2. \A i, j \in 1..Len(own) : ~(i < j)
      <4>1. \A m : m = 0 \/ m = 1 => \A i, j \in 1..m : ~(i < j)
        OBVIOUS
      <4> QED
        BY <3>1, <4>1
    <3> QED
      BY <3>1, <3>2 DEF InRow
  <2>4. InRow(A, Reached(k - 1) \cup {c}, out \o own)
    <3>1. \A x \in Reached(k - 1), y \in {c} : Precedes(A, x, y)
      BY <2>2, UnderItself
    <3> HIDE DEF Reached, own, out, c
    <3> QED
      BY <1>7, <2>3, <3>1, RowOfTwo DEF out
  <2>5. InRow(A, (Reached(k - 1) \cup {c}) \cup Hanging(A, K, c), (out \o own) \o walk[c])
    <3>1. \A x \in Reached(k - 1) \cup {c}, y \in Hanging(A, K, c) : Precedes(A, x, y)
      <4>1. \A y \in Hanging(A, K, c) : Under(A, y, c) /\ y # c
        BY DEF Hanging
      <4>2. \A y \in Hanging(A, K, c) : Precedes(A, c, y)
        BY <4>1 DEF Precedes
      <4> QED
        BY <2>2, <4>1, <4>2
    <3>2. InRow(A, Hanging(A, K, c), walk[c])
      BY <1>4
    <3> HIDE DEF Reached, own, out, c
    <3> QED
      BY <2>4, <3>1, <3>2, RowOfTwo
  <2>6. (Reached(k - 1) \cup {c}) \cup Hanging(A, K, c) \subseteq Reached(k)
    <3>1. \A j \in 1..(k - 1) : j \in 1..k
      OBVIOUS
    <3>2. k \in 1..k /\ c \in K
      BY <1>4
    <3> QED
      BY <3>1, <3>2, UnderItself DEF Hanging
  <2> HIDE DEF Reached, own, out, c
  <2> QED
    BY <2>1, <2>5, <2>6, RowBelow
<1> DEFINE good == {k \in Nat : Ok(k)}
<1> HIDE DEF Ok
<1>8. \A k \in 0..n : k \in good
  <2>1. 0 \in good /\ \A k \in 1..n : k - 1 \in good => k \in good
    BY <1>6, <1>7
  <2> HIDE DEF good
  <2> QED
    BY <2>1, StepByStep
<1>9. InRow(A, Reached(n), g[n])
  <2>1. n \in 0..n
    OBVIOUS
  <2>2. Ok(n)
    BY <1>8, <2>1
  <2> QED
    BY <2>2 DEF Ok
<1>10. Reached(n) \subseteq Hanging(A, K, a)
  <2>1. SUFFICES ASSUME NEW x \in K, NEW j \in 1..n, Under(A, x, new[j])
                 PROVE  Under(A, x, a) /\ x # a
    BY DEF Hanging
  <2>2. PICK o \in Ins(A) : o.id = new[j] /\ o.after = a
    BY <1>4
  <2>3. Under(A, new[j], a) /\ new[j] # a /\ new[j] \in Places
    BY <2>2, UnderAfter, HangsElsewhere, InsAre
  <2>4. x # a
    BY <2>1, <2>3, NoCycle
  <2> QED
    BY <2>1, <2>3, <2>4, UnderUnder
<1> HIDE DEF Reached
<1> QED
  BY <1>2, <1>9, <1>10, RowBelow DEF K

-----------------------------------------------------------------------------
(* The walk exists: the definition of VisibleIds has a solution.           *)

\* What is shown after a depends on what is shown after its children only.
LEMMA SameChildren ==
  ASSUME NEW rga, Reflects(rga), NEW a, NEW v, NEW w,
         \A o \in Ins(rga.ops) : o.after = a => v[o.id] = w[o.id]
  PROVE  VisibleAfter(rga, v, a) = VisibleAfter(rga, w, a)
<1> DEFINE new == Children(rga, a)
<1>1. PICK n \in Nat :
        /\ DOMAIN new = 1..n /\ Sorted(new)
        /\ \A k \in 1..n : \E o \in Ins(rga.ops) :
             o.id = new[k] /\ o.after = a /\ o.id \in Known(rga)
  BY ChildrenAre
<1>2. PICK f : Runs(f, Walk(rga, v), <<>>, new, n) /\ VisibleAfter(rga, v, a) = f[n]
  BY <1>1, WalkRuns
<1>3. PICK g : Runs(g, Walk(rga, w), <<>>, new, n) /\ VisibleAfter(rga, w, a) = g[n]
  BY <1>1, WalkRuns
<1> HIDE DEF new
<1> DEFINE same == {k \in Nat : f[k] = g[k]}
<1>4. 0 \in same
  BY <1>2, <1>3 DEF Runs
<1>5. ASSUME NEW k \in 1..n, k - 1 \in same
      PROVE  k \in same
  <2>1. v[new[k]] = w[new[k]]
    BY <1>1
  <2>2. f[k] = Gather(Walk(rga, v), f[k - 1], new[k]) /\ g[k] = Gather(Walk(rga, w), g[k - 1], new[k])
    BY <1>2, <1>3 DEF Runs
  <2>3. f[k] = Visit(rga, v, f[k - 1], new[k]) /\ g[k] = Visit(rga, w, g[k - 1], new[k])
    BY <2>2, VisitIsStep
  <2>4. f[k - 1] = g[k - 1]
    BY <1>5
  <2>5. Visit(rga, v, f[k - 1], new[k]) = Visit(rga, w, g[k - 1], new[k])
    BY <2>1, <2>4 DEF Visit
  <2> QED
    BY <2>3, <2>5
<1>6. n \in same
  <2> HIDE DEF same
  <2> QED
    BY <1>4, <1>5, StepByStep
<1> QED
  BY <1>2, <1>3, <1>6

\* A solution on a set of places that holds the children of its members.
Solves(rga, C, f) ==
  /\ C \in SUBSET Places /\ Spreads(rga.ops, C)
  /\ \A a \in C : f[a] = VisibleAfter(rga, f, a)

Solved(rga, a, f) == \E C : a \in C /\ Solves(rga, C, f)

LEMMA SolutionsAgree ==
  ASSUME NEW rga, Reflects(rga), Sound(rga.ops), NEW a, NEW f, NEW g,
         Solved(rga, a, f), Solved(rga, a, g)
  PROVE  f[a] = g[a]
<1>1. PICK C : a \in C /\ Solves(rga, C, f)
  BY DEF Solved
<1>2. PICK D : a \in D /\ Solves(rga, D, g)
  BY DEF Solved
<1> DEFINE differ == {x \in C \cap D : f[x] # g[x]}
<1>3. SUFFICES ASSUME differ # {} PROVE FALSE
  BY <1>1, <1>2
<1>4. differ \in SUBSET Places
  BY <1>1 DEF Solves
<1>5. PICK i \in differ : \A o \in Ins(rga.ops) : o.id \in differ => o.after # i
  <2> HIDE DEF differ
  <2> QED
    BY <1>3, <1>4 DEF Sound, Leafy
<1>6. \A o \in Ins(rga.ops) : o.after = i => f[o.id] = g[o.id]
  BY <1>1, <1>2, <1>5 DEF Solves, Spreads
<1>7. VisibleAfter(rga, f, i) = VisibleAfter(rga, g, i)
  BY <1>6, SameChildren
<1>8. f[i] = VisibleAfter(rga, f, i) /\ g[i] = VisibleAfter(rga, g, i)
  BY <1>1, <1>2, <1>5 DEF Solves
<1> QED
  BY <1>5, <1>7, <1>8

LEMMA WalkExists ==
  ASSUME NEW rga, Reflects(rga), Sound(rga.ops)
  PROVE  \E w : Walks(w, rga)
<1> DEFINE D == Known(rga) \cup {DocStart}
<1> DEFINE Has(a) == \E f : Solved(rga, a, f)
<1> DEFINE F(a) == CHOOSE f : Solved(rga, a, f)
<1> DEFINE W == [a \in D |-> F(a)[a]]
<1> DEFINE good == {a \in D : Has(a)}
<1>1. D \in SUBSET Places /\ DocStart \in D
  BY InsAre DEF Reflects, IdsOf, Places
<1>2. \A o \in Ins(rga.ops) : o.id \in D
  BY DEF Reflects, IdsOf
<1>3. ASSUME NEW a \in good
      PROVE  /\ W[a] = VisibleAfter(rga, W, a)
             /\ \A o \in Ins(rga.ops) : o.after = a => o.id \in good
  <2>1. Solved(rga, a, F(a))
    OBVIOUS
  <2>2. PICK C : a \in C /\ Solves(rga, C, F(a))
    BY <2>1 DEF Solved
  <2>3. F(a)[a] = VisibleAfter(rga, F(a), a)
    BY <2>2 DEF Solves
  <2>4. \A o \in Ins(rga.ops) : o.after = a => Solved(rga, o.id, F(a))
    <3> HIDE DEF F
    <3> QED
      BY <2>2 DEF Solved, Solves, Spreads
  <2>5. \A o \in Ins(rga.ops) : o.after = a => o.id \in good
    BY <1>2, <2>4
  <2>6. \A o \in Ins(rga.ops) : o.after = a => F(a)[o.id] = W[o.id]
    <3>1. SUFFICES ASSUME NEW o \in Ins(rga.ops), o.after = a PROVE F(a)[o.id] = W[o.id]
      OBVIOUS
    <3>2. Solved(rga, o.id, F(o.id))
      BY <2>4, <3>1
    <3>3. Solved(rga, o.id, F(a))
      BY <2>4, <3>1
    <3>4. W[o.id] = F(o.id)[o.id]
      BY <1>2
    <3> HIDE DEF F, W
    <3>5. F(a)[o.id] = F(o.id)[o.id]
      BY <3>2, <3>3, SolutionsAgree
    <3> QED
      BY <3>4, <3>5
  <2>7. W[a] = F(a)[a]
    BY <1>3
  <2> HIDE DEF F, W, good
  <2>8. VisibleAfter(rga, F(a), a) = VisibleAfter(rga, W, a)
    BY <2>6, SameChildren
  <2> QED
    BY <2>3, <2>5, <2>7, <2>8
<1> DEFINE bad == D \ good
<1>4. bad = {}
  <2>1. SUFFICES ASSUME bad # {} PROVE FALSE
    OBVIOUS
  <2>2. bad \in SUBSET Places
    BY <1>1
  <2>3. PICK i \in bad : \A o \in Ins(rga.ops) : o.id \in bad => o.after # i
    <3> HIDE DEF bad
    <3> QED
      BY <2>1, <2>2 DEF Sound, Leafy
  <2> DEFINE f == [a \in D |-> IF a = i THEN VisibleAfter(rga, W, i) ELSE W[a]]
  <2> DEFINE C == good \cup {i}
  <2>4. i \in D /\ i \notin good /\ good \subseteq D
    OBVIOUS
  <2>5. \A o \in Ins(rga.ops) : o.after \in C => o.id \in good /\ o.id \in D /\ o.id # i
    BY <1>2, <1>3, <2>3
  <2>6. \A o \in Ins(rga.ops) : o.after \in C => W[o.id] = f[o.id]
    <3>1. \A x \in D : x # i => f[x] = W[x]
      OBVIOUS
    <3> HIDE DEF f, W, C, good
    <3> QED
      BY <2>5, <3>1
  <2>7. \A a \in C : VisibleAfter(rga, W, a) = VisibleAfter(rga, f, a)
    <3> HIDE DEF f, W, C
    <3> QED
      BY <2>6, SameChildren
  <2>8. \A a \in C : f[a] = VisibleAfter(rga, W, a)
    <3>1. f[i] = VisibleAfter(rga, W, i)
      BY <2>4
    <3>2. \A a \in good : f[a] = W[a] /\ W[a] = VisibleAfter(rga, W, a)
      BY <1>3, <2>4
    <3> QED
      BY <3>1, <3>2
  <2>9. Solves(rga, C, f)
    <3>1. C \in SUBSET Places
      BY <1>1, <2>4
    <3>2. Spreads(rga.ops, C)
      BY <2>5 DEF Spreads
    <3> HIDE DEF f, W, C, good
    <3> QED
      BY <2>7, <2>8, <3>1, <3>2 DEF Solves
  <2>10. Solved(rga, i, f)
    BY <2>9 DEF Solved
  <2> QED
    BY <2>4, <2>10
<1>5. \A a \in D : W[a] = VisibleAfter(rga, W, a)
  BY <1>3, <1>4
<1>6. W = [a \in D |-> VisibleAfter(rga, W, a)]
  <2>1. W = [a \in D |-> W[a]]
    OBVIOUS
  <2> HIDE DEF W
  <2> QED
    BY <1>5, <2>1
<1> HIDE DEF W
<1> QED
  BY <1>6 DEF Walks

\* A replica shows elements it knows, in the order of the operations.
LEMMA ShownInOrder ==
  ASSUME NEW A, Sound(A), NEW rga, Reflects(rga), rga.ops \subseteq A
  PROVE  InRow(A, Known(rga), VisibleIds(rga))
<1> DEFINE K == Known(rga)
<1> DEFINE D == K \cup {DocStart}
<1> DEFINE w == CHOOSE v : Walks(v, rga)
<1>1. Sound(rga.ops)
  BY SoundBelow
<1>2. Walks(w, rga)
  BY <1>1, WalkExists
<1>3. VisibleIds(rga) = w[DocStart]
  BY VisibleIs
<1> HIDE DEF w
<1>4. \A a \in D : w[a] = VisibleAfter(rga, w, a)
  BY <1>2 DEF Walks
<1>5. D \in SUBSET Places /\ DocStart \in D
  BY <1>1, InsAre DEF Reflects, IdsOf, Places
<1>6. \A o \in Ins(rga.ops) : o.id \in D
  BY DEF Reflects, IdsOf
<1> DEFINE bad == {a \in D : ~InRow(A, Hanging(A, K, a), w[a])}
<1>7. bad = {}
  <2>1. SUFFICES ASSUME bad # {} PROVE FALSE
    OBVIOUS
  <2>2. bad \in SUBSET Places
    BY <1>5
  <2>3. PICK i \in bad : \A o \in Ins(rga.ops) : o.id \in bad => o.after # i
    <3> HIDE DEF bad
    <3> QED
      BY <1>1, <2>1, <2>2 DEF Sound, Leafy
  <2>4. \A o \in Ins(rga.ops) : o.after = i => InRow(A, Hanging(A, K, o.id), w[o.id])
    BY <1>6, <2>3
  <2>5. i \in Places /\ i \in D
    BY <2>2
  <2> HIDE DEF bad
  <2>6. InRow(A, Hanging(A, K, i), VisibleAfter(rga, w, i))
    BY <2>4, <2>5, VisitedInOrder
  <2>7. InRow(A, Hanging(A, K, i), w[i])
    BY <1>4, <2>5, <2>6
  <2> QED
    BY <2>7 DEF bad
<1>8. InRow(A, Hanging(A, K, DocStart), w[DocStart])
  BY <1>5, <1>7
<1>9. Hanging(A, K, DocStart) \subseteq K
  BY DEF Hanging
<1> QED
  BY <1>3, <1>8, <1>9, RowBelow

-----------------------------------------------------------------------------
(* Texts and edits.                                                        *)

\* A part of a sequence within its bounds.
LEMMA PartOf ==
  ASSUME NEW S, NEW s \in Seq(S), NEW m \in Nat, NEW n \in Nat, m <= n, n <= Len(s)
  PROVE  SubSeq(s, m + 1, n) \in Seq(S) /\ Len(SubSeq(s, m + 1, n)) = n - m
OBVIOUS

LEMMA ReverseIs ==
  ASSUME NEW S, NEW s \in Seq(S)
  PROVE  Reverse(s) \in Seq(S) /\ Len(Reverse(s)) = Len(s)
<1>1. Len(s) \in Nat /\ \A k \in 1..Len(s) : Len(s) - k + 1 \in 1..Len(s)
  OBVIOUS
<1>2. \A k \in 1..Len(s) : s[k] \in S
  OBVIOUS
<1>3. Reverse(s) \in [1..Len(s) -> S]
  BY <1>1, <1>2 DEF Reverse
<1> HIDE DEF Reverse
<1> QED
  BY <1>1, <1>3

LEMMA CommonPrefixIs ==
  ASSUME NEW S, NEW s \in Seq(S), NEW u \in Seq(S)
  PROVE  CommonPrefix(s, u) \in Nat /\ CommonPrefix(s, u) <= Len(s) /\ CommonPrefix(s, u) <= Len(u)
<1> DEFINE least == Min({Len(s), Len(u)})
<1> DEFINE T == {k \in 0..least : SubSeq(s, 1, k) = SubSeq(u, 1, k)}
<1>1. Len(s) \in Nat /\ Len(u) \in Nat
  OBVIOUS
<1>2. least \in Nat /\ least <= Len(s) /\ least <= Len(u)
  <2>1. \E x \in {Len(s), Len(u)} : \A y \in {Len(s), Len(u)} : x =< y
    BY <1>1
  <2>2. least \in {Len(s), Len(u)} /\ \A y \in {Len(s), Len(u)} : least =< y
    BY <2>1 DEF Min
  <2> QED
    BY <1>1, <2>2
<1> HIDE DEF least
<1>3. 0 \in T
  <2>1. SubSeq(s, 1, 0) = <<>> /\ SubSeq(u, 1, 0) = <<>>
    OBVIOUS
  <2> QED
    BY <1>2, <2>1
<1>4. Max(T) \in T
  <2> DEFINE U == {least - k : k \in T}
  <2>1. U \in SUBSET Nat /\ U # {}
    <3>1. \A k \in T : least - k \in Nat
      BY <1>2
    <3> HIDE DEF T
    <3> QED
      BY <1>3, <3>1
  <2>2. PICK m \in U : \A k \in U : m <= k
    BY <2>1, Smallest
  <2>3. PICK x \in T : m = least - x
    OBVIOUS
  <2>4. \A k \in T : least - k \in U
    OBVIOUS
  <2>5. \A k \in T : k \in 0..least
    OBVIOUS
  <2>6. \A k \in T : x >= k
    <3>1. \A k \in T : least - x <= least - k
      BY <2>2, <2>3, <2>4
    <3> HIDE DEF T, U
    <3> QED
      BY <1>2, <2>5, <3>1
  <2> HIDE DEF T, U
  <2>7. \E y \in T : \A k \in T : y >= k
    BY <2>6
  <2> QED
    BY <2>7 DEF Max
<1>5. CommonPrefix(s, u) = Max(T)
  BY DEF CommonPrefix, least
<1> QED
  BY <1>2, <1>4, <1>5

\* What a replica shows, as a sequence of letters.
LEMMA TextIs ==
  ASSUME NEW rga, Reflects(rga), Sound(rga.ops)
  PROVE  /\ VisibleIds(rga) \in Seq(Known(rga))
         /\ TextOf(rga) \in Seq(Letters) /\ Len(TextOf(rga)) = Len(VisibleIds(rga))
<1> DEFINE v == VisibleIds(rga)
<1>1. v \in Seq(Known(rga))
  BY ShownInOrder DEF InRow
<1>2. TextOf(rga) = [k \in 1..Len(v) |-> rga.elems[v[k]].ch]
  BY DEF TextOf
<1> HIDE DEF v
<1>3. Len(v) \in Nat /\ \A k \in 1..Len(v) : v[k] \in Known(rga)
  BY <1>1
<1>4. \A i \in Known(rga) : rga.elems[i].ch \in Letters
  <2>1. SUFFICES ASSUME NEW i \in Known(rga) PROVE rga.elems[i].ch \in Letters
    OBVIOUS
  <2>2. PICK o \in Ins(rga.ops) : o.id = i
    BY DEF Reflects, IdsOf
  <2>3. o.ch \in Letters
    BY OpsAre DEF Ins, Reflects
  <2> QED
    BY <2>2, <2>3, ElementIs
<1>5. TextOf(rga) \in [1..Len(v) -> Letters]
  BY <1>2, <1>3, <1>4
<1> QED
  BY <1>1, <1>3, <1>5 DEF v

Mine(name, c) == {<<name, k>> : k \in 1..c}

\* An edit under way: A holds the operations of before, which speak of the
\* places M, R those of the replica.
Edits(e, A, M, R, name) ==
  /\ e = [rga |-> e.rga, counter |-> e.counter, ops |-> e.ops]
  /\ Reflects(e.rga) /\ e.rga.ops = R \cup ToSet(e.ops)
  /\ e.counter \in Nat /\ e.ops \in Seq(Ops)
  /\ Sound(A \cup ToSet(e.ops))
  /\ Within(A \cup ToSet(e.ops), M \cup Mine(name, e.counter))

LEMMA ToSetIs ==
  \A S : \A s \in Seq(S) :
    /\ ToSet(s) \in SUBSET S
    /\ \A x \in S : Append(s, x) \in Seq(S) /\ ToSet(Append(s, x)) = ToSet(s) \cup {x}
<1>1. SUFFICES ASSUME NEW S, NEW s \in Seq(S)
               PROVE  /\ ToSet(s) \in SUBSET S
                      /\ \A x \in S : /\ Append(s, x) \in Seq(S)
                                      /\ ToSet(Append(s, x)) = ToSet(s) \cup {x}
  OBVIOUS
<1>2. ToSet(s) \in SUBSET S
  BY DEF ToSet
<1>3. ASSUME NEW x \in S
      PROVE  Append(s, x) \in Seq(S) /\ ToSet(Append(s, x)) = ToSet(s) \cup {x}
  <2> DEFINE t == Append(s, x)
  <2>1. t \in Seq(S) /\ Len(t) = Len(s) + 1 /\ Len(s) \in Nat
          /\ (\A j \in 1..Len(s) : t[j] = s[j]) /\ t[Len(s) + 1] = x
    OBVIOUS
  <2>2. DOMAIN t = 1..(Len(s) + 1) /\ DOMAIN s = 1..Len(s)
    BY <2>1
  <2>3. (\A j \in 1..(Len(s) + 1) : j \in 1..Len(s) \/ j = Len(s) + 1)
          /\ (\A j \in 1..Len(s) : j \in 1..(Len(s) + 1)) /\ Len(s) + 1 \in 1..(Len(s) + 1)
    BY <2>1
  <2> HIDE DEF t
  <2> QED
    BY <2>1, <2>2, <2>3 DEF ToSet, t
<1> QED
  BY <1>2, <1>3

LEMMA ToSetOfTwo ==
  ASSUME NEW S, NEW s \in Seq(S), NEW t \in Seq(S)
  PROVE  s \o t \in Seq(S) /\ ToSet(s \o t) = ToSet(s) \cup ToSet(t)
<1> DEFINE w == s \o t
<1>1. /\ w \in Seq(S) /\ Len(w) = Len(s) + Len(t)
      /\ \A k \in 1..Len(s) : w[k] = s[k]
      /\ \A k \in (Len(s) + 1)..(Len(s) + Len(t)) : w[k] = t[k - Len(s)]
  OBVIOUS
<1>2. Len(s) \in Nat /\ Len(t) \in Nat
  OBVIOUS
<1>3. DOMAIN w = 1..(Len(s) + Len(t)) /\ DOMAIN s = 1..Len(s) /\ DOMAIN t = 1..Len(t)
  BY <1>1
<1> HIDE DEF w
<1>4. ToSet(w) \subseteq ToSet(s) \cup ToSet(t)
  <2>1. SUFFICES ASSUME NEW k \in 1..(Len(s) + Len(t)) PROVE w[k] \in ToSet(s) \cup ToSet(t)
    BY <1>3 DEF ToSet
  <2>2. CASE k <= Len(s)
    BY <1>1, <1>2, <1>3, <2>2 DEF ToSet
  <2>3. CASE ~(k <= Len(s))
    <3>1. k \in (Len(s) + 1)..(Len(s) + Len(t)) /\ k - Len(s) \in 1..Len(t)
      BY <1>2, <2>3
    <3> QED
      BY <1>1, <1>3, <3>1 DEF ToSet
  <2> QED
    BY <2>2, <2>3
<1>5. ToSet(s) \subseteq ToSet(w)
  <2>1. \A k \in 1..Len(s) : k \in 1..(Len(s) + Len(t))
    BY <1>2
  <2> QED
    BY <1>1, <1>3, <2>1 DEF ToSet
<1>6. ToSet(t) \subseteq ToSet(w)
  <2>1. SUFFICES ASSUME NEW k \in 1..Len(t) PROVE t[k] \in ToSet(w)
    BY <1>3 DEF ToSet
  <2>2. /\ k + Len(s) \in (Len(s) + 1)..(Len(s) + Len(t)) /\ (k + Len(s)) - Len(s) = k
        /\ k + Len(s) \in 1..(Len(s) + Len(t))
    BY <1>2
  <2>3. w[k + Len(s)] = t[k]
    BY <1>1, <2>2
  <2> QED
    BY <1>3, <2>2, <2>3 DEF ToSet
<1> QED
  BY <1>1, <1>4, <1>5, <1>6 DEF w

\* Of this name, the places M go up to c.
UpTo(M, name, c) == \A k \in Nat : <<name, k>> \in M => k <= c

LEMMA InsertKeeps ==
  ASSUME NEW e, NEW A, NEW M \in SUBSET ElemIds, NEW R \in SUBSET A, NEW name \in Names,
         Edits(e, A, M, R, name), UpTo(M, name, e.counter),
         NEW index, NEW ch \in Letters
  PROVE  /\ Edits(InsertAtIndex(e, name, index, ch), A, M, R, name)
         /\ InsertAtIndex(e, name, index, ch).counter = e.counter + 1
<1> DEFINE B == A \cup ToSet(e.ops)
<1> DEFINE N == M \cup Mine(name, e.counter)
<1> DEFINE ids == VisibleIds(e.rga)
<1> DEFINE after == IF index \in 1..Len(ids) THEN ids[index] ELSE DocStart
<1> DEFINE new == <<name, e.counter + 1>>
<1> DEFINE op == Insertion(new, after, ch)
<1> DEFINE f == InsertAtIndex(e, name, index, ch)
<1>1. /\ Reflects(e.rga) /\ e.rga.ops = R \cup ToSet(e.ops)
      /\ e.counter \in Nat /\ e.ops \in Seq(Ops) /\ Sound(B) /\ Within(B, N)
  BY DEF Edits
<1>2. e.rga.ops \subseteq B /\ Sound(e.rga.ops)
  BY <1>1, SoundBelow
<1>3. Known(e.rga) \subseteq N
  BY <1>1, <1>2 DEF Reflects, IdsOf, Within, Ins
<1>4. N \in SUBSET ElemIds
  BY <1>1 DEF Mine, ElemIds
<1>5. after \in N \cup {DocStart}
  <2>1. ids \in Seq(Known(e.rga))
    BY <1>1, <1>2, TextIs
  <2> HIDE DEF ids, N
  <2> QED
    BY <1>3, <2>1
<1>6. new \in ElemIds /\ new \notin N
  <2>1. e.counter + 1 \in Nat /\ ~(e.counter + 1 <= e.counter)
    BY <1>1
  <2>2. new \notin M
    BY <2>1 DEF UpTo
  <2>3. new \notin Mine(name, e.counter)
    BY <2>1 DEF Mine
  <2> QED
    BY <2>1, <2>2, <2>3 DEF ElemIds
<1> HIDE DEF N, ids, after, new
<1>7. op \in Ops /\ op.type = "ins" /\ op.id = new /\ op.after = after
  <2>1. after \in Places
    BY <1>4, <1>5 DEF Places
  <2> QED
    BY <1>6, <2>1, NewOps
<1>8. f = [rga |-> Apply(e.rga, op), counter |-> e.counter + 1, ops |-> Append(e.ops, op)]
  BY DEF InsertAtIndex, ids, after, new
<1> HIDE DEF op
<1>9. f.rga = Apply(e.rga, op) /\ f.counter = e.counter + 1 /\ f.ops = Append(e.ops, op)
        /\ f = [rga |-> f.rga, counter |-> f.counter, ops |-> f.ops]
  BY <1>8
<1> HIDE DEF f
<1>10. f.ops \in Seq(Ops) /\ ToSet(f.ops) = ToSet(e.ops) \cup {op}
  BY <1>1, <1>7, <1>9, ToSetIs
<1>11. A \cup ToSet(f.ops) = B \cup {op}
  BY <1>10
<1>12. Sound(B \cup {op})
  BY <1>1, <1>4, <1>5, <1>6, <1>7, SoundInsert
<1>13. Reflects(f.rga) /\ f.rga.ops = e.rga.ops \cup {op}
  <2>1. OneEach(e.rga.ops \cup {op})
    <3>1. e.rga.ops \cup {op} \subseteq B \cup {op}
      BY <1>2
    <3> QED
      BY <1>12, <3>1, OneEachBelow DEF Sound
  <2> QED
    BY <1>1, <1>7, <1>9, <2>1, ApplyKeeps
<1>14. Within(B \cup {op}, M \cup Mine(name, f.counter))
  <2>1. new \in Mine(name, f.counter) /\ Mine(name, e.counter) \subseteq Mine(name, f.counter)
    <3>1. e.counter + 1 \in 1..f.counter /\ \A k \in 1..e.counter : k \in 1..f.counter
      BY <1>1, <1>9
    <3> QED
      BY <3>1 DEF Mine, new
  <2>2. N \cup {new} \subseteq M \cup Mine(name, f.counter)
    BY <2>1 DEF N
  <2> QED
    BY <1>1, <1>5, <1>7, <2>2 DEF Within
<1>15. f.rga.ops = R \cup ToSet(f.ops)
  BY <1>1, <1>10, <1>13
<1>16. f.counter \in Nat
  BY <1>1, <1>9
<1> QED
  BY <1>9, <1>10, <1>11, <1>12, <1>13, <1>14, <1>15, <1>16 DEF Edits, f

LEMMA InsertStringKeeps ==
  ASSUME NEW e, NEW A, NEW M \in SUBSET ElemIds, NEW R \in SUBSET A, NEW name \in Names,
         Edits(e, A, M, R, name), UpTo(M, name, e.counter),
         NEW index, NEW s \in Seq(Letters)
  PROVE  /\ Edits(InsertStringAt(e, name, index, s), A, M, R, name)
         /\ e.counter <= InsertStringAt(e, name, index, s).counter
<1> DEFINE n == Len(s)
<1> DEFINE how == [fold |-> "type", name |-> name, index |-> index, s |-> s]
<1> DEFINE new == [i \in DOMAIN s |-> i]
<1>1. n \in Nat /\ DOMAIN s = 1..n /\ \A k \in 1..n : s[k] \in Letters
  OBVIOUS
<1>2. DOMAIN new = 1..n /\ \A k \in 1..n : new[k] = k
  BY <1>1
<1>3. how.fold = "type" /\ how.name = name /\ how.index = index /\ how.s = s
  OBVIOUS
<1>4. InsertStringAt(e, name, index, s) = Folded(how, e, new)
  BY InsertStringIs
<1>5. e.counter \in Nat
  BY DEF Edits
<1> HIDE DEF n, how, new
<1>6. PICK g : Runs(g, how, e, new, n) /\ Folded(how, e, new) = g[n]
  BY <1>1, <1>2, FoldedRuns
<1> DEFINE Ok(k) == Edits(g[k], A, M, R, name) /\ e.counter <= g[k].counter
<1>7. Ok(0)
  BY <1>5, <1>6 DEF Runs
<1>8. ASSUME NEW k \in 1..n, Ok(k - 1)
      PROVE  Ok(k)
  <2>1. g[k] = InsertAtIndex(g[k - 1], name, index + k - 1, s[k])
    BY <1>2, <1>3, <1>6 DEF Runs, Gather
  <2>2. g[k - 1].counter \in Nat
    BY <1>8 DEF Edits
  <2>3. UpTo(M, name, g[k - 1].counter)
    BY <1>5, <1>8, <2>2 DEF UpTo
  <2>4. s[k] \in Letters
    BY <1>1
  <2>5. Edits(g[k - 1], A, M, R, name)
    BY <1>8
  <2>6. Edits(g[k], A, M, R, name) /\ g[k].counter = g[k - 1].counter + 1
    <3> DEFINE acc == g[k - 1]
    <3> DEFINE at == index + k - 1
    <3> DEFINE ch == s[k]
    <3>1. Edits(acc, A, M, R, name) /\ UpTo(M, name, acc.counter)
      BY <2>3, <2>5
    <3>2. ch \in Letters /\ g[k] = InsertAtIndex(acc, name, at, ch)
      BY <2>1, <2>4
    <3>3. acc.counter = g[k - 1].counter
      OBVIOUS
    <3> HIDE DEF acc, at, ch
    <3>4. /\ Edits(InsertAtIndex(acc, name, at, ch), A, M, R, name)
          /\ InsertAtIndex(acc, name, at, ch).counter = acc.counter + 1
      BY <3>1, <3>2, InsertKeeps
    <3> QED
      BY <3>2, <3>3, <3>4
  <2>7. e.counter <= g[k].counter
    BY <1>5, <1>8, <2>2, <2>6
  <2> QED
    BY <2>6, <2>7
<1> DEFINE good == {k \in Nat : Ok(k)}
<1> HIDE DEF Ok
<1>9. \A k \in 0..n : k \in good
  <2>1. 0 \in good /\ \A k \in 1..n : k - 1 \in good => k \in good
    BY <1>1, <1>7, <1>8
  <2> HIDE DEF good
  <2> QED
    BY <1>1, <2>1, StepByStep
<1>10. Ok(n)
  BY <1>1, <1>9
<1> QED
  BY <1>4, <1>6, <1>10 DEF Ok

LEMMA DeleteKeeps ==
  ASSUME NEW e, NEW A, NEW M \in SUBSET ElemIds, NEW R \in SUBSET A, NEW name \in Names,
         Edits(e, A, M, R, name),
         NEW index \in Nat, NEW n \in Nat, index + n <= Len(VisibleIds(e.rga))
  PROVE  /\ Edits(DeleteAt(e, index, n), A, M, R, name)
         /\ DeleteAt(e, index, n).counter = e.counter
<1> DEFINE B == A \cup ToSet(e.ops)
<1> DEFINE N == M \cup Mine(name, e.counter)
<1> DEFINE ids == SubSeq(VisibleIds(e.rga), index + 1, index + n)
<1> DEFINE ops == [k \in 1..Len(ids) |-> Deletion(ids[k])]
<1> DEFINE f == DeleteAt(e, index, n)
<1>1. /\ Reflects(e.rga) /\ e.rga.ops = R \cup ToSet(e.ops)
      /\ e.counter \in Nat /\ e.ops \in Seq(Ops) /\ Sound(B) /\ Within(B, N)
      /\ e = [rga |-> e.rga, counter |-> e.counter, ops |-> e.ops]
  BY DEF Edits
<1>2. e.rga.ops \subseteq B /\ Sound(e.rga.ops)
  BY <1>1, SoundBelow
<1>3. Known(e.rga) \subseteq N
  BY <1>1, <1>2 DEF Reflects, IdsOf, Within, Ins
<1>4. N \in SUBSET ElemIds
  BY <1>1 DEF Mine, ElemIds
<1>5. ids \in Seq(Known(e.rga))
  <2>1. VisibleIds(e.rga) \in Seq(Known(e.rga))
    BY <1>1, <1>2, TextIs
  <2>2. index + n \in Nat /\ index <= index + n
    OBVIOUS
  <2> QED
    BY <2>1, <2>2, PartOf
<1> HIDE DEF N, ids
<1>6. Len(ids) \in Nat /\ \A k \in 1..Len(ids) : ids[k] \in N /\ ids[k] \in ElemIds
  BY <1>3, <1>4, <1>5
<1>7. \A k \in 1..Len(ids) : ops[k] \in Ops /\ ops[k].type = "del" /\ ops[k].id \in N
  <2>1. SUFFICES ASSUME NEW k \in 1..Len(ids)
                 PROVE  ops[k] \in Ops /\ ops[k].type = "del" /\ ops[k].id \in N
    OBVIOUS
  <2>2. ops[k] = Deletion(ids[k])
    OBVIOUS
  <2> QED
    BY <1>6, <2>2, NewOps
<1>8. DOMAIN ops = 1..Len(ids)
  OBVIOUS
<1>9. f = [e EXCEPT !.rga = ApplyMany(@, ops), !.ops = @ \o ops]
  BY DEF DeleteAt, ids
<1>a. ops = [k \in 1..Len(ids) |-> ops[k]]
  OBVIOUS
<1> HIDE DEF ops
<1>10. ops \in Seq(Ops) /\ \A o \in ToSet(ops) : o.type = "del" /\ o.id \in N
  <2>1. ops \in [1..Len(ids) -> Ops]
    BY <1>7, <1>a
  <2>2. \A o \in ToSet(ops) : o.type = "del" /\ o.id \in N
    BY <1>7, <1>8 DEF ToSet
  <2> QED
    BY <1>6, <2>1, <2>2
<1>11. f = [rga |-> ApplyMany(e.rga, ops), counter |-> e.counter, ops |-> e.ops \o ops]
  BY <1>1, <1>9
<1>12. f.rga = ApplyMany(e.rga, ops) /\ f.counter = e.counter /\ f.ops = e.ops \o ops
         /\ f = [rga |-> f.rga, counter |-> f.counter, ops |-> f.ops]
  BY <1>11
<1> HIDE DEF f
<1>13. f.ops \in Seq(Ops) /\ ToSet(f.ops) = ToSet(e.ops) \cup ToSet(ops)
  BY <1>1, <1>10, <1>12, ToSetOfTwo
<1>14. ToSet(ops) \in SUBSET Ops
  BY <1>10, ToSetIs
<1>15. Sound(B \cup ToSet(ops))
  BY <1>1, <1>10, <1>14, SoundDelete
<1>16. Reflects(f.rga) /\ f.rga.ops = e.rga.ops \cup ToSet(ops)
  <2>1. OneEach(e.rga.ops \cup ToSet(ops))
    <3>1. e.rga.ops \cup ToSet(ops) \subseteq B \cup ToSet(ops)
      BY <1>2
    <3> QED
      BY <1>15, <3>1, OneEachBelow DEF Sound
  <2>2. Reflects(e.rga) /\ ops \in Seq(Ops)
    BY <1>1, <1>10
  <2> HIDE DEF B
  <2>3. Reflects(ApplyMany(e.rga, ops)) /\ ApplyMany(e.rga, ops).ops = e.rga.ops \cup ToSet(ops)
    BY <2>1, <2>2, ApplyManyKeeps
  <2> QED
    BY <1>12, <2>3
<1>17. Within(B \cup ToSet(ops), N)
  BY <1>1, <1>10 DEF Within
<1>18. A \cup ToSet(f.ops) = B \cup ToSet(ops)
  BY <1>13
<1>19. f.rga.ops = R \cup ToSet(f.ops)
  BY <1>1, <1>13, <1>16
<1> QED
  BY <1>1, <1>12, <1>13, <1>15, <1>16, <1>17, <1>18, <1>19 DEF Edits, f, N

LEMMA NextTextsAre ==
  ASSUME NEW text \in Seq(Letters), NEW next \in NextTexts(text)
  PROVE  next \in Seq(Letters)
<1>0. Len(text) \in Nat
  OBVIOUS
<1>1. CASE \E k \in 1..(Len(text) + 1), c \in Letters : next = InsertAt(text, k, c)
  <2>1. PICK k \in 1..(Len(text) + 1), c \in Letters : next = InsertAt(text, k, c)
    BY <1>1
  <2>2. SubSeq(text, 1, k - 1) \in Seq(Letters) /\ SubSeq(text, k, Len(text)) \in Seq(Letters)
    BY <1>0
  <2>3. <<c>> \in Seq(Letters)
    OBVIOUS
  <2>4. next = SubSeq(text, 1, k - 1) \o <<c>> \o SubSeq(text, k, Len(text))
    BY <2>1 DEF InsertAt
  <2>5. \A a, b \in Seq(Letters) : a \o b \in Seq(Letters)
    OBVIOUS
  <2> QED
    BY <2>2, <2>3, <2>4, <2>5, Zenon
<1>2. CASE \E k \in 1..Len(text) : next = RemoveAt(text, k)
  <2>1. PICK k \in 1..Len(text) : next = RemoveAt(text, k)
    BY <1>2
  <2>2. SubSeq(text, 1, k - 1) \in Seq(Letters) /\ SubSeq(text, k + 1, Len(text)) \in Seq(Letters)
    BY <1>0
  <2>3. next = SubSeq(text, 1, k - 1) \o SubSeq(text, k + 1, Len(text))
    BY <2>1 DEF RemoveAt
  <2>4. \A a, b \in Seq(Letters) : a \o b \in Seq(Letters)
    OBVIOUS
  <2> QED
    BY <2>2, <2>3, <2>4, Zenon
<1> QED
  BY <1>1, <1>2 DEF NextTexts

LEMMA ChangeKeeps ==
  ASSUME NEW page, NEW A, NEW M \in SUBSET ElemIds, Sound(A), Within(A, M),
         Reflects(page.rga), page.rga.ops \in SUBSET A,
         page.name \in Names, page.counter \in Nat, UpTo(M, page.name, page.counter),
         NEW next \in Seq(Letters)
  PROVE  /\ Edits(ChangeToOps(page, next), A, M, page.rga.ops, page.name)
         /\ page.counter <= ChangeToOps(page, next).counter
<1> DEFINE prev == TextOf(page.rga)
<1> DEFINE p == CommonPrefix(prev, next)
<1> DEFINE left == Reverse(SubSeq(prev, p + 1, Len(prev)))
<1> DEFINE right == Reverse(SubSeq(next, p + 1, Len(next)))
<1> DEFINE s == CommonPrefix(left, right)
<1> DEFINE edit == [rga |-> page.rga, counter |-> page.counter, ops |-> <<>>]
<1> DEFINE mid == DeleteAt(edit, p, Len(prev) - p - s)
<1> DEFINE typing == SubSeq(next, p + 1, Len(next) - s)
<1>1. Sound(page.rga.ops)
  BY SoundBelow
<1>2. prev \in Seq(Letters) /\ Len(prev) = Len(VisibleIds(page.rga))
  BY <1>1, TextIs
<1>3. edit.rga = page.rga /\ edit.counter = page.counter /\ edit.ops = <<>>
  OBVIOUS
<1>4. ChangeToOps(page, next) = InsertStringAt(mid, page.name, p, typing)
  BY DEF ChangeToOps
<1>5. Edits(edit, A, M, page.rga.ops, page.name)
  <2>1. <<>> \in Seq(Ops) /\ ToSet(<<>>) = {}
    BY DEF ToSet
  <2>2. A \cup ToSet(edit.ops) = A /\ page.rga.ops = page.rga.ops \cup ToSet(edit.ops)
    BY <1>3, <2>1
  <2>3. edit = [rga |-> edit.rga, counter |-> edit.counter, ops |-> edit.ops]
    OBVIOUS
  <2>4. Within(A, M \cup Mine(page.name, edit.counter))
    BY WithinMore
  <2> HIDE DEF edit
  <2> QED
    BY <1>3, <2>1, <2>2, <2>3, <2>4 DEF Edits
<1> HIDE DEF prev, edit
<1>6. p \in Nat /\ p <= Len(prev) /\ p <= Len(next) /\ Len(prev) \in Nat /\ Len(next) \in Nat
  BY <1>2, CommonPrefixIs
<1> HIDE DEF p
<1>7. left \in Seq(Letters) /\ right \in Seq(Letters)
        /\ Len(left) = Len(prev) - p /\ Len(right) = Len(next) - p
  <2>1. /\ SubSeq(prev, p + 1, Len(prev)) \in Seq(Letters)
        /\ Len(SubSeq(prev, p + 1, Len(prev))) = Len(prev) - p
    BY <1>2, <1>6, PartOf
  <2>2. /\ SubSeq(next, p + 1, Len(next)) \in Seq(Letters)
        /\ Len(SubSeq(next, p + 1, Len(next))) = Len(next) - p
    BY <1>6, PartOf
  <2> QED
    BY <2>1, <2>2, ReverseIs
<1> HIDE DEF left, right
<1>8. s \in Nat /\ s <= Len(prev) - p /\ s <= Len(next) - p
  BY <1>7, CommonPrefixIs
<1> HIDE DEF s
<1>9. Len(prev) - p - s \in Nat /\ p + (Len(prev) - p - s) <= Len(prev)
  BY <1>6, <1>8
<1>10. Edits(mid, A, M, page.rga.ops, page.name) /\ mid.counter = page.counter
  <2> DEFINE n == Len(prev) - p - s
  <2>1. n \in Nat /\ p + n <= Len(VisibleIds(edit.rga)) /\ p \in Nat
    BY <1>2, <1>3, <1>6, <1>9
  <2> DEFINE name == page.name
  <2> DEFINE R == page.rga.ops
  <2>2. name \in Names /\ R \in SUBSET A /\ Edits(edit, A, M, R, name)
    BY <1>5
  <2> HIDE DEF n, name, R
  <2>3. Edits(DeleteAt(edit, p, n), A, M, R, name) /\ DeleteAt(edit, p, n).counter = edit.counter
    BY <2>1, <2>2, DeleteKeeps
  <2> QED
    BY <1>3, <2>3 DEF n, name, R
<1>11. typing \in Seq(Letters)
  <2>1. Len(next) - s \in Nat /\ p <= Len(next) - s /\ Len(next) - s <= Len(next)
    BY <1>6, <1>8
  <2> QED
    BY <1>6, <2>1, PartOf
<1> HIDE DEF mid, typing
<1>12. UpTo(M, page.name, mid.counter)
  BY <1>10
<1>13. /\ Edits(InsertStringAt(mid, page.name, p, typing), A, M, page.rga.ops, page.name)
       /\ mid.counter <= InsertStringAt(mid, page.name, p, typing).counter
  <2> DEFINE name == page.name
  <2> DEFINE R == page.rga.ops
  <2>1. name \in Names /\ R \in SUBSET A /\ Edits(mid, A, M, R, name) /\ UpTo(M, name, mid.counter)
    BY <1>10, <1>12
  <2> HIDE DEF name, R
  <2>2. /\ Edits(InsertStringAt(mid, name, p, typing), A, M, R, name)
        /\ mid.counter <= InsertStringAt(mid, name, p, typing).counter
    BY <1>11, <2>1, InsertStringKeeps
  <2> QED
    BY <2>2 DEF name, R
<1> QED
  BY <1>4, <1>10, <1>13

-----------------------------------------------------------------------------
(* The inductive invariant.                                                *)

Rgas == [elems : UNION {[K -> [after : Places, ch : Letters, deleted : BOOLEAN]] : K \in SUBSET ElemIds},
         tombstoned : SUBSET ElemIds, ops : SUBSET Ops]

LEMMA ReplicaType == \A rga : Reflects(rga) => rga \in Rgas
<1>1. SUFFICES ASSUME NEW rga, Reflects(rga) PROVE rga \in Rgas
  OBVIOUS
<1> DEFINE K == Known(rga)
<1>2. K \in SUBSET ElemIds /\ rga.tombstoned \in SUBSET ElemIds /\ rga.ops \in SUBSET Ops
  BY <1>1, OpsAre DEF Reflects, IdsOf, Ins, Deleted
<1>3. \A i \in K : rga.elems[i] \in [after : Places, ch : Letters, deleted : BOOLEAN]
  <2>1. SUFFICES ASSUME NEW i \in K
                 PROVE  rga.elems[i] \in [after : Places, ch : Letters, deleted : BOOLEAN]
    OBVIOUS
  <2>2. PICK o \in Ins(rga.ops) : o.id = i
    BY <1>1 DEF Reflects, IdsOf
  <2>3. o.after \in Places /\ o.ch \in Letters
    BY <1>1, OpsAre DEF Ins, Reflects
  <2> DEFINE was == (o.id \in rga.tombstoned)
  <2>4. was \in BOOLEAN
    OBVIOUS
  <2>5. rga.elems[i] = [after |-> o.after, ch |-> o.ch, deleted |-> was]
    BY <1>1, <2>2 DEF Reflects
  <2> HIDE DEF was
  <2> QED
    BY <2>3, <2>4, <2>5
<1>4. rga.elems \in [K -> [after : Places, ch : Letters, deleted : BOOLEAN]]
  <2>1. rga.elems = [i \in K |-> rga.elems[i]]
    BY <1>1 DEF Reflects
  <2> HIDE DEF K
  <2> QED
    BY <1>3, <2>1
<1>5. rga = [elems |-> rga.elems, tombstoned |-> rga.tombstoned, ops |-> rga.ops]
  BY <1>1 DEF Reflects
<1> DEFINE E == UNION {[L -> [after : Places, ch : Letters, deleted : BOOLEAN]] : L \in SUBSET ElemIds}
<1>6. rga.elems \in E
  BY <1>2, <1>4
<1> HIDE DEF K, E
<1> QED
  BY <1>2, <1>5, <1>6 DEF Rgas, E

Posted == UNION {ToSet(b) : b \in posts}
Paged == UNION {tab[t].rga.ops : t \in Tabs}
AllOps == server.ops \cup Paged \cup Posted

\* The places handed out: of a name that is open, up to its counter.
Issued == {i \in ElemIds :
             /\ i[1] \in named
             /\ \A t \in Tabs : tab[t].open /\ tab[t].name = i[1] => i[2] <= tab[t].counter}

PagesTyped ==
  /\ tab \in [Tabs -> [open : BOOLEAN, live : BOOLEAN, name : Nat, counter : Nat,
                       rga : Rgas, text : Seq(Letters), cursor : Nat]]
  /\ named \subseteq Names /\ log \in Seq(Ops) /\ posts \subseteq Seq(Ops)

\* Open pages have names of their own.
OwnNames ==
  /\ \A t \in Tabs : tab[t].open => tab[t].name \in named
  /\ \A t, u \in Tabs : tab[t].open /\ tab[u].open /\ tab[t].name = tab[u].name => t = u

\* Every replica is what its operations say; the session's are those of its log.
AllReflect ==
  /\ Reflects(server) /\ \A t \in Tabs : Reflects(tab[t].rga)
  /\ ToSet(log) = server.ops

AllSound == Sound(AllOps) /\ Within(AllOps, Issued)

\* A live page has the log up to its cursor.
Delivered ==
  \A t \in Tabs : tab[t].live =>
    /\ tab[t].open /\ tab[t].cursor \in 0..Len(log)
    /\ \A k \in 1..tab[t].cursor : log[k] \in tab[t].rga.ops

\* As long as nothing was lost, what a page has is in the session or on its way.
NothingLost == faults = {} => \A t \in Tabs : tab[t].rga.ops \subseteq server.ops \cup Posted

CollabInv == PagesTyped /\ OwnNames /\ AllReflect /\ AllSound /\ Delivered /\ NothingLost

LEMMA TabType ==
  ASSUME PagesTyped, NEW t \in Tabs
  PROVE  /\ tab[t].open \in BOOLEAN /\ tab[t].live \in BOOLEAN /\ tab[t].name \in Nat
         /\ tab[t].counter \in Nat /\ tab[t].rga \in Rgas /\ tab[t].text \in Seq(Letters)
         /\ tab[t].cursor \in Nat
BY DEF PagesTyped

LEMMA ClosedIs ==
  /\ Closed.open = FALSE /\ Closed.live = FALSE /\ Closed.name = 0 /\ Closed.counter = 0
  /\ Closed.rga = EmptyRga /\ Closed.text = <<>> /\ Closed.cursor = 0
  /\ Closed \in [open : BOOLEAN, live : BOOLEAN, name : Nat, counter : Nat,
                 rga : Rgas, text : Seq(Letters), cursor : Nat]
<1>1. EmptyRga \in Rgas
  BY EmptyReflects, ReplicaType
<1> QED
  BY <1>1 DEF Closed

LEMMA InitWoven == CollabInit => CollabInv
<1>1. SUFFICES ASSUME CollabInit PROVE CollabInv
  OBVIOUS
<1>2. \A t \in Tabs : tab[t] = Closed
  BY <1>1 DEF CollabInit
<1>3. PagesTyped
  BY <1>1, ClosedIs DEF CollabInit, PagesTyped
<1>4. OwnNames
  BY <1>2, ClosedIs DEF OwnNames
<1>5. AllReflect
  BY <1>1, <1>2, ClosedIs, EmptyReflects DEF CollabInit, AllReflect, ToSet
<1>6. AllOps = {}
  BY <1>1, <1>2, ClosedIs, EmptyReflects DEF CollabInit, AllOps, Paged, Posted
<1>7. AllSound
  BY <1>6, NothingIsSound DEF AllSound, Within
<1>8. Delivered
  BY <1>2, ClosedIs DEF Delivered
<1>9. NothingLost
  BY <1>2, ClosedIs, EmptyReflects DEF NothingLost
<1> QED
  BY <1>3, <1>4, <1>5, <1>7, <1>8, <1>9 DEF CollabInv

\* A step that brings no operation and takes no place back.
LEMMA NoNewOps ==
  ASSUME AllSound, AllOps' \subseteq AllOps, Issued \subseteq Issued'
  PROVE  AllSound'
<1>1. Sound(AllOps')
  BY SoundBelow DEF AllSound
<1>2. Within(AllOps', Issued')
  BY WithinMore DEF AllSound
<1> QED
  BY <1>1, <1>2 DEF AllSound

LEMMA PartsOfAll ==
  /\ server.ops \subseteq AllOps /\ Posted \subseteq AllOps
  /\ \A t \in Tabs : tab[t].rga.ops \subseteq AllOps
  /\ \A b \in posts : ToSet(b) \subseteq Posted
<1>1. \A t \in Tabs : tab[t].rga.ops \subseteq AllOps
  <2>1. \A t \in Tabs : tab[t].rga.ops \subseteq Paged
    BY DEF Paged
  <2> QED
    BY <2>1 DEF AllOps
<1>2. \A b \in posts : ToSet(b) \subseteq Posted
  BY DEF Posted
<1>4. server.ops \subseteq AllOps /\ Posted \subseteq AllOps
  BY DEF AllOps
<1> QED
  BY <1>1, <1>2, <1>4

\* Opening the page: the whole log, under a name nobody has.
LEMMA OpenWoven ==
  ASSUME CollabInv, NEW t \in Tabs, OpenDoc(t)
  PROVE  CollabInv'
<1> USE DEF CollabInv
<1> DEFINE rga == ApplyMany(EmptyRga, log)
<1>1. PICK name \in Names \ named :
        /\ tab' = [tab EXCEPT ![t] =
             [open |-> TRUE, live |-> TRUE, name |-> name, counter |-> 0,
              rga |-> rga, text |-> TextOf(rga), cursor |-> Len(log)]]
        /\ named' = named \cup {name}
  BY DEF OpenDoc
<1>2. UNCHANGED <<log, server, posts, typed, faults>>
  BY DEF OpenDoc
<1>3. log \in Seq(Ops) /\ tab \in [Tabs -> [open : BOOLEAN, live : BOOLEAN, name : Nat,
        counter : Nat, rga : Rgas, text : Seq(Letters), cursor : Nat]] /\ Len(log) \in Nat
  BY DEF PagesTyped
<1>4. Reflects(rga) /\ rga.ops = server.ops
  <2>1. ToSet(log) = server.ops /\ Reflects(EmptyRga) /\ EmptyRga.ops = {}
    BY EmptyReflects DEF AllReflect
  <2>2. OneEach(EmptyRga.ops \cup ToSet(log))
    BY <2>1, PartsOfAll, OneEachBelow DEF AllSound, Sound
  <2>3. Reflects(ApplyMany(EmptyRga, log))
          /\ ApplyMany(EmptyRga, log).ops = EmptyRga.ops \cup ToSet(log)
    <3> DEFINE none == EmptyRga
    <3>1. Reflects(none) /\ OneEach(none.ops \cup ToSet(log)) /\ log \in Seq(Ops)
      BY <1>3, <2>1, <2>2
    <3> HIDE DEF none
    <3>2. Reflects(ApplyMany(none, log)) /\ ApplyMany(none, log).ops = none.ops \cup ToSet(log)
      BY <3>1, ApplyManyKeeps
    <3> QED
      BY <3>2 DEF none
  <2> QED
    BY <2>1, <2>3
<1>5. rga \in Rgas /\ TextOf(rga) \in Seq(Letters)
  <2>1. Sound(rga.ops)
    BY <1>4, PartsOfAll, SoundBelow DEF AllSound
  <2> QED
    BY <1>4, <2>1, ReplicaType, TextIs
<1> HIDE DEF rga
<1>6. name \in Nat /\ name \in Names /\ name \notin named
  BY CollabAssumption DEF Names
<1>7. /\ tab'[t].open = TRUE /\ tab'[t].live = TRUE /\ tab'[t].name = name /\ tab'[t].counter = 0
      /\ tab'[t].rga = rga /\ tab'[t].cursor = Len(log)
      /\ \A u \in Tabs : u # t => tab'[u] = tab[u]
  BY <1>1, <1>3
<1>8. PagesTyped'
  BY <1>1, <1>2, <1>3, <1>5, <1>6 DEF PagesTyped
<1>9. OwnNames'
  BY <1>1, <1>6, <1>7 DEF OwnNames
<1>10. AllReflect'
  BY <1>2, <1>4, <1>7 DEF AllReflect
<1>11. AllSound'
  <2>1. AllOps' \subseteq AllOps
    BY <1>2, <1>4, <1>7 DEF AllOps, Paged, Posted
  <2>2. Issued \subseteq Issued'
    BY <1>1, <1>6, <1>7 DEF Issued
  <2> QED
    BY <2>1, <2>2, NoNewOps
<1>12. Delivered'
  <2>1. \A k \in 1..Len(log) : log[k] \in server.ops
    BY <1>3 DEF AllReflect, ToSet
  <2> QED
    BY <1>2, <1>3, <1>4, <1>7, <2>1 DEF Delivered
<1>13. NothingLost'
  BY <1>2, <1>4, <1>7 DEF NothingLost, Posted
<1> QED
  BY <1>8, <1>9, <1>10, <1>11, <1>12, <1>13

LEMMA CloseWoven ==
  ASSUME CollabInv, NEW t \in Tabs, CloseDoc(t)
  PROVE  CollabInv'
<1> USE DEF CollabInv
<1>1. tab' = [tab EXCEPT ![t] = Closed] /\ UNCHANGED <<log, server, posts, typed, named, faults>>
  BY DEF CloseDoc
<1>2. tab \in [Tabs -> [open : BOOLEAN, live : BOOLEAN, name : Nat,
        counter : Nat, rga : Rgas, text : Seq(Letters), cursor : Nat]]
  BY DEF PagesTyped
<1>3. tab'[t] = Closed /\ \A u \in Tabs : u # t => tab'[u] = tab[u]
  BY <1>1, <1>2
<1>4. /\ tab'[t].open = FALSE /\ tab'[t].live = FALSE /\ tab'[t].rga = EmptyRga
      /\ EmptyRga.ops = {} /\ Reflects(EmptyRga)
  BY <1>3, ClosedIs, EmptyReflects
<1>5. PagesTyped'
  BY <1>1, <1>2, ClosedIs DEF PagesTyped
<1>6. OwnNames'
  BY <1>1, <1>3, <1>4 DEF OwnNames
<1>7. AllReflect'
  BY <1>1, <1>3, <1>4 DEF AllReflect
<1>8. AllSound'
  <2>1. AllOps' \subseteq AllOps
    BY <1>1, <1>3, <1>4 DEF AllOps, Paged, Posted
  <2>2. Issued \subseteq Issued'
    BY <1>1, <1>3, <1>4 DEF Issued
  <2> QED
    BY <2>1, <2>2, NoNewOps
<1>9. Delivered'
  BY <1>1, <1>3, <1>4 DEF Delivered
<1>10. NothingLost'
  BY <1>1, <1>3, <1>4 DEF NothingLost, Posted
<1> QED
  BY <1>5, <1>6, <1>7, <1>8, <1>9, <1>10

\* An edit: its operations hang together with all there are.
LEMMA EditWoven ==
  ASSUME CollabInv, NEW t \in Tabs, OnEdit(t)
  PROVE  CollabInv'
<1> USE DEF CollabInv
<1>1. PICK next \in NextTexts(tab[t].text) :
        LET edit == ChangeToOps(tab[t], next) IN
        /\ tab' = [tab EXCEPT ![t].text = next, ![t].rga = edit.rga, ![t].counter = edit.counter]
        /\ posts' = posts \cup (IF edit.ops = <<>> THEN {} ELSE {edit.ops})
  BY DEF OnEdit
<1>2. tab[t].open /\ UNCHANGED <<log, server, named, faults>>
  BY DEF OnEdit
<1> DEFINE page == tab[t]
<1> DEFINE edit == ChangeToOps(page, next)
<1>3. tab \in [Tabs -> [open : BOOLEAN, live : BOOLEAN, name : Nat,
        counter : Nat, rga : Rgas, text : Seq(Letters), cursor : Nat]] /\ posts \subseteq Seq(Ops)
  BY DEF PagesTyped
<1>4. page.counter \in Nat /\ page.text \in Seq(Letters) /\ page.name \in named /\ page.name \in Names
  BY <1>2, <1>3 DEF OwnNames, PagesTyped
<1>5. next \in Seq(Letters)
  BY <1>4, NextTextsAre
<1>6. Issued \in SUBSET ElemIds /\ UpTo(Issued, page.name, page.counter)
  BY <1>2 DEF Issued, UpTo
<1>7. /\ Edits(edit, AllOps, Issued, page.rga.ops, page.name)
      /\ page.counter <= edit.counter
  <2>1. Reflects(page.rga) /\ page.rga.ops \in SUBSET AllOps
    BY PartsOfAll DEF AllReflect
  <2>2. Sound(AllOps) /\ Within(AllOps, Issued)
    BY DEF AllSound
  <2> DEFINE A == AllOps
  <2> DEFINE M == Issued
  <2> HIDE DEF page, A, M
  <2>3. /\ Edits(ChangeToOps(page, next), A, M, page.rga.ops, page.name)
        /\ page.counter <= ChangeToOps(page, next).counter
    <3>1. Reflects(page.rga) /\ page.rga.ops \in SUBSET A /\ Sound(A) /\ Within(A, M)
            /\ M \in SUBSET ElemIds /\ UpTo(M, page.name, page.counter)
      BY <1>6, <2>1, <2>2 DEF A, M
    <3> QED
      BY <1>4, <1>5, <3>1, ChangeKeeps
  <2> QED
    BY <2>3 DEF A, M
<1>8. tab' = [tab EXCEPT ![t].text = next, ![t].rga = edit.rga, ![t].counter = edit.counter]
        /\ posts' = posts \cup (IF edit.ops = <<>> THEN {} ELSE {edit.ops})
  BY <1>1
<1> HIDE DEF edit
<1>9. /\ Reflects(edit.rga) /\ edit.rga.ops = page.rga.ops \cup ToSet(edit.ops)
      /\ edit.counter \in Nat /\ edit.ops \in Seq(Ops) /\ edit.rga \in Rgas
      /\ Sound(AllOps \cup ToSet(edit.ops))
      /\ Within(AllOps \cup ToSet(edit.ops), Issued \cup Mine(page.name, edit.counter))
  BY <1>7, ReplicaType DEF Edits
<1>10. /\ tab'[t].open = tab[t].open /\ tab'[t].live = tab[t].live /\ tab'[t].name = tab[t].name
       /\ tab'[t].cursor = tab[t].cursor /\ tab'[t].rga = edit.rga
       /\ tab'[t].counter = edit.counter
       /\ \A u \in Tabs : u # t => tab'[u] = tab[u]
  BY <1>3, <1>8
<1>11. PagesTyped'
  <2>1. tab' \in [Tabs -> [open : BOOLEAN, live : BOOLEAN, name : Nat,
          counter : Nat, rga : Rgas, text : Seq(Letters), cursor : Nat]]
    BY <1>3, <1>5, <1>8, <1>9
  <2>2. posts' \subseteq Seq(Ops)
    BY <1>3, <1>8, <1>9
  <2> QED
    BY <1>2, <2>1, <2>2 DEF PagesTyped
<1>12. OwnNames'
  BY <1>2, <1>10 DEF OwnNames
<1>13. AllReflect'
  BY <1>2, <1>9, <1>10 DEF AllReflect
<1>14. Posted \subseteq Posted' /\ ToSet(edit.ops) \subseteq Posted'
         /\ Posted' \subseteq Posted \cup ToSet(edit.ops)
  <2>1. edit.ops = <<>> => ToSet(edit.ops) = {}
    BY DEF ToSet
  <2> QED
    BY <1>8, <2>1 DEF Posted
<1>15. AllSound'
  <2>1. AllOps' \subseteq AllOps \cup ToSet(edit.ops)
    <3>1. \A u \in Tabs : tab'[u].rga.ops \subseteq AllOps \cup ToSet(edit.ops)
      BY <1>9, <1>10, PartsOfAll
    <3>2. Posted' \subseteq AllOps \cup ToSet(edit.ops)
      BY <1>14, PartsOfAll
    <3>3. server'.ops \subseteq AllOps
      BY <1>2, PartsOfAll
    <3>4. Paged' \subseteq AllOps \cup ToSet(edit.ops)
      BY <3>1 DEF Paged
    <3> QED
      BY <3>2, <3>3, <3>4 DEF AllOps
  <2>2. Issued \cup Mine(page.name, edit.counter) \subseteq Issued'
    <3>1. ASSUME NEW i \in Issued
          PROVE  i \in Issued'
      <4>1. SUFFICES ASSUME NEW u \in Tabs, tab'[u].open, tab'[u].name = i[1]
                     PROVE  i[2] <= tab'[u].counter
        BY <1>2 DEF Issued
      <4>2. i[2] \in Nat
        BY IdsAreNumbers DEF Issued
      <4>3. CASE u = t
        BY <1>4, <1>7, <1>9, <1>10, <4>1, <4>2, <4>3 DEF Issued
      <4>4. CASE u # t
        BY <1>10, <4>1, <4>4 DEF Issued
      <4> QED
        BY <4>3, <4>4
    <3>2. ASSUME NEW k \in 1..edit.counter
          PROVE  <<page.name, k>> \in Issued'
      <4>1. <<page.name, k>> \in ElemIds /\ k <= edit.counter
        BY <1>4, <1>9 DEF ElemIds
      <4>2. \A u \in Tabs : tab'[u].open /\ tab'[u].name = page.name => u = t
        BY <1>2, <1>10 DEF OwnNames
      <4> QED
        BY <1>2, <1>4, <1>10, <4>1, <4>2 DEF Issued
    <3> QED
      BY <3>1, <3>2 DEF Mine
  <2>3. Sound(AllOps')
    BY <1>9, <2>1, SoundBelow
  <2>4. Within(AllOps', Issued')
    BY <1>9, <2>1, <2>2 DEF Within
  <2> QED
    BY <2>3, <2>4 DEF AllSound
<1>16. Delivered'
  <2>1. tab[t].rga.ops \subseteq tab'[t].rga.ops
    BY <1>9, <1>10
  <2> QED
    BY <1>2, <1>10, <2>1 DEF Delivered
<1>17. NothingLost'
  <2>1. SUFFICES ASSUME faults = {}, NEW u \in Tabs
                 PROVE  tab'[u].rga.ops \subseteq server.ops \cup Posted'
    BY <1>2 DEF NothingLost
  <2>2. tab[u].rga.ops \subseteq server.ops \cup Posted
    BY <2>1 DEF NothingLost
  <2> QED
    BY <1>9, <1>10, <1>14, <2>2
<1> QED
  BY <1>11, <1>12, <1>13, <1>15, <1>16, <1>17

\* An event: the log from the cursor on, so what is applied is a prefix still.
LEMMA EventWoven ==
  ASSUME CollabInv, NEW t \in Tabs, OnEvent(t)
  PROVE  CollabInv'
<1> USE DEF CollabInv
<1>1. PICK seq \in Events(t) :
        LET ops == OpsSince(tab[t].cursor, seq)
            rga == ApplyMany(tab[t].rga, ops)
            changed == \E k \in DOMAIN ops : Fresh(tab[t].rga, ops[k])
        IN  tab' = [tab EXCEPT ![t].rga = rga, ![t].cursor = seq,
                               ![t].text = IF changed THEN TextOf(rga) ELSE @]
  BY DEF OnEvent
<1>2. tab[t].live /\ UNCHANGED <<log, server, posts, typed, named, faults>>
  BY DEF OnEvent
<1> DEFINE page == tab[t]
<1> DEFINE ops == OpsSince(page.cursor, seq)
<1> DEFINE rga == ApplyMany(page.rga, ops)
<1> DEFINE changed == \E k \in DOMAIN ops : Fresh(page.rga, ops[k])
<1> DEFINE text == IF changed THEN TextOf(rga) ELSE page.text
<1>3. tab \in [Tabs -> [open : BOOLEAN, live : BOOLEAN, name : Nat,
        counter : Nat, rga : Rgas, text : Seq(Letters), cursor : Nat]] /\ log \in Seq(Ops)
  BY DEF PagesTyped
<1>4. page.cursor \in Nat /\ page.cursor <= Len(log) /\ Len(log) \in Nat /\ page.open
        /\ page.text \in Seq(Letters)
  BY <1>2, <1>3 DEF Delivered, PagesTyped
<1>5. seq \in Nat /\ page.cursor + 1 <= seq /\ seq <= Len(log)
  BY <1>4 DEF Events
<1>6. /\ ops \in Seq(Ops) /\ ToSet(ops) \subseteq server.ops
      /\ \A k \in (page.cursor + 1)..seq : log[k] \in ToSet(ops)
  <2> DEFINE c == page.cursor
  <2>1. c \in Nat /\ c <= seq
    BY <1>4, <1>5
  <2>2. ops = SubSeq(log, c + 1, seq)
    BY DEF OpsSince
  <2>3. server.ops = {log[k] : k \in 1..Len(log)}
    BY <1>3 DEF AllReflect, ToSet
  <2> HIDE DEF c, ops
  <2>4. ops \in Seq(Ops) /\ Len(ops) = seq - c
    BY <1>3, <1>5, <2>1, <2>2, PartOf
  <2>5. \A k \in 1..(seq - c) : ops[k] = log[k + c]
    BY <1>3, <1>5, <2>1, <2>2
  <2>6. DOMAIN ops = 1..(seq - c)
    BY <2>4
  <2>7. \A k \in 1..(seq - c) : k + c \in 1..Len(log)
    BY <1>4, <1>5, <2>1
  <2>8. ToSet(ops) \subseteq server.ops
    BY <2>3, <2>5, <2>6, <2>7 DEF ToSet
  <2>9. ASSUME NEW k \in (c + 1)..seq
        PROVE  log[k] \in ToSet(ops)
    <3>1. k - c \in 1..(seq - c) /\ (k - c) + c = k
      BY <1>5, <2>1
    <3>2. ops[k - c] = log[k]
      BY <2>5, <3>1
    <3> QED
      BY <2>6, <3>1, <3>2 DEF ToSet
  <2> QED
    BY <2>4, <2>8, <2>9 DEF c
<1>7. tab' = [tab EXCEPT ![t].rga = rga, ![t].cursor = seq, ![t].text = text]
  BY <1>1
<1> HIDE DEF ops
<1>8. Reflects(rga) /\ rga.ops = page.rga.ops \cup ToSet(ops)
  <2>1. Reflects(page.rga) /\ page.rga.ops \subseteq AllOps /\ server.ops \subseteq AllOps
    BY PartsOfAll DEF AllReflect
  <2>2. OneEach(page.rga.ops \cup ToSet(ops))
    <3>1. page.rga.ops \cup ToSet(ops) \subseteq AllOps
      BY <1>6, <2>1
    <3> QED
      BY <3>1, OneEachBelow DEF AllSound, Sound
  <2> DEFINE r == page.rga
  <2>3. Reflects(r) /\ OneEach(r.ops \cup ToSet(ops))
    BY <2>1, <2>2
  <2> HIDE DEF r
  <2>4. Reflects(ApplyMany(r, ops)) /\ ApplyMany(r, ops).ops = r.ops \cup ToSet(ops)
    BY <1>6, <2>3, ApplyManyKeeps
  <2> QED
    BY <2>4 DEF r
<1> HIDE DEF rga, changed
<1>9. rga \in Rgas /\ text \in Seq(Letters)
  <2>1. Sound(rga.ops)
    <3>1. rga.ops \subseteq AllOps
      BY <1>6, <1>8, PartsOfAll
    <3> QED
      BY <3>1, SoundBelow DEF AllSound
  <2> QED
    BY <1>4, <1>8, <2>1, ReplicaType, TextIs
<1> HIDE DEF text
<1>10. /\ tab'[t].open = tab[t].open /\ tab'[t].live = tab[t].live /\ tab'[t].name = tab[t].name
       /\ tab'[t].cursor = seq /\ tab'[t].rga = rga /\ tab'[t].counter = tab[t].counter
       /\ \A u \in Tabs : u # t => tab'[u] = tab[u]
  BY <1>3, <1>7
<1>11. PagesTyped'
  <2>1. tab' \in [Tabs -> [open : BOOLEAN, live : BOOLEAN, name : Nat,
          counter : Nat, rga : Rgas, text : Seq(Letters), cursor : Nat]]
    BY <1>3, <1>5, <1>7, <1>9
  <2> QED
    BY <1>2, <2>1 DEF PagesTyped
<1>12. OwnNames'
  BY <1>2, <1>10 DEF OwnNames
<1>13. AllReflect'
  BY <1>2, <1>8, <1>10 DEF AllReflect
<1>14. rga.ops \subseteq page.rga.ops \cup server.ops
  BY <1>6, <1>8
<1>15. AllSound'
  <2>1. AllOps' \subseteq AllOps
    <3>1. \A u \in Tabs : tab'[u].rga.ops \subseteq AllOps
      BY <1>10, <1>14, PartsOfAll
    <3>2. Paged' \subseteq AllOps
      BY <3>1 DEF Paged
    <3>3. server'.ops \subseteq AllOps /\ Posted' \subseteq AllOps
      BY <1>2, PartsOfAll DEF Posted
    <3> QED
      BY <3>2, <3>3 DEF AllOps
  <2>2. Issued \subseteq Issued'
    BY <1>2, <1>10 DEF Issued
  <2> QED
    BY <2>1, <2>2, NoNewOps
<1>16. Delivered'
  <2>1. \A k \in 1..seq : log[k] \in rga.ops
    <3>1. SUFFICES ASSUME NEW k \in 1..seq PROVE log[k] \in rga.ops
      OBVIOUS
    <3>2. k \in 1..page.cursor \/ k \in (page.cursor + 1)..seq
      BY <1>4, <1>5
    <3>3. \A j \in 1..page.cursor : log[j] \in page.rga.ops
      BY <1>2 DEF Delivered
    <3> QED
      BY <1>6, <1>8, <3>2, <3>3
  <2>2. seq \in 0..Len(log)
    BY <1>4, <1>5
  <2> QED
    BY <1>2, <1>4, <1>10, <2>1, <2>2 DEF Delivered
<1>17. NothingLost'
  BY <1>2, <1>10, <1>14 DEF NothingLost, Posted
<1> QED
  BY <1>11, <1>12, <1>13, <1>15, <1>16, <1>17

\* Pages whose streams end keep all else.
LEMMA StreamsEnd ==
  ASSUME CollabInv,
         tab' \in [Tabs -> [open : BOOLEAN, live : BOOLEAN, name : Nat,
                            counter : Nat, rga : Rgas, text : Seq(Letters), cursor : Nat]],
         \A t \in Tabs : /\ tab'[t].open = tab[t].open /\ tab'[t].name = tab[t].name
                         /\ tab'[t].counter = tab[t].counter /\ tab'[t].rga = tab[t].rga
                         /\ tab'[t].cursor = tab[t].cursor,
         \A t \in Tabs : tab'[t].live => tab[t].live /\ log' = log,
         posts' \subseteq posts, faults = faults' => UNCHANGED <<server, posts>>,
         faults' # {} \/ faults' = faults,
         <<server', log'>> = <<server, log>> \/ <<server', log'>> = <<EmptyRga, <<>>>>,
         UNCHANGED named
  PROVE  CollabInv'
<1> USE DEF CollabInv
<1>1. PagesTyped'
  <2>1. log' = log \/ log' = <<>>
    OBVIOUS
  <2>2. log' \in Seq(Ops)
    <3>1. log \in Seq(Ops) /\ <<>> \in Seq(Ops)
      BY DEF PagesTyped
    <3> QED
      BY <2>1, <3>1
  <2>3. posts' \subseteq Seq(Ops) /\ named' \subseteq Names
    BY DEF PagesTyped
  <2> QED
    BY <2>2, <2>3 DEF PagesTyped
<1>2. OwnNames'
  BY DEF OwnNames
<1>3. AllReflect'
  BY EmptyReflects DEF AllReflect, ToSet
<1>4. AllSound'
  <2>1. Posted' \subseteq Posted
    BY DEF Posted
  <2>2. Paged' \subseteq Paged
    BY DEF Paged
  <2>3. server'.ops \subseteq server.ops
    BY EmptyReflects
  <2>4. AllOps' \subseteq AllOps
    BY <2>1, <2>2, <2>3 DEF AllOps
  <2>5. Issued \subseteq Issued'
    BY DEF Issued
  <2> QED
    BY <2>4, <2>5, NoNewOps
<1>5. Delivered'
  BY DEF Delivered
<1>6. NothingLost'
  BY DEF NothingLost, Posted
<1> QED
  BY <1>1, <1>2, <1>3, <1>4, <1>5, <1>6

LEMMA ErrorWoven ==
  ASSUME CollabInv, NEW t \in Tabs, StreamError(t)
  PROVE  CollabInv'
<1>1. tab' = [tab EXCEPT ![t].live = FALSE]
        /\ UNCHANGED <<log, server, posts, typed, named, faults>>
  BY DEF StreamError
<1>2. tab \in [Tabs -> [open : BOOLEAN, live : BOOLEAN, name : Nat,
        counter : Nat, rga : Rgas, text : Seq(Letters), cursor : Nat]]
  BY DEF CollabInv, PagesTyped
<1>3. tab' \in [Tabs -> [open : BOOLEAN, live : BOOLEAN, name : Nat,
        counter : Nat, rga : Rgas, text : Seq(Letters), cursor : Nat]]
  BY <1>1, <1>2
<1>4. \A u \in Tabs : /\ tab'[u].open = tab[u].open /\ tab'[u].name = tab[u].name
                      /\ tab'[u].counter = tab[u].counter /\ tab'[u].rga = tab[u].rga
                      /\ tab'[u].cursor = tab[u].cursor
  BY <1>1, <1>2
<1>5. \A u \in Tabs : tab'[u].live => tab[u].live /\ log' = log
  BY <1>1, <1>2
<1> QED
  BY <1>1, <1>3, <1>4, <1>5, StreamsEnd

LEMMA RestartWoven ==
  ASSUME CollabInv, RestartServer
  PROVE  CollabInv'
<1>1. /\ tab' = [t \in Tabs |-> [tab[t] EXCEPT !.live = FALSE]]
      /\ faults' # {} /\ faults' # faults
      /\ log' = <<>> /\ server' = EmptyRga /\ UNCHANGED <<posts, named>>
  BY DEF RestartServer
<1>2. tab \in [Tabs -> [open : BOOLEAN, live : BOOLEAN, name : Nat,
        counter : Nat, rga : Rgas, text : Seq(Letters), cursor : Nat]]
  BY DEF CollabInv, PagesTyped
<1>3. \A u \in Tabs : /\ tab'[u].open = tab[u].open /\ tab'[u].name = tab[u].name
                      /\ tab'[u].counter = tab[u].counter /\ tab'[u].rga = tab[u].rga
                      /\ tab'[u].cursor = tab[u].cursor /\ tab'[u].live = FALSE
  BY <1>1, <1>2
<1>4. tab' \in [Tabs -> [open : BOOLEAN, live : BOOLEAN, name : Nat,
        counter : Nat, rga : Rgas, text : Seq(Letters), cursor : Nat]]
  BY <1>1, <1>2
<1> QED
  BY <1>1, <1>3, <1>4, StreamsEnd

LEMMA LossWoven ==
  ASSUME CollabInv, LosePost
  PROVE  CollabInv'
<1>1. posts' \subseteq posts /\ faults' # {} /\ UNCHANGED <<tab, log, server, typed, named>>
  BY DEF LosePost
<1> USE DEF CollabInv
<1>2. PagesTyped' /\ OwnNames' /\ AllReflect' /\ Delivered'
  BY <1>1 DEF PagesTyped, OwnNames, AllReflect, Delivered
<1>3. AllSound'
  <2>1. Posted' \subseteq Posted
    BY <1>1 DEF Posted
  <2>2. Paged' = Paged
    BY <1>1 DEF Paged
  <2>3. AllOps' \subseteq AllOps
    BY <1>1, <2>1, <2>2 DEF AllOps
  <2>4. Issued \subseteq Issued'
    BY <1>1 DEF Issued
  <2> QED
    BY <2>3, <2>4, NoNewOps
<1>4. NothingLost'
  BY <1>1 DEF NothingLost
<1> QED
  BY <1>2, <1>3, <1>4

\* A batch arrives: the session applies and logs what is new.
LEMMA PostWoven ==
  ASSUME CollabInv, PostOps
  PROVE  CollabInv'
<1> USE DEF CollabInv
<1>1. PICK ops \in posts :
        LET session == ApplyOps([rga |-> server, log |-> log], ops) IN
        /\ server' = session.rga
        /\ log' = session.log
        /\ posts' = posts \ {ops}
  BY DEF PostOps
<1>2. UNCHANGED <<tab, typed, named, faults>>
  BY DEF PostOps
<1>3. ops \in Seq(Ops) /\ log \in Seq(Ops) /\ posts \subseteq Seq(Ops)
  BY DEF PagesTyped
<1>4. ToSet(ops) \subseteq Posted /\ ToSet(ops) \subseteq AllOps
  BY PartsOfAll
<1>5. /\ Reflects(server') /\ server'.ops = server.ops \cup ToSet(ops)
      /\ log' \in Seq(Ops) /\ ToSet(log') = server'.ops
      /\ Len(log) <= Len(log') /\ \A k \in 1..Len(log) : log'[k] = log[k]
  <2>1. OneEach(server.ops \cup ToSet(ops))
    <3>1. server.ops \cup ToSet(ops) \subseteq AllOps
      BY <1>4, PartsOfAll
    <3> QED
      BY <3>1, OneEachBelow DEF AllSound, Sound
  <2>2. Reflects(server) /\ ToSet(log) = server.ops
    BY DEF AllReflect
  <2> QED
    BY <1>1, <1>3, <2>1, <2>2, ApplyOpsKeeps
<1>6. PagesTyped' /\ OwnNames'
  BY <1>1, <1>2, <1>3, <1>5 DEF PagesTyped, OwnNames
<1>7. AllReflect'
  BY <1>2, <1>5 DEF AllReflect
<1>8. Posted' \subseteq Posted /\ Posted \subseteq Posted' \cup ToSet(ops)
  BY <1>1 DEF Posted
<1>9. AllSound'
  <2>1. server'.ops \subseteq AllOps /\ Posted' \subseteq AllOps
    BY <1>4, <1>5, <1>8, PartsOfAll
  <2>2. Paged' = Paged
    BY <1>2 DEF Paged
  <2>3. AllOps' \subseteq AllOps
    BY <2>1, <2>2 DEF AllOps
  <2>4. Issued \subseteq Issued'
    BY <1>2 DEF Issued
  <2> QED
    BY <2>3, <2>4, NoNewOps
<1>10. Delivered'
  <2>1. SUFFICES ASSUME NEW t \in Tabs, tab[t].live
                 PROVE  /\ tab[t].open /\ tab[t].cursor \in 0..Len(log')
                        /\ \A k \in 1..tab[t].cursor : log'[k] \in tab[t].rga.ops
    BY <1>2 DEF Delivered
  <2>2. /\ tab[t].open /\ tab[t].cursor \in 0..Len(log)
        /\ \A k \in 1..tab[t].cursor : log[k] \in tab[t].rga.ops
    BY <2>1 DEF Delivered
  <2>3. Len(log) \in Nat /\ Len(log') \in Nat
    BY <1>3, <1>5
  <2>4. \A k \in 1..tab[t].cursor : k \in 1..Len(log)
    BY <2>2, <2>3
  <2> QED
    BY <1>5, <2>2, <2>3, <2>4
<1>11. NothingLost'
  BY <1>2, <1>5, <1>8 DEF NothingLost
<1> QED
  BY <1>6, <1>7, <1>9, <1>10, <1>11

LEMMA CollabStep == CollabInv /\ [CollabNext]_collabVars => CollabInv'
<1>1. SUFFICES ASSUME CollabInv, [CollabNext]_collabVars PROVE CollabInv'
  OBVIOUS
<1>2. CASE \E t \in Tabs : OpenDoc(t) \/ CloseDoc(t) \/ OnEdit(t) \/ OnEvent(t) \/ StreamError(t)
  BY <1>1, <1>2, OpenWoven, CloseWoven, EditWoven, EventWoven, ErrorWoven
<1>3. CASE PostOps \/ LosePost \/ RestartServer
  BY <1>1, <1>3, PostWoven, LossWoven, RestartWoven
<1>4. CASE UNCHANGED collabVars
  BY <1>1, <1>4 DEF CollabInv, PagesTyped, OwnNames, AllReflect, AllSound, AllOps, Paged, Posted,
     Issued, Delivered, NothingLost, collabVars
<1> QED
  BY <1>1, <1>2, <1>3, <1>4 DEF CollabNext

-----------------------------------------------------------------------------
(* What it says of what is shown.                                          *)

LEMMA ReplicasAre ==
  ASSUME CollabInv, NEW r \in Replicas
  PROVE  Reflects(r) /\ r.ops \subseteq AllOps
BY PartsOfAll DEF CollabInv, Replicas, AllReflect

LEMMA OneOrder == CollabInv => OrderIsStable
<1>1. SUFFICES ASSUME CollabInv, NEW r \in Replicas, NEW s \in Replicas,
                      NEW i \in DOMAIN VisibleIds(r), NEW j \in DOMAIN VisibleIds(r),
                      NEW k \in DOMAIN VisibleIds(s), NEW l \in DOMAIN VisibleIds(s),
                      VisibleIds(r)[i] = VisibleIds(s)[k], VisibleIds(r)[j] = VisibleIds(s)[l]
               PROVE  i < j <=> k < l
  BY DEF OrderIsStable
<1> DEFINE u == VisibleIds(r)
<1> DEFINE v == VisibleIds(s)
<1> DEFINE A == AllOps
<1>2. Sound(A)
  BY <1>1 DEF CollabInv, AllSound
<1>3. InRow(A, Known(r), u) /\ InRow(A, Known(s), v)
  <2>1. Reflects(r) /\ r.ops \subseteq A /\ Reflects(s) /\ s.ops \subseteq A
    BY <1>1, ReplicasAre
  <2> QED
    BY <1>2, <2>1, ShownInOrder
<1>4. Known(r) \subseteq Places
  <2>1. Reflects(r)
    BY <1>1, ReplicasAre
  <2> QED
    BY <2>1, OpsAre DEF Reflects, IdsOf, Ins, Places
<1> HIDE DEF u, v, A
<1>5. u \in Seq(Known(r)) /\ v \in Seq(Known(s))
  BY <1>3 DEF InRow
<1>6. i \in 1..Len(u) /\ j \in 1..Len(u) /\ k \in 1..Len(v) /\ l \in 1..Len(v)
        /\ u[i] = v[k] /\ u[j] = v[l]
  <2>1. i \in DOMAIN u /\ j \in DOMAIN u /\ k \in DOMAIN v /\ l \in DOMAIN v
          /\ u[i] = v[k] /\ u[j] = v[l]
    BY <1>1 DEF u, v
  <2> QED
    BY <1>5, <2>1
<1>7. u[i] \in Places /\ u[j] \in Places
  BY <1>4, <1>5, <1>6
<1>8. Len(u) \in Nat /\ Len(v) \in Nat
  BY <1>5
<1>9. /\ i < j => Precedes(A, u[i], u[j])
      /\ j < i => Precedes(A, u[j], u[i])
      /\ k < l => Precedes(A, u[i], u[j])
      /\ l < k => Precedes(A, u[j], u[i])
  BY <1>3, <1>6 DEF InRow
<1>10. ~(Precedes(A, u[i], u[j]) /\ Precedes(A, u[j], u[i]))
  BY <1>2, <1>7, BeforeIsOrder
<1>11. (i = j \/ k = l) => ~Precedes(A, u[i], u[j])
  <2>1. (i = j \/ k = l) => u[i] = u[j]
    BY <1>6
  <2> QED
    BY <1>2, <1>7, <2>1, BeforeIsOrder
<1> QED
  BY <1>6, <1>8, <1>9, <1>10, <1>11

LEMMA AllDelivered == CollabInv => CaughtUp
<1>1. SUFFICES ASSUME CollabInv, faults = {}, posts = {}, NEW t \in Tabs,
                      tab[t].live, tab[t].cursor = Len(log)
               PROVE  tab[t].rga = server
  BY DEF CaughtUp
<1>2. Posted = {}
  BY <1>1 DEF Posted
<1>3. tab[t].rga.ops \subseteq server.ops
  BY <1>1, <1>2 DEF CollabInv, NothingLost
<1>4. server.ops \subseteq tab[t].rga.ops
  <2>1. log \in Seq(Ops) /\ ToSet(log) = server.ops
    BY <1>1 DEF CollabInv, PagesTyped, AllReflect
  <2>2. \A k \in 1..Len(log) : log[k] \in tab[t].rga.ops
    BY <1>1 DEF CollabInv, Delivered
  <2> QED
    BY <2>1, <2>2 DEF ToSet
<1> DEFINE r == tab[t].rga
<1>5. Reflects(r) /\ Reflects(server) /\ r.ops = server.ops
  BY <1>1, <1>3, <1>4 DEF CollabInv, AllReflect
<1> HIDE DEF r
<1>6. r = server
  BY <1>5, ReplicasAgree
<1> QED
  BY <1>6 DEF r

\* Whatever was lost, doubled or late, and wherever the server restarted: what
\* two replicas both show stands in the same order, the same operations give the
\* same text (rga.ts:3-5), and while nothing is lost a live page that has its
\* stream's log has the session's document (session.ts).
THEOREM ReplicasConverge == CollabSpec => []Converges
<1>1. CollabInit => CollabInv
  BY InitWoven
<1>2. CollabInv /\ [CollabNext]_collabVars => CollabInv'
  BY CollabStep
<1>3. CollabInv => Converges
  <2>1. SUFFICES ASSUME CollabInv, NEW r \in Replicas, NEW s \in Replicas, r.ops = s.ops
                 PROVE  TextOf(r) = TextOf(s)
    BY OneOrder, AllDelivered DEF Converges
  <2>2. r = s
    BY <2>1, ReplicasAre, ReplicasAgree
  <2> QED
    BY <2>2
<1> QED
  BY <1>1, <1>2, <1>3, PTL DEF CollabSpec

-----------------------------------------------------------------------------
(* The agent.                                                              *)

USE AgentAssumption

Travels(p) == \E a \in answers : a.prompt = p
Holds(r, p) == agent[r].pc = "invoke" /\ agent[r].by = p
Used(p) == \E i \in invoked : i.by = p

\* The one place of a prompt.
OnePlace(p) ==
  /\ p \in shown => ~Travels(p) /\ ~Used(p) /\ \A r \in AgentRuns : ~Holds(r, p)
  /\ Travels(p) => ~Used(p) /\ \A r \in AgentRuns : ~Holds(r, p)
  /\ \A r \in AgentRuns : Holds(r, p) => ~Used(p)
  /\ \A a, b \in answers : a.prompt = p /\ b.prompt = p => a = b
  /\ \A r, q \in AgentRuns : Holds(r, p) /\ Holds(q, p) => r = q
  /\ \A i, j \in invoked : i.by = p /\ j.by = p => i = j

\* A prompt that a run has not come to yet is in no place.
NotYet(p) ==
  p \notin shown /\ ~Travels(p) /\ ~Used(p) /\ \A r \in AgentRuns : ~Holds(r, p)

ToCome(r, n) ==
  agent[r].step < n \/ (agent[r].step = n /\ agent[r].pc \in {"idle", "decide"})

\* What let the call of a run or an invocation through.
Granted(run, tool, by) ==
  /\ Risk[tool] # "high_write"
  /\ Risk[tool] = "low_write" => IF run \in Background THEN tool \in AllowTools ELSE by # Nobody

RunOK(r) ==
  /\ agent[r].pc # "over" => agent[r].step \in 1..MaxSteps
  /\ agent[r].pc \in {"idle", "decide", "wait"} => agent[r].by = Nobody
  /\ agent[r].pc = "audit" => agent[r].verdict \in Verdicts
  /\ agent[r].pc = "wait" => r \in Streams /\ agent[r].tool \in Tools
                             /\ Risk[agent[r].tool] = "low_write"
  /\ agent[r].pc = "invoke" => agent[r].tool \in Tools
                               /\ Granted(r, agent[r].tool, agent[r].by)

GrantInv ==
  /\ AgentTypeOK
  /\ MailboxIsLive
  /\ \A r \in AgentRuns : RunOK(r)
  /\ \A i \in invoked : Granted(i.run, i.tool, i.by)
  /\ \A p \in Prompts : OnePlace(p)
  /\ \A r \in AgentRuns, n \in 1..MaxSteps : ToCome(r, n) => NotYet(<<r, n>>)

LEMMA NobodyIsNoPrompt == Nobody \notin Prompts
  BY DEF Nobody, Prompts

LEMMA GrantsImply == GrantInv => WritesAreGranted
<1> SUFFICES ASSUME GrantInv PROVE WritesAreGranted
  OBVIOUS
<1>1. ASSUME NEW i \in invoked
      PROVE  /\ Risk[i.tool] # "high_write"
             /\ Risk[i.tool] = "low_write" =>
                  IF i.run \in Background THEN i.tool \in AllowTools
                  ELSE i.by # Nobody /\ \A j \in invoked : j.by = i.by => j = i
  <2>1. Granted(i.run, i.tool, i.by) /\ i.by \in Prompts \cup {Nobody}
    BY DEF GrantInv, AgentTypeOK, Invocations
  <2>2. i.by \in Prompts => \A j \in invoked : j.by = i.by => j = i
    BY DEF GrantInv, OnePlace
  <2> QED
    BY <2>1, <2>2 DEF Granted
<1> QED
  BY <1>1 DEF GrantInv, WritesAreGranted

-----------------------------------------------------------------------------
\* A step that concerns run r alone and neither shows, sends nor uses a
\* prompt: r goes on without a grant, or with none that it did not have.
LEMMA RunMoves ==
  ASSUME GrantInv, AgentTypeOK', NEW r \in AgentRuns,
         UNCHANGED <<shown, answers, invoked>>,
         \A q \in AgentRuns \ {r} : agent'[q] = agent[q],
         agent'[r].pc = "invoke" => agent'[r].by = Nobody,
         \A n \in 1..MaxSteps : ToCome(r, n)' => ToCome(r, n),
         RunOK(r)', MailboxIsLive'
  PROVE  GrantInv'
<1>1. \A q \in AgentRuns : RunOK(q)'
  BY DEF GrantInv, RunOK, Granted
<1>2. ASSUME NEW p \in Prompts
      PROVE  \A q \in AgentRuns : Holds(q, p)' => Holds(q, p)
  BY NobodyIsNoPrompt DEF Holds
<1>3. \A p \in Prompts : OnePlace(p)'
  BY <1>2 DEF GrantInv, OnePlace, Travels, Used
<1>4. ASSUME NEW q \in AgentRuns, NEW n \in 1..MaxSteps, ToCome(q, n)'
      PROVE  NotYet(<<q, n>>)'
  <2>1. ToCome(q, n) /\ <<q, n>> \in Prompts
    BY <1>4 DEF ToCome, Prompts
  <2> QED
    BY <1>2, <2>1 DEF GrantInv, NotYet, Travels, Used
<1>5. \A i \in invoked' : Granted(i.run, i.tool, i.by)'
  BY DEF GrantInv, Granted
<1> QED
  BY <1>1, <1>3, <1>4, <1>5 DEF GrantInv

\* The types of what a run becomes.
LEMMA RunTypes ==
  ASSUME GrantInv, NEW r \in AgentRuns
  PROVE  /\ agent \in [AgentRuns -> AgentRun] /\ agent[r] \in AgentRun /\ RunOK(r)
         /\ agent[r].pc # "over" => Onward(r) \in AgentRun
         /\ Onward(r).by = Nobody /\ Onward(r).step = agent[r].step + 1
         /\ Onward(r).pc = IF agent[r].step < MaxSteps THEN "decide" ELSE "over"
<1>1. agent \in [AgentRuns -> AgentRun] /\ agent[r] \in AgentRun /\ RunOK(r)
  BY DEF GrantInv, AgentTypeOK
<1> DEFINE pc == IF agent[r].step < MaxSteps THEN "decide" ELSE "over"
<1>2. agent[r].step \in Nat
  BY <1>1 DEF AgentRun
<1>3. /\ NewRun \in [pc : AgentPcs, step : Nat, tool : Tools \cup {"none"}, by : Prompts \cup {Nobody},
                       verdict : Verdicts \cup {"none"}]
      /\ NewRun.by = Nobody
  BY DEF NewRun, AgentPcs
<1>4. agent[r].pc # "over" => agent[r].step + 1 \in 1..(MaxSteps + 1)
  BY <1>1, <1>2 DEF RunOK
<1>5. pc \in AgentPcs
  BY DEF AgentPcs
<1>6. agent[r].pc # "over" => Onward(r) \in AgentRun
  BY <1>3, <1>4, <1>5 DEF Onward, AgentRun
<1>7. Onward(r).by = Nobody /\ Onward(r).step = agent[r].step + 1 /\ Onward(r).pc = pc
  BY <1>3 DEF Onward
<1> QED
  BY <1>1, <1>6, <1>7

LEMMA LoopKeepsGrants ==
  ASSUME GrantInv, NEW r \in AgentRuns,
         \/ AgentOpen(r) \/ AgentTalk(r) \/ AgentFinish(r) \/ RecordAudit(r)
         \/ \E t \in Tools : AgentAllowed(r, t) \/ AgentDenied(r, t) \/ AgentLookup(r, t)
  PROVE  GrantInv'
<1>1. /\ agent \in [AgentRuns -> AgentRun] /\ agent[r] \in AgentRun /\ RunOK(r)
      /\ agent[r].pc # "over" => Onward(r) \in AgentRun
      /\ Onward(r).by = Nobody /\ Onward(r).step = agent[r].step + 1
      /\ Onward(r).pc = IF agent[r].step < MaxSteps THEN "decide" ELSE "over"
      /\ agent[r].step \in Nat
  BY RunTypes DEF AgentRun
<1>2. UNCHANGED <<mailbox, shown, answers, invoked>>
  BY DEF AgentOpen, AgentTalk, AgentFinish, RecordAudit, AgentAllowed, AgentDenied, AgentLookup
<1>3. ASSUME agent' \in [AgentRuns -> AgentRun], audit' \in [AgentRuns -> Seq((1..MaxSteps) \X Verdicts)],
             \A q \in AgentRuns \ {r} : agent'[q] = agent[q],
             agent[r].pc # "wait", RunOK(r)',
             agent'[r].pc = "invoke" => agent'[r].by = Nobody,
             agent'[r].step = agent[r].step \/ agent'[r].step = agent[r].step + 1,
             agent'[r].step = agent[r].step /\ agent'[r].pc \in {"idle", "decide"}
               => agent[r].pc \in {"idle", "decide"}
      PROVE  GrantInv'
  <2>1. AgentTypeOK'
    BY <1>2, <1>3 DEF GrantInv, AgentTypeOK
  <2>2. MailboxIsLive'
    BY <1>2, <1>3 DEF GrantInv, AgentTypeOK, MailboxIsLive, AgentRuns
  <2>3. \A n \in 1..MaxSteps : ToCome(r, n)' => ToCome(r, n)
    BY <1>1, <1>3 DEF ToCome
  <2> QED
    BY <1>2, <1>3, <2>1, <2>2, <2>3, RunMoves
<1>4. CASE AgentOpen(r)
  <2>1. /\ agent' \in [AgentRuns -> AgentRun] /\ UNCHANGED audit
        /\ agent[r].pc = "idle" /\ agent'[r] = [agent[r] EXCEPT !.pc = "decide"]
        /\ \A q \in AgentRuns \ {r} : agent'[q] = agent[q]
    BY <1>1, <1>4 DEF AgentOpen, AgentRun, AgentPcs
  <2>2. agent'[r].pc = "decide" /\ agent'[r].step = agent[r].step /\ agent'[r].by = agent[r].by
    BY <1>1, <2>1 DEF AgentRun
  <2>3. RunOK(r)'
    BY <1>1, <2>1, <2>2 DEF RunOK
  <2>4. audit' \in [AgentRuns -> Seq((1..MaxSteps) \X Verdicts)]
    BY <2>1 DEF GrantInv, AgentTypeOK
  <2> QED
    BY <1>3, <2>1, <2>2, <2>3, <2>4
<1>5. CASE AgentFinish(r)
  <2>1. /\ agent' \in [AgentRuns -> AgentRun] /\ UNCHANGED audit
        /\ agent[r].pc \in {"decide", "audit"} /\ agent'[r] = [agent[r] EXCEPT !.pc = "over"]
        /\ \A q \in AgentRuns \ {r} : agent'[q] = agent[q]
    BY <1>1, <1>5 DEF AgentFinish, AgentRun, AgentPcs
  <2>2. agent'[r].pc = "over" /\ agent'[r].step = agent[r].step
    BY <1>1, <2>1 DEF AgentRun
  <2>3. RunOK(r)'
    BY <1>1, <2>1, <2>2 DEF RunOK
  <2>4. audit' \in [AgentRuns -> Seq((1..MaxSteps) \X Verdicts)]
    BY <2>1 DEF GrantInv, AgentTypeOK
  <2> QED
    BY <1>3, <2>1, <2>2, <2>3, <2>4
<1>6. CASE AgentTalk(r) \/ RecordAudit(r)
  <2>1. /\ agent[r].pc \in {"decide", "audit"} /\ agent' = [agent EXCEPT ![r] = Onward(r)]
        /\ agent[r].step \in 1..MaxSteps
    BY <1>1, <1>6 DEF AgentTalk, RecordAudit, RunOK
  <2>2. agent' \in [AgentRuns -> AgentRun] /\ agent'[r] = Onward(r)
        /\ \A q \in AgentRuns \ {r} : agent'[q] = agent[q]
    BY <1>1, <2>1
  <2>3. RunOK(r)'
    BY <1>1, <2>1, <2>2 DEF RunOK
  <2>4. audit' \in [AgentRuns -> Seq((1..MaxSteps) \X Verdicts)]
    <3>1. CASE AgentTalk(r)
      BY <3>1 DEF AgentTalk, GrantInv, AgentTypeOK
    <3>2. CASE RecordAudit(r)
      <4>1. agent[r].verdict \in Verdicts
        BY <1>1, <2>1, <3>2 DEF RunOK, RecordAudit
      <4>2. <<agent[r].step, agent[r].verdict>> \in (1..MaxSteps) \X Verdicts
        BY <2>1, <4>1
      <4>3. Append(audit[r], <<agent[r].step, agent[r].verdict>>)
              \in Seq((1..MaxSteps) \X Verdicts)
        BY <4>2 DEF GrantInv, AgentTypeOK
      <4> QED
        BY <3>2, <4>3 DEF RecordAudit, GrantInv, AgentTypeOK
    <3> QED
      BY <1>6, <3>1, <3>2
  <2> QED
    BY <1>1, <1>3, <2>1, <2>2, <2>3, <2>4
<1>7. ASSUME NEW t \in Tools, AgentAllowed(r, t) \/ AgentDenied(r, t) \/ AgentLookup(r, t)
      PROVE  GrantInv'
  <2>1. PICK next \in {"invoke", "audit"} :
          /\ Choose(r, t, next)
          /\ next = "invoke" => Granted(r, t, Nobody)
    BY <1>7 DEF AgentAllowed, AgentDenied, AgentLookup, Granted
  <2>2. /\ agent' \in [AgentRuns -> AgentRun] /\ UNCHANGED audit /\ agent[r].pc = "decide"
        /\ \A q \in AgentRuns \ {r} : agent'[q] = agent[q]
    BY <1>1, <1>7, <2>1 DEF AgentAllowed, AgentDenied, AgentLookup, Choose, AgentRun, AgentPcs,
       Verdicts
  <2>3. /\ agent'[r].pc = next /\ agent'[r].tool = t /\ agent'[r].step = agent[r].step
        /\ agent'[r].by = agent[r].by /\ agent'[r].verdict = IF next = "audit" THEN "denied" ELSE "none"
    BY <1>1, <2>1 DEF Choose, AgentRun
  <2>4. RunOK(r)'
    BY <1>1, <2>1, <2>2, <2>3 DEF RunOK, Granted, Verdicts
  <2>5. audit' \in [AgentRuns -> Seq((1..MaxSteps) \X Verdicts)]
    BY <2>2 DEF GrantInv, AgentTypeOK
  <2> QED
    BY <1>1, <1>3, <2>2, <2>3, <2>4, <2>5 DEF RunOK
<1> QED
  BY <1>4, <1>5, <1>6, <1>7

LEMMA TimerKeepsGrants ==
  ASSUME GrantInv, NEW r \in Streams, Timer(r)
  PROVE  GrantInv'
<1> r \in AgentRuns
  BY DEF AgentRuns
<1>1. /\ agent \in [AgentRuns -> AgentRun] /\ agent[r] \in AgentRun /\ RunOK(r)
      /\ agent[r].step \in Nat
  BY RunTypes DEF AgentRun
<1>2. /\ agent' \in [AgentRuns -> AgentRun] /\ mailbox' = NoRun
      /\ UNCHANGED <<shown, answers, invoked, audit>>
      /\ \A q \in AgentRuns \ {r} : agent'[q] = agent[q]
  BY <1>1 DEF Timer, AgentRun, AgentPcs, Verdicts
<1>3. /\ agent[r].pc = "wait" /\ agent'[r].pc = "audit" /\ agent'[r].verdict = "denied"
      /\ agent'[r].step = agent[r].step
  BY <1>1 DEF Timer, AgentRun
<1>4. RunOK(r)'
  BY <1>1, <1>3 DEF RunOK, Verdicts
<1>5. AgentTypeOK'
  BY <1>2 DEF GrantInv, AgentTypeOK
<1>6. MailboxIsLive' /\ \A n \in 1..MaxSteps : ToCome(r, n)' => ToCome(r, n)
  BY <1>2, <1>3 DEF MailboxIsLive, ToCome
<1> QED
  BY <1>1, <1>2, <1>3, <1>4, <1>5, <1>6, RunMoves

\* The prompt of the current step is shown; its run has come to it only now.
LEMMA AskKeepsGrants ==
  ASSUME GrantInv, NEW r \in AgentRuns, NEW t \in Tools, AgentAsk(r, t)
  PROVE  GrantInv'
<1> DEFINE p0 == <<r, agent[r].step>>
<1>1. /\ agent \in [AgentRuns -> AgentRun] /\ agent[r] \in AgentRun /\ RunOK(r)
      /\ r \in Streams /\ Risk[t] = "low_write" /\ agent[r].pc = "decide"
      /\ agent[r].step \in 1..MaxSteps /\ agent[r].by = Nobody /\ agent[r].step \in Nat
  BY RunTypes DEF AgentAsk, Choose, RunOK
<1>2. /\ agent' \in [AgentRuns -> AgentRun] /\ mailbox' = r /\ shown' = shown \cup {p0}
      /\ UNCHANGED <<answers, invoked, audit>>
      /\ \A q \in AgentRuns \ {r} : agent'[q] = agent[q]
  BY <1>1 DEF AgentAsk, Choose, AgentRun, AgentPcs
<1>3. /\ agent'[r].pc = "wait" /\ agent'[r].tool = t /\ agent'[r].step = agent[r].step
      /\ agent'[r].by = Nobody
  BY <1>1 DEF AgentAsk, Choose, AgentRun
<1>4. p0 \in Prompts /\ NotYet(p0)
  BY <1>1 DEF GrantInv, ToCome, Prompts
<1> HIDE DEF p0
<1>5. AgentTypeOK' /\ MailboxIsLive'
  BY <1>1, <1>2, <1>3, <1>4 DEF GrantInv, AgentTypeOK, MailboxIsLive
<1>6. ASSUME NEW q \in AgentRuns
      PROVE  RunOK(q)'
  <2>1. CASE q = r
    BY <1>1, <1>3, <2>1 DEF RunOK
  <2>2. CASE q # r
    BY <1>2, <2>2 DEF GrantInv, RunOK, Granted
  <2> QED
    BY <2>1, <2>2
<1>7. \A q \in AgentRuns, p \in Prompts : Holds(q, p)' => Holds(q, p)
  BY <1>2, <1>3 DEF Holds
<1>8. \A p \in Prompts : OnePlace(p)'
  BY <1>2, <1>4, <1>7 DEF GrantInv, OnePlace, NotYet, Travels, Used
<1>9. ASSUME NEW q \in AgentRuns, NEW n \in 1..MaxSteps, ToCome(q, n)'
      PROVE  NotYet(<<q, n>>)'
  <2>1. ToCome(q, n) /\ <<q, n>> \in Prompts /\ <<q, n>> # p0
    BY <1>1, <1>2, <1>3, <1>9 DEF ToCome, Prompts, p0
  <2> QED
    BY <1>2, <1>7, <2>1 DEF GrantInv, NotYet, Travels, Used
<1> QED
  BY <1>2, <1>5, <1>6, <1>8, <1>9 DEF GrantInv, Granted

\* The prompt leaves the screen and travels.
LEMMA AnswerKeepsGrants ==
  ASSUME GrantInv, NEW r \in Streams, NEW approved \in BOOLEAN, Answer(r, approved)
  PROVE  GrantInv'
<1> DEFINE p0 == <<r, agent[r].step>>
           a0 == [prompt |-> p0, approved |-> approved]
<1>1. /\ p0 \in shown /\ shown' = shown \ {p0} /\ answers' = answers \cup {a0}
      /\ UNCHANGED <<agent, mailbox, invoked, audit>> /\ a0.prompt = p0
  BY DEF Answer
<1>2. p0 \in Prompts /\ a0 \in [prompt : Prompts, approved : BOOLEAN]
  BY <1>1 DEF GrantInv, AgentTypeOK
<1> HIDE DEF p0, a0
<1>3. AgentTypeOK' /\ MailboxIsLive' /\ \A q \in AgentRuns : RunOK(q)'
  BY <1>1, <1>2 DEF GrantInv, AgentTypeOK, MailboxIsLive, RunOK, Granted
<1>4. \A p \in Prompts \ {p0} : Travels(p)' <=> Travels(p)
  BY <1>1 DEF Travels
<1>5. \A p \in Prompts : /\ Used(p)' <=> Used(p)
                         /\ \A q \in AgentRuns : Holds(q, p)' <=> Holds(q, p)
  BY <1>1 DEF Used, Holds
<1>6. ~Travels(p0) /\ ~Used(p0) /\ \A q \in AgentRuns : ~Holds(q, p0)
  BY <1>1, <1>2 DEF GrantInv, OnePlace
<1>7. ASSUME NEW p \in Prompts
      PROVE  OnePlace(p)'
  <2>1. CASE p = p0
    BY <1>1, <1>5, <1>6, <2>1 DEF GrantInv, OnePlace, Travels
  <2>2. CASE p # p0
    BY <1>1, <1>4, <1>5, <2>2 DEF GrantInv, OnePlace
  <2> QED
    BY <2>1, <2>2
<1>8. ASSUME NEW q \in AgentRuns, NEW n \in 1..MaxSteps, ToCome(q, n)'
      PROVE  NotYet(<<q, n>>)'
  <2>1. NotYet(<<q, n>>) /\ <<q, n>> \in Prompts
    BY <1>1, <1>8 DEF GrantInv, ToCome, Prompts
  <2>2. <<q, n>> # p0
    BY <1>1, <2>1 DEF NotYet
  <2> QED
    BY <1>1, <1>4, <1>5, <2>1, <2>2 DEF NotYet
<1> QED
  BY <1>1, <1>3, <1>7, <1>8 DEF GrantInv, Granted

\* The answer is used up: by the run that the mailbox holds, or by nobody.
LEMMA ConfirmKeepsGrants ==
  ASSUME GrantInv, NEW a \in answers, ConfirmArrives(a)
  PROVE  GrantInv'
<1> DEFINE p0 == a.prompt
<1>1. /\ answers' = answers \ {a} /\ mailbox' = NoRun /\ UNCHANGED <<shown, invoked, audit>>
      /\ p0 \in Prompts /\ Travels(p0) /\ agent \in [AgentRuns -> AgentRun]
  BY DEF ConfirmArrives, GrantInv, AgentTypeOK, Travels
<1>2. MailboxIsLive'
  BY <1>1 DEF MailboxIsLive
<1>3. ~Used(p0) /\ p0 \notin shown /\ \A q \in AgentRuns : ~Holds(q, p0)
  BY <1>1 DEF GrantInv, OnePlace
<1>4. \A b \in answers' : b.prompt # p0
  BY <1>1 DEF GrantInv, OnePlace
<1>5. /\ \A p \in Prompts : Used(p)' <=> Used(p)
      /\ \A p \in Prompts : Travels(p)' => Travels(p) /\ p # p0
  BY <1>1, <1>4 DEF Used, Travels
<1>6. ASSUME agent' \in [AgentRuns -> AgentRun], \A q \in AgentRuns : RunOK(q)',
             \A q \in AgentRuns, p \in Prompts :
               Holds(q, p)' => Holds(q, p) \/ (q = mailbox /\ p = p0),
             \A q \in AgentRuns, n \in 1..MaxSteps : ToCome(q, n)' => ToCome(q, n)
      PROVE  GrantInv'
  <2>1. AgentTypeOK'
    BY <1>1, <1>6 DEF GrantInv, AgentTypeOK
  <2>2. \A p \in Prompts : OnePlace(p)'
    BY <1>1, <1>3, <1>5, <1>6 DEF GrantInv, OnePlace
  <2>3. ASSUME NEW q \in AgentRuns, NEW n \in 1..MaxSteps, ToCome(q, n)'
        PROVE  NotYet(<<q, n>>)'
    <3>1. NotYet(<<q, n>>) /\ <<q, n>> \in Prompts
      BY <1>6, <2>3 DEF GrantInv, Prompts
    <3> QED
      BY <1>1, <1>5, <1>6, <3>1 DEF NotYet
  <2> QED
    BY <1>1, <1>2, <1>6, <2>1, <2>2, <2>3 DEF GrantInv, Granted
<1>7. CASE mailbox = NoRun
  BY <1>6, <1>7 DEF ConfirmArrives, GrantInv, AgentTypeOK, RunOK, Granted, Holds, ToCome
<1>8. ASSUME NEW r \in Streams, mailbox = r
      PROVE  GrantInv'
  <2>1. r # NoRun /\ r \in AgentRuns /\ agent[r].pc = "wait" /\ agent[r] \in AgentRun /\ RunOK(r)
    BY <1>8 DEF GrantInv, AgentTypeOK, MailboxIsLive, AgentRuns
  <2>2. /\ agent' \in [AgentRuns -> AgentRun]
        /\ \A q \in AgentRuns \ {r} : agent'[q] = agent[q]
    BY <1>1, <1>8, <2>1 DEF ConfirmArrives, AgentRun, AgentPcs, Verdicts
  <2>3. /\ agent'[r].pc = IF a.approved THEN "invoke" ELSE "audit"
        /\ agent'[r].by = IF a.approved THEN p0 ELSE Nobody
        /\ agent'[r].verdict = IF a.approved THEN "none" ELSE "denied"
        /\ agent'[r].step = agent[r].step /\ agent'[r].tool = agent[r].tool
    BY <1>1, <1>8, <2>1 DEF ConfirmArrives, AgentRun
  <2> HIDE DEF p0
  <2>4. RunOK(r)'
    BY <1>1, <2>1, <2>3, NobodyIsNoPrompt DEF RunOK, Granted, Verdicts
  <2>5. \A q \in AgentRuns \ {r} : RunOK(q)'
    BY <2>2 DEF GrantInv, RunOK, Granted
  <2>6. \A q \in AgentRuns, p \in Prompts : Holds(q, p)' => Holds(q, p) \/ (q = r /\ p = p0)
    BY <2>2, <2>3, NobodyIsNoPrompt DEF Holds
  <2>7. \A q \in AgentRuns, n \in 1..MaxSteps : ToCome(q, n)' => ToCome(q, n)
    BY <2>1, <2>2, <2>3 DEF ToCome
  <2> QED
    BY <1>6, <1>8, <2>2, <2>4, <2>5, <2>6, <2>7
<1> QED
  BY <1>7, <1>8 DEF GrantInv, AgentTypeOK

\* The grant goes from the run into the call it makes.
LEMMA InvokeKeepsGrants ==
  ASSUME GrantInv, NEW r \in AgentRuns, InvokeThrows(r) \/ \E ok \in BOOLEAN : Invoke(r, ok)
  PROVE  GrantInv'
<1> DEFINE i0 == ThisCall(r)
<1>1. /\ agent \in [AgentRuns -> AgentRun] /\ agent[r] \in AgentRun /\ RunOK(r)
      /\ agent[r].pc = "invoke" /\ agent[r].step \in 1..MaxSteps /\ agent[r].step \in Nat
  BY RunTypes DEF InvokeThrows, Invoke, RunOK
<1>2. /\ agent' \in [AgentRuns -> AgentRun] /\ invoked' = invoked \cup {i0}
      /\ UNCHANGED <<mailbox, shown, answers, audit>>
      /\ \A q \in AgentRuns \ {r} : agent'[q] = agent[q]
  BY <1>1 DEF InvokeThrows, Invoke, AgentRun, AgentPcs, Verdicts
<1>3. /\ agent'[r].pc \in {"audit", "over"} /\ agent'[r].step = agent[r].step
      /\ agent'[r].pc = "audit" => agent'[r].verdict \in Verdicts
  BY <1>1 DEF InvokeThrows, Invoke, AgentRun, Verdicts
<1>4. /\ i0 \in Invocations /\ Granted(i0.run, i0.tool, i0.by) /\ i0.by = agent[r].by
  BY <1>1 DEF ThisCall, Invocations, RunOK, AgentRun
<1> HIDE DEF i0
<1>5. AgentTypeOK'
  BY <1>2, <1>4 DEF GrantInv, AgentTypeOK
<1>6. MailboxIsLive'
  BY <1>1, <1>2 DEF GrantInv, AgentTypeOK, MailboxIsLive, AgentRuns
<1>7. RunOK(r)' /\ \A q \in AgentRuns \ {r} : RunOK(q)'
  BY <1>1, <1>2, <1>3 DEF GrantInv, RunOK, Granted
<1>8. /\ \A q \in AgentRuns, p \in Prompts : Holds(q, p)' => Holds(q, p) /\ q # r
      /\ \A p \in Prompts : Used(p)' => Used(p) \/ Holds(r, p)
      /\ \A p \in Prompts : Travels(p)' <=> Travels(p)
  BY <1>1, <1>2, <1>3, <1>4 DEF Holds, Used, Travels
<1>9. \A i \in invoked' : i \in invoked \/ (i = i0 /\ i.by = agent[r].by)
  BY <1>2, <1>4
<1>10. ASSUME NEW p \in Prompts
       PROVE  OnePlace(p)'
  <2>1. CASE Holds(r, p)
    BY <1>1, <1>2, <1>8, <1>9, <2>1 DEF GrantInv, OnePlace, Used
  <2>2. CASE ~Holds(r, p)
    <3>1. i0.by # p
      BY <1>1, <1>4, <2>2 DEF Holds
    <3> QED
      BY <1>2, <1>8, <1>9, <2>2, <3>1 DEF GrantInv, OnePlace
  <2> QED
    BY <2>1, <2>2
<1>11. ASSUME NEW q \in AgentRuns, NEW n \in 1..MaxSteps, ToCome(q, n)'
       PROVE  NotYet(<<q, n>>)'
  <2>1. NotYet(<<q, n>>) /\ <<q, n>> \in Prompts
    <3>1. ToCome(q, n)
      BY <1>2, <1>3, <1>11 DEF ToCome
    <3> QED
      BY <3>1 DEF GrantInv, Prompts
  <2> QED
    BY <1>2, <1>8, <2>1 DEF NotYet
<1>12. \A i \in invoked' : Granted(i.run, i.tool, i.by)'
  BY <1>2, <1>4 DEF GrantInv, Granted
<1> QED
  BY <1>5, <1>6, <1>7, <1>10, <1>11, <1>12 DEF GrantInv

LEMMA GrantInitEstablishes == AgentInit => GrantInv
<1> SUFFICES ASSUME AgentInit PROVE GrantInv
  OBVIOUS
<1>1. NewRun \in AgentRun /\ NewRun.pc = "idle" /\ NewRun.step = 1 /\ NewRun.by = Nobody
  BY DEF NewRun, AgentRun, AgentPcs
<1>2. AgentTypeOK /\ MailboxIsLive
  BY <1>1 DEF AgentInit, AgentTypeOK, MailboxIsLive
<1>3. \A r \in AgentRuns : RunOK(r)
  BY <1>1 DEF AgentInit, RunOK
<1>4. \A p \in Prompts : NotYet(p)
  BY <1>1 DEF AgentInit, NotYet, Travels, Used, Holds
<1>5. \A p \in Prompts : OnePlace(p)
  BY <1>4 DEF AgentInit, OnePlace, NotYet
<1>6. \A r \in AgentRuns, n \in 1..MaxSteps : <<r, n>> \in Prompts
  BY DEF Prompts
<1> QED
  BY <1>2, <1>3, <1>4, <1>5, <1>6 DEF GrantInv, AgentInit

LEMMA GrantNextPreserves == GrantInv /\ [AgentNext]_agentVars => GrantInv'
<1> SUFFICES ASSUME GrantInv, [AgentNext]_agentVars PROVE GrantInv'
  OBVIOUS
<1>1. CASE UNCHANGED agentVars
  BY <1>1 DEF agentVars, GrantInv, AgentTypeOK, MailboxIsLive, RunOK, Granted, OnePlace, NotYet,
     ToCome, Travels, Used, Holds
<1>2. ASSUME NEW r \in AgentRuns, AgentOpen(r) \/ AgentStep(r)
      PROVE  GrantInv'
  BY <1>2, LoopKeepsGrants, AskKeepsGrants, InvokeKeepsGrants DEF AgentStep
<1>3. ASSUME NEW r \in Streams, Timer(r) \/ \E approved \in BOOLEAN : Answer(r, approved)
      PROVE  GrantInv'
  BY <1>3, TimerKeepsGrants, AnswerKeepsGrants
<1>4. ASSUME NEW a \in answers, ConfirmArrives(a)
      PROVE  GrantInv'
  BY <1>4, ConfirmKeepsGrants
<1> QED
  BY <1>1, <1>2, <1>3, <1>4 DEF AgentNext, StreamsNext, BackgroundNext, AgentRuns

\* No tool declared high_write is invoked, and each low_write has a grant of its
\* own (orchestrator.ts of the agent, SafetyPolicy.decide, the confirm route).
THEOREM NoWriteWithoutGrant == AgentSpec => []WritesAreGranted
<1> QED
  BY GrantInitEstablishes, GrantNextPreserves, GrantsImply, PTL DEF AgentSpec

-----------------------------------------------------------------------------
(* The trail.  A row is written when its step is left, so rows and calls   *)
(* can be compared for every step that a run has left behind; for the      *)
(* current one, the verdict in hand says what the row will say.            *)

Called(r, n) == \E i \in invoked : i.run = r /\ i.step = n
Recorded(r, n) == \E k \in DOMAIN audit[r] : audit[r][k][1] = n /\ audit[r][k][2] # "denied"

TrailOK(r) ==
  /\ \A k \in DOMAIN audit[r] : audit[r][k][1] < agent[r].step
  /\ \A k, l \in DOMAIN audit[r] : audit[r][k][1] = audit[r][l][1] => k = l
  /\ \A i \in invoked : i.run = r =>
       \/ i.step < agent[r].step
       \/ i.step = agent[r].step /\ agent[r].pc \in {"audit", "over"}
  /\ \A n \in 1..MaxSteps : n < agent[r].step => (Called(r, n) <=> Recorded(r, n))
  /\ agent[r].pc = "audit" => (Called(r, agent[r].step) <=> agent[r].verdict # "denied")

TrailInv == GrantInv /\ \A r \in AgentRuns : TrailOK(r)

LEMMA TrailImplies == TrailInv => TrailIsTheHistory
  BY DEF TrailInv, TrailOK, TrailIsTheHistory, Called, Recorded

\* What a run does leaves the trail and the calls of the others alone.
LEMMA OwnTrailOnly ==
  ASSUME TrailInv, GrantInv', NEW r \in AgentRuns,
         \A q \in AgentRuns \ {r} : agent'[q] = agent[q] /\ audit'[q] = audit[q],
         invoked \subseteq invoked', \A i \in invoked' : i \in invoked \/ i.run = r,
         TrailOK(r)'
  PROVE  TrailInv'
<1>1. ASSUME NEW q \in AgentRuns \ {r}
      PROVE  TrailOK(q)'
  <2>1. TrailOK(q) /\ agent'[q] = agent[q] /\ audit'[q] = audit[q]
    BY DEF TrailInv
  <2>2. \A i \in invoked' : i.run = q => i \in invoked
    OBVIOUS
  <2>3. \A n : /\ Called(q, n)' <=> Called(q, n)
               /\ Recorded(q, n)' <=> Recorded(q, n)
    BY <2>1, <2>2 DEF Called, Recorded
  <2> QED
    BY <2>1, <2>2, <2>3 DEF TrailOK
<1> QED
  BY <1>1 DEF TrailInv

\* A run that has not called yet in this step, and goes on in it.
LEMMA SameStep ==
  ASSUME TrailInv, GrantInv', NEW r \in AgentRuns, UNCHANGED <<invoked, audit>>,
         \A q \in AgentRuns \ {r} : agent'[q] = agent[q],
         agent'[r].step = agent[r].step,
         \/ agent[r].pc \in {"idle", "decide", "wait"}
         \/ agent[r].pc = "audit" /\ agent'[r].pc = "over",
         agent'[r].pc = "audit" => agent'[r].verdict = "denied"
  PROVE  TrailInv'
<1>1. TrailOK(r)
  BY DEF TrailInv
<1>2. \A n : /\ Called(r, n)' <=> Called(r, n)
             /\ Recorded(r, n)' <=> Recorded(r, n)
  BY DEF Called, Recorded
<1>3. agent[r].step \in Nat
  BY RunTypes DEF TrailInv, AgentRun
<1>4. agent[r].pc \in {"idle", "decide", "wait"} => ~Called(r, agent[r].step)
  BY <1>1, <1>3 DEF TrailOK, Called
<1>5. TrailOK(r)'
  BY <1>1, <1>2, <1>4 DEF TrailOK
<1> QED
  BY <1>5, OwnTrailOnly

LEMMA InvokeKeepsTrail ==
  ASSUME TrailInv, GrantInv', NEW r \in AgentRuns,
         InvokeThrows(r) \/ \E ok \in BOOLEAN : Invoke(r, ok)
  PROVE  TrailInv'
<1> DEFINE i0 == ThisCall(r)
<1>1. /\ agent \in [AgentRuns -> AgentRun] /\ agent[r] \in AgentRun /\ TrailOK(r)
      /\ agent[r].step \in Nat
  BY RunTypes DEF TrailInv, AgentRun
<1>2. /\ invoked' = invoked \cup {i0} /\ UNCHANGED audit /\ agent[r].pc = "invoke"
      /\ \A q \in AgentRuns \ {r} : agent'[q] = agent[q]
  BY <1>1 DEF InvokeThrows, Invoke
<1>3. /\ agent'[r].pc \in {"audit", "over"} /\ agent'[r].step = agent[r].step
      /\ agent'[r].pc = "audit" => agent'[r].verdict # "denied"
  BY <1>1 DEF InvokeThrows, Invoke, AgentRun
<1>4. i0.run = r /\ i0.step = agent[r].step
  BY DEF ThisCall
<1> HIDE DEF i0
<1>5. Called(r, agent[r].step)'
  BY <1>2, <1>3, <1>4 DEF Called
<1>6. \A n \in 1..MaxSteps : n < agent[r].step => /\ Called(r, n)' <=> Called(r, n)
                                                  /\ Recorded(r, n)' <=> Recorded(r, n)
  BY <1>1, <1>2, <1>4 DEF Called, Recorded
<1>7. TrailOK(r)'
  BY <1>1, <1>2, <1>3, <1>4, <1>5, <1>6 DEF TrailOK
<1> QED
  BY <1>2, <1>4, <1>7, OwnTrailOnly

\* The row of the step that is left, if it gets one.
LEMMA OnwardKeepsTrail ==
  ASSUME TrailInv, GrantInv', NEW r \in AgentRuns, AgentTalk(r) \/ RecordAudit(r)
  PROVE  TrailInv'
<1>1. /\ agent \in [AgentRuns -> AgentRun] /\ TrailOK(r) /\ agent[r].step \in 1..MaxSteps
      /\ Onward(r).step = agent[r].step + 1 /\ Onward(r).pc \in {"decide", "over"}
      /\ audit \in [AgentRuns -> Seq((1..MaxSteps) \X Verdicts)]
  BY RunTypes DEF TrailInv, GrantInv, AgentTypeOK, AgentTalk, RecordAudit, RunOK
<1>2. PICK n0 \in 1..MaxSteps : n0 = agent[r].step
  BY <1>1
<1>3. /\ UNCHANGED invoked /\ agent'[r].step = n0 + 1 /\ agent'[r].pc \in {"decide", "over"}
      /\ \A q \in AgentRuns \ {r} : agent'[q] = agent[q] /\ audit'[q] = audit[q]
  BY <1>1, <1>2 DEF AgentTalk, RecordAudit
<1>4. /\ \A n : Called(r, n)' <=> Called(r, n)
      /\ n0 \in Nat /\ \A n \in 1..MaxSteps : n < n0 + 1 => n < n0 \/ n = n0
  BY <1>2, <1>3 DEF Called
<1> DEFINE len == Len(audit[r])
<1>5. /\ len \in Nat /\ DOMAIN audit[r] = 1..len /\ audit[r] \in Seq((1..MaxSteps) \X Verdicts)
      /\ \A k \in 1..len : audit[r][k] \in (1..MaxSteps) \X Verdicts
  BY <1>1
<1>6. \A k \in 1..len : audit[r][k][1] \in Nat /\ audit[r][k][1] < n0
  <2>1. \A k \in 1..len : audit[r][k][1] < n0
    BY <1>1, <1>2, <1>5 DEF TrailOK
  <2>2. \A k \in 1..len : audit[r][k][1] \in Nat
    BY <1>5
  <2> QED
    BY <2>1, <2>2
<1>7. /\ \A i \in invoked : i.run = r =>
           i.step < n0 \/ (i.step = n0 /\ agent[r].pc \in {"audit", "over"})
      /\ \A n \in 1..MaxSteps : n < n0 => (Called(r, n) <=> Recorded(r, n))
      /\ agent[r].pc = "audit" => (Called(r, n0) <=> agent[r].verdict # "denied")
  BY <1>1, <1>2 DEF TrailOK
<1>8. \A i \in invoked' : i.run = r => i.step < n0 + 1
  <2>1. \A i \in invoked : i.step \in Nat
    BY DEF TrailInv, GrantInv, AgentTypeOK, Invocations
  <2> QED
    BY <1>3, <1>4, <1>7, <2>1
<1> HIDE DEF len
<1>9. CASE AgentTalk(r)
  <2>1. audit'[r] = audit[r] /\ agent[r].pc = "decide"
    BY <1>9 DEF AgentTalk
  <2>2. \A n : Recorded(r, n)' <=> Recorded(r, n)
    BY <2>1 DEF Recorded
  <2>3. ~Called(r, n0) /\ ~Recorded(r, n0)
    BY <1>4, <1>5, <1>6, <1>7, <2>1 DEF Called, Recorded
  <2>4. \A n \in 1..MaxSteps : n < n0 + 1 => (Called(r, n)' <=> Recorded(r, n)')
    BY <1>4, <1>7, <2>2, <2>3
  <2>5. \A k \in DOMAIN audit'[r] : audit'[r][k][1] < n0 + 1
    BY <1>4, <1>5, <1>6, <2>1
  <2>6. \A k, l \in DOMAIN audit'[r] : audit'[r][k][1] = audit'[r][l][1] => k = l
    BY <1>1, <2>1 DEF TrailOK
  <2>7. TrailOK(r)'
    BY <1>3, <1>8, <2>4, <2>5, <2>6 DEF TrailOK
  <2> QED
    BY <1>3, <2>7, OwnTrailOnly
<1>10. CASE RecordAudit(r)
  <2> DEFINE entry == <<n0, agent[r].verdict>>
  <2>1. audit'[r] = Append(audit[r], entry) /\ agent[r].pc = "audit"
    BY <1>1, <1>2, <1>10 DEF RecordAudit
  <2>2. entry \in (1..MaxSteps) \X Verdicts /\ entry[1] = n0 /\ entry[2] = agent[r].verdict
    BY <1>2, <2>1 DEF TrailInv, GrantInv, RunOK
  <2> HIDE DEF entry
  <2>3. /\ DOMAIN audit'[r] = 1..(len + 1) /\ audit'[r][len + 1] = entry
        /\ \A k \in 1..len : audit'[r][k] = audit[r][k]
    BY <1>5, <2>1, <2>2, AppendProperties DEF len
  <2>4. \A k \in 1..(len + 1) : k \in 1..len \/ k = len + 1
    BY <1>5
  <2>5. \A k \in DOMAIN audit'[r] :
          \/ k \in 1..len /\ audit'[r][k] = audit[r][k]
          \/ k = len + 1 /\ audit'[r][k] = entry
    BY <2>3, <2>4
  <2>6. \A k \in 1..len : k \in DOMAIN audit'[r]
    BY <1>5, <2>3
  <2>7. \A n \in 1..MaxSteps : n < n0 => (Recorded(r, n)' <=> Recorded(r, n))
    <3> SUFFICES ASSUME NEW n \in 1..MaxSteps, n < n0 PROVE Recorded(r, n)' <=> Recorded(r, n)
      OBVIOUS
    <3>1. n # n0 /\ entry[1] # n
      BY <1>4, <2>2
    <3>2. ASSUME Recorded(r, n)' PROVE Recorded(r, n)
      <4>1. PICK k \in DOMAIN audit'[r] : audit'[r][k][1] = n /\ audit'[r][k][2] # "denied"
        BY <3>2 DEF Recorded
      <4>2. k \in 1..len /\ audit'[r][k] = audit[r][k]
        BY <2>5, <3>1, <4>1
      <4> QED
        BY <1>5, <4>1, <4>2 DEF Recorded
    <3>3. ASSUME Recorded(r, n) PROVE Recorded(r, n)'
      <4>1. PICK k \in DOMAIN audit[r] : audit[r][k][1] = n /\ audit[r][k][2] # "denied"
        BY <3>3 DEF Recorded
      <4>2. k \in DOMAIN audit'[r] /\ audit'[r][k] = audit[r][k]
        BY <1>5, <2>3, <2>6, <4>1
      <4> QED
        BY <4>1, <4>2 DEF Recorded
    <3> QED
      BY <3>2, <3>3
  <2>8. Recorded(r, n0)' <=> agent[r].verdict # "denied"
    <3>1. len + 1 \in DOMAIN audit'[r] /\ audit'[r][len + 1] = entry
      BY <1>5, <2>3
    <3> QED
      BY <1>4, <1>6, <2>2, <2>5, <3>1 DEF Recorded
  <2>9. \A n \in 1..MaxSteps : n < n0 + 1 => (Called(r, n)' <=> Recorded(r, n)')
    BY <1>4, <1>7, <2>1, <2>7, <2>8
  <2>10. \A k \in DOMAIN audit'[r] : audit'[r][k][1] < n0 + 1
    BY <1>4, <1>6, <2>2, <2>5
  <2>11. \A k, l \in DOMAIN audit'[r] : audit'[r][k][1] = audit'[r][l][1] => k = l
    <3>1. \A k, l \in 1..len : audit[r][k][1] = audit[r][l][1] => k = l
      BY <1>1, <1>5 DEF TrailOK
    <3> QED
      BY <1>4, <1>6, <2>2, <2>5, <3>1
  <2>12. TrailOK(r)'
    BY <1>3, <1>8, <2>9, <2>10, <2>11 DEF TrailOK
  <2> QED
    BY <1>3, <2>12, OwnTrailOnly
<1> QED
  BY <1>9, <1>10

LEMMA TrailInitEstablishes == AgentInit => TrailInv
<1> SUFFICES ASSUME AgentInit PROVE TrailInv
  OBVIOUS
<1>1. \A r \in AgentRuns : agent[r].step = 1 /\ agent[r].pc = "idle" /\ audit[r] = <<>>
  BY DEF AgentInit, NewRun
<1>2. \A r \in AgentRuns : TrailOK(r)
  BY <1>1 DEF AgentInit, TrailOK
<1> QED
  BY <1>2, GrantInitEstablishes DEF TrailInv

LEMMA TrailNextPreserves == TrailInv /\ [AgentNext]_agentVars => TrailInv'
<1> SUFFICES ASSUME TrailInv, [AgentNext]_agentVars PROVE TrailInv'
  OBVIOUS
<1>1. GrantInv' /\ agent \in [AgentRuns -> AgentRun]
  BY GrantNextPreserves DEF TrailInv, GrantInv, AgentTypeOK
<1>2. CASE UNCHANGED agentVars
  BY <1>1, <1>2 DEF agentVars, TrailInv, TrailOK, Called, Recorded
<1>3. ASSUME NEW r \in AgentRuns, AgentOpen(r) \/ AgentFinish(r)
      PROVE  TrailInv'
  <2>1. /\ UNCHANGED <<invoked, audit>> /\ agent'[r].step = agent[r].step
        /\ \A q \in AgentRuns \ {r} : agent'[q] = agent[q]
        /\ \/ agent[r].pc \in {"idle", "decide"} /\ agent'[r].pc # "audit"
           \/ agent[r].pc = "audit" /\ agent'[r].pc = "over"
    BY <1>1, <1>3 DEF AgentOpen, AgentFinish, AgentRun
  <2> QED
    BY <1>1, <2>1, SameStep
<1>4. ASSUME NEW r \in AgentRuns, NEW t \in Tools,
             AgentAllowed(r, t) \/ AgentDenied(r, t) \/ AgentLookup(r, t) \/ AgentAsk(r, t)
      PROVE  TrailInv'
  <2>1. /\ UNCHANGED <<invoked, audit>> /\ agent'[r].step = agent[r].step
        /\ \A q \in AgentRuns \ {r} : agent'[q] = agent[q]
        /\ agent[r].pc = "decide" /\ (agent'[r].pc = "audit" => agent'[r].verdict = "denied")
    BY <1>1, <1>4 DEF AgentAllowed, AgentDenied, AgentLookup, AgentAsk, Choose, AgentRun
  <2> QED
    BY <1>1, <2>1, SameStep
<1>5. ASSUME NEW r \in Streams, Timer(r)
      PROVE  TrailInv'
  <2> r \in AgentRuns
    BY DEF AgentRuns
  <2>1. /\ UNCHANGED <<invoked, audit>> /\ agent'[r].step = agent[r].step
        /\ \A q \in AgentRuns \ {r} : agent'[q] = agent[q]
        /\ agent[r].pc = "wait" /\ agent'[r].verdict = "denied"
    BY <1>1, <1>5 DEF Timer, AgentRun
  <2> QED
    BY <1>1, <2>1, SameStep
<1>6. ASSUME NEW r \in Streams, NEW approved \in BOOLEAN, Answer(r, approved)
      PROVE  TrailInv'
  BY <1>1, <1>6 DEF Answer, TrailInv, TrailOK, Called, Recorded
<1>7. ASSUME NEW a \in answers, ConfirmArrives(a)
      PROVE  TrailInv'
  <2>1. CASE mailbox = NoRun
    BY <1>1, <1>7, <2>1 DEF ConfirmArrives, TrailInv, TrailOK, Called, Recorded
  <2>2. ASSUME NEW r \in Streams, mailbox = r
        PROVE  TrailInv'
    <3>1. r \in AgentRuns /\ r # NoRun /\ agent[r].pc = "wait"
      BY <2>2 DEF AgentRuns, TrailInv, GrantInv, MailboxIsLive
    <3>2. /\ UNCHANGED <<invoked, audit>> /\ agent'[r].step = agent[r].step
          /\ \A q \in AgentRuns \ {r} : agent'[q] = agent[q]
          /\ agent'[r].pc = "audit" => agent'[r].verdict = "denied"
      BY <1>1, <1>7, <2>2, <3>1 DEF ConfirmArrives, AgentRun
    <3> QED
      BY <1>1, <3>1, <3>2, SameStep
  <2> QED
    BY <2>1, <2>2 DEF TrailInv, GrantInv, AgentTypeOK
<1>8. ASSUME NEW r \in AgentRuns,
             AgentTalk(r) \/ RecordAudit(r) \/ InvokeThrows(r) \/ \E ok \in BOOLEAN : Invoke(r, ok)
      PROVE  TrailInv'
  BY <1>1, <1>8, InvokeKeepsTrail, OnwardKeepsTrail
<1> QED
  BY <1>2, <1>3, <1>4, <1>5, <1>6, <1>7, <1>8
     DEF AgentNext, StreamsNext, BackgroundNext, AgentStep, AgentRuns

\* Each step has one entry at most, and a step that a run has left was recorded as
\* executed or failed exactly if its tool was invoked (orchestrator.ts of the
\* agent, recordAudit).
THEOREM EveryCallIsRecorded == AgentSpec => []TrailIsTheHistory
<1> QED
  BY TrailInitEstablishes, TrailNextPreserves, TrailImplies, PTL DEF AgentSpec
-----------------------------------------------------------------------------
(* Types.                                                                  *)

\* The bounds of what people and networks do.
Bounded == typed \in 0..Keystrokes /\ faults \subseteq {"lost", "restarted"}

LEMMA StaysBounded == Bounded /\ [CollabNext]_collabVars => Bounded'
<1> SUFFICES ASSUME Bounded, [CollabNext]_collabVars PROVE Bounded'
  OBVIOUS
<1> USE CollabAssumption DEF Bounded
<1>1. ASSUME NEW t \in Tabs, OnEdit(t)
      PROVE  Bounded'
  BY <1>1 DEF OnEdit
<1>2. ASSUME NEW t \in Tabs, OpenDoc(t) \/ CloseDoc(t) \/ OnEvent(t) \/ StreamError(t)
      PROVE  Bounded'
  BY <1>2 DEF OpenDoc, CloseDoc, OnEvent, StreamError
<1>3. CASE PostOps \/ LosePost \/ RestartServer \/ UNCHANGED collabVars
  BY <1>3 DEF PostOps, LosePost, RestartServer, collabVars
<1> QED
  BY <1>1, <1>2, <1>3 DEF CollabNext

\* Every variable of the collaboration keeps its type.
LEMMA CollabIsTyped == CollabSpec => []CollabTypeOK
<1>1. ASSUME CollabInv, Bounded
      PROVE  CollabTypeOK
  <2>1. ASSUME NEW rga \in Replicas
        PROVE  /\ Known(rga) \subseteq ElemIds /\ rga.tombstoned \subseteq ElemIds
               /\ rga.elems \in [Known(rga) -> [after : ElemIds \cup {DocStart}, ch : Letters,
                                                deleted : BOOLEAN]]
    <3>1. rga \in Rgas
      BY <1>1, <2>1, ReplicasAre, ReplicaType
    <3>2. PICK K \in SUBSET ElemIds :
            rga.elems \in [K -> [after : Places, ch : Letters, deleted : BOOLEAN]]
      BY <3>1 DEF Rgas
    <3>3. K = Known(rga)
      BY <3>2 DEF Known
    <3> QED
      BY <3>1, <3>2, <3>3 DEF Rgas, Places
  <2>2. ASSUME NEW t \in Tabs
        PROVE  /\ tab[t].open \in BOOLEAN /\ tab[t].live \in BOOLEAN
               /\ tab[t].live => tab[t].open /\ tab[t].cursor \in 0..Len(log)
               /\ tab[t].text \in Seq(Letters)
    BY <1>1, <2>2, TabType DEF CollabInv, Delivered
  <2> QED
    BY <1>1, <2>1, <2>2 DEF CollabTypeOK, CollabInv, PagesTyped, Bounded
<1>2. CollabInit => Bounded
  BY CollabAssumption DEF CollabInit, Bounded
<1> QED
  BY <1>1, <1>2, InitWoven, CollabStep, StaysBounded, PTL DEF CollabSpec

\* Every variable of the agent keeps its type.
LEMMA AgentIsTyped == AgentSpec => []AgentTypeOK
<1>1. GrantInv => AgentTypeOK
  BY DEF GrantInv
<1> QED
  BY <1>1, GrantInitEstablishes, GrantNextPreserves, PTL DEF AgentSpec
=============================================================================
