--------------------------- MODULE PlatformProofs ----------------------------
(***************************************************************************)
(* The parts of the platform that face its users, each for every value of  *)
(* its constants.  A claim of the research report rests on sources that    *)
(* are shown; a reader of a stream hands on what has arrived; both         *)
(* backends of a repository hold the same rows; a list shows what is       *)
(* stored once no click is open; the owner's rate limit never admits more  *)
(* than a full bucket and what flowed in meanwhile, and the audit trail    *)
(* has the requests that were let through; the task quota is overrun by    *)
(* what was staged; the research page and the inbox show what belongs to   *)
(* the task they name; a spreadsheet's run answers for the version that it *)
(* read.  At the end, the types of all of them, and their composition.     *)
(***************************************************************************)
EXTENDS Platform, AccountsProofs, NaturalsInduction

-----------------------------------------------------------------------------
(* The folds of the parts: one step of each.                               *)

\* Evidence is kept once per id.
KeptOnce(s, x) == IF \E i \in DOMAIN s : s[i].id = x.id THEN s ELSE Append(s, x)

Gather(how, acc, x) ==
  CASE how.fold = "keep" -> KeptOnce(acc, x)
    [] how.fold = "frame" -> TakeIn(acc, x)
    [] how.fold = "leave" ->
         IF About(x, how.owner, how.key, how.what) THEN acc ELSE Append(acc, x)

INSTANCE Folding WITH Step <- Gather

-----------------------------------------------------------------------------
(* The research run.  Evidence is kept once per id and does not change any *)
(* more once the pages are fetched; a page remembers one origin, and no    *)
(* two pages the same; so a quote always has a source to show, and quotes  *)
(* of two pages have two.                                                  *)

\* A piece of evidence: a passage of a file, a note of the memory, or a hit.
FromMemory == [kind : {"mem"}, of : {"memory"}, para : {1}]
Hits == [kind : {"hit"}, of : {"answer"}, para : Nat]
Evidence == [id : Passages, origin : {"file"}] \cup [id : FromMemory, origin : {"memory"}]
              \cup [id : Hits, origin : Origins]
OnePerId(s) == \A i, j \in DOMAIN s : s[i].id = s[j].id => i = j
Shelf == {s \in Seq(Evidence) : OnePerId(s)}

LEMMA MergeIs ==
  \A old, new : Merge(old, new) = Folded([fold |-> "keep"], old, new)
BY DEF Merge, FoldLeft, MapThenFoldSet, Folded, Folds, Gather, KeptOnce

LEMMA KeptOnShelf ==
  ASSUME NEW s \in Shelf, NEW x \in Evidence
  PROVE  KeptOnce(s, x) \in Shelf
<1>1. CASE \E i \in DOMAIN s : s[i].id = x.id
  BY <1>1 DEF KeptOnce
<1>2. CASE ~\E i \in DOMAIN s : s[i].id = x.id
  <2>1. s \in Seq(Evidence) /\ KeptOnce(s, x) = Append(s, x) /\ Append(s, x) \in Seq(Evidence)
    BY <1>2 DEF KeptOnce, Shelf
  <2>2. DOMAIN s = 1..Len(s) /\ Len(s) \in Nat /\ DOMAIN Append(s, x) = 1..(Len(s) + 1)
    BY <2>1
  <2>3. /\ \A i \in 1..Len(s) : Append(s, x)[i] = s[i]
        /\ Append(s, x)[Len(s) + 1] = x
    BY <2>1
  <2>4. ASSUME NEW i \in 1..(Len(s) + 1), NEW j \in 1..(Len(s) + 1),
               Append(s, x)[i].id = Append(s, x)[j].id
        PROVE  i = j
    <3>1. CASE i \in 1..Len(s) /\ j \in 1..Len(s)
      BY <2>2, <2>3, <2>4, <3>1 DEF Shelf, OnePerId
    <3>2. CASE i = Len(s) + 1 \/ j = Len(s) + 1
      <4>1. \A k \in 1..(Len(s) + 1) : k \in 1..Len(s) \/ k = Len(s) + 1
        BY <2>2
      <4> QED
        BY <1>2, <2>2, <2>3, <2>4, <3>2, <4>1
    <3> QED
      BY <2>2, <3>1, <3>2
  <2>5. OnePerId(Append(s, x))
    BY <2>2, <2>4 DEF OnePerId
  <2> QED
    BY <2>1, <2>5 DEF Shelf
<1> QED
  BY <1>1, <1>2

\* What is merged stays evidence, each piece once.
LEMMA MergedOnShelf ==
  ASSUME NEW old \in Shelf, NEW n \in Nat, NEW new \in [1..n -> Evidence]
  PROVE  Merge(old, new) \in Shelf
<1> DEFINE how == [fold |-> "keep"]
<1>1. PICK g : Runs(g, how, old, new, n) /\ Folded(how, old, new) = g[n]
  BY FoldedRuns
<1> DEFINE good == {k \in Nat : g[k] \in Shelf}
<1>2. 0 \in good
  BY <1>1 DEF Runs
<1>3. ASSUME NEW k \in 1..n, k - 1 \in good
      PROVE  k \in good
  <2>1. g[k] = KeptOnce(g[k - 1], new[k]) /\ new[k] \in Evidence
    BY <1>1 DEF Runs, Gather
  <2> QED
    BY <1>3, <2>1, KeptOnShelf
<1>4. n \in good
  <2> HIDE DEF good
  <2> QED
    BY <1>2, <1>3, StepByStep
<1>5. Merge(old, new) = g[n]
  BY <1>1, MergeIs
<1> QED
  BY <1>4, <1>5

\* A fetched page was requested as the origin of a source, and no other page was; an
\* origin whose page could not be read leads to none.
PagesAreRequested ==
  /\ DOMAIN pageOf \subseteq Pages /\ degraded \subseteq Origins
  /\ \A p \in DOMAIN pageOf : pageOf[p] \in Web \ degraded
  /\ \A p, q \in DOMAIN pageOf : pageOf[p] = pageOf[q] => p = q

\* Precedes the pages are fetched nothing rests on them.
NothingYet ==
  stage \in {"start", "plan", "search"} => pageOf = <<>> /\ snippets = {} /\ citations = {}

ResearchInv ==
  /\ sources \in Shelf
  /\ PagesAreRequested
  /\ NothingYet
  /\ snippets \subseteq FetchedChunks
  /\ ClaimsAreBacked

LEMMA KindsDiffer ==
  /\ \A e \in Evidence : /\ e.origin \in Origins => e.id \in Hits
                         /\ e.id \in Passages => e.origin = "file"
                         /\ e.origin = "file" => e.id \in Passages
  /\ Hits \cap Passages = {} /\ Passages \cap Fetched = {}
  /\ \A c \in Passages : c.kind = "file"
  /\ \A c \in Fetched : c.kind = "fetch"
<1>1. \A e \in [id : Passages, origin : {"file"}] : e.id \in Passages /\ e.origin = "file"
  OBVIOUS
<1>2. \A e \in [id : FromMemory, origin : {"memory"}] : e.id \in FromMemory /\ e.origin = "memory"
  OBVIOUS
<1>3. \A e \in [id : Hits, origin : Origins] : e.id \in Hits /\ e.origin \in Origins
  OBVIOUS
<1>4. /\ \A c \in Passages : c.kind = "file"
      /\ \A c \in Fetched : c.kind = "fetch"
      /\ \A c \in Hits : c.kind = "hit"
      /\ \A c \in FromMemory : c.kind = "mem"
  BY DEF Passages, Fetched, Hits, FromMemory
<1>5. "file" \notin Origins /\ "memory" \notin Origins
  BY ResearchAssumption
<1>6. \A x \in Passages : x \notin Hits /\ x \notin FromMemory /\ x \notin Fetched
  BY <1>4
<1> QED
  BY <1>1, <1>2, <1>3, <1>4, <1>5, <1>6 DEF Evidence

\* Whatever a quote was taken from, a source shown stands for it: the passage itself,
\* or the hit its page was requested as.
StandsFor(i, c) ==
  \/ c \in Passages /\ sources[i].id = c /\ sources[i].origin = "file"
  \/ c \in Fetched /\ c.of \in DOMAIN pageOf /\ sources[i].origin = pageOf[c.of]

LEMMA ShownFor ==
  ASSUME sources \in Shelf, PagesAreRequested, NEW c \in FetchedChunks
  PROVE  /\ DisplaySourceId(c) # {}
         /\ \A id \in DisplaySourceId(c) :
              \E i \in DOMAIN sources : sources[i].id = id /\ StandsFor(i, c)
<1>1. DOMAIN sources = 1..Len(sources) /\ Len(sources) \in Nat
      /\ \A i \in DOMAIN sources : sources[i] \in Evidence
  BY DEF Shelf
<1>2. CASE c \in FileChunks
  <2>1. PICK i \in DOMAIN sources : sources[i].origin = "file" /\ sources[i].id = c
    BY <1>2 DEF FileChunks
  <2>2. c \in Passages /\ c.kind = "file"
    BY <1>1, <2>1, KindsDiffer
  <2>3. DisplaySourceId(c) = {c}
    BY <2>1, <2>2 DEF DisplaySourceId, Ids
  <2> QED
    BY <2>1, <2>2, <2>3 DEF StandsFor
<1>3. CASE c \in Fetched /\ c.of \in DOMAIN pageOf
  <2>1. c.kind # "file"
    BY <1>3, KindsDiffer
  <2> DEFINE from == {i \in DOMAIN sources : sources[i].origin = pageOf[c.of]}
  <2>2. from \in SUBSET (1..Len(sources)) /\ from # {}
    BY <1>1, <1>3 DEF PagesAreRequested, Web
  <2>3. DisplaySourceId(c) = {sources[i].id : i \in {j \in from : \A k \in from : k <= j}}
    BY <1>3, <2>1 DEF DisplaySourceId
  <2>4. Max(from) \in {j \in from : \A k \in from : k <= j}
    BY <1>1, <2>2, LastIndex
  <2>5. \A i \in from : i \in DOMAIN sources /\ StandsFor(i, c)
    BY <1>3 DEF StandsFor
  <2> HIDE DEF from
  <2> QED
    BY <2>3, <2>4, <2>5
<1> QED
  BY <1>2, <1>3 DEF FetchedChunks

\* Quotes from two different pages or files are shown by two different sources.
LEMMA TwoPagesTwoSources ==
  ASSUME sources \in Shelf, PagesAreRequested,
         NEW c \in FetchedChunks, NEW d \in FetchedChunks, PageKey(c) # PageKey(d),
         NEW i \in DOMAIN sources, NEW j \in DOMAIN sources, StandsFor(i, c), StandsFor(j, d)
  PROVE  sources[i].id # sources[j].id
<1>2. sources[i] \in Evidence /\ sources[j] \in Evidence
  BY DEF Shelf
<1>3. SUFFICES ASSUME sources[i].id = sources[j].id PROVE FALSE
  OBVIOUS
<1>4. i = j
  BY <1>3 DEF Shelf, OnePerId
<1>5. CASE c \in Passages /\ sources[i].id = c
  <2>1. CASE d \in Passages /\ sources[j].id = d
    BY <1>4, <1>5, <2>1
  <2>2. CASE d \in Fetched /\ d.of \in DOMAIN pageOf /\ sources[j].origin = pageOf[d.of]
    BY <1>2, <1>4, <1>5, <2>2, KindsDiffer DEF PagesAreRequested, Web
  <2> QED
    BY <2>1, <2>2 DEF StandsFor
<1>6. CASE c \in Fetched /\ c.of \in DOMAIN pageOf /\ sources[i].origin = pageOf[c.of]
  <2>1. CASE d \in Passages /\ sources[j].id = d
    BY <1>2, <1>4, <1>6, <2>1, KindsDiffer DEF PagesAreRequested, Web
  <2>2. CASE d \in Fetched /\ d.of \in DOMAIN pageOf /\ sources[j].origin = pageOf[d.of]
    <3>1. c.of = d.of
      BY <1>4, <1>6, <2>2 DEF PagesAreRequested
    <3> QED
      BY <1>6, <2>2, <3>1, KindsDiffer DEF PageKey
  <2> QED
    BY <2>1, <2>2 DEF StandsFor
<1> QED
  BY <1>5, <1>6 DEF StandsFor

\* Two members of a finite set.
LEMMA TwoIn ==
  ASSUME NEW S, IsFiniteSet(S), NEW x \in S, NEW y \in S, x # y
  PROVE  Cardinality(S) >= 2
<1>1. IsFiniteSet(S \ {x}) /\ Cardinality(S \ {x}) = Cardinality(S) - 1
  BY FS_RemoveElement
<1>2. Cardinality(S \ {x}) \in Nat /\ Cardinality(S) \in Nat
  BY <1>1, FS_CardinalityType
<1>3. Cardinality(S \ {x}) # 0
  BY <1>1, FS_EmptySet
<1> QED
  BY <1>1, <1>2, <1>3

LEMMA TwoOf ==
  ASSUME NEW S, Cardinality(S) >= 2
  PROVE  \E x, y \in S : x # y
<1>1. SUFFICES ASSUME \A x, y \in S : x = y PROVE FALSE
  OBVIOUS
<1>2. CASE S = {}
  BY <1>2, FS_EmptySet
<1>3. CASE S # {}
  <2>1. PICK x \in S : TRUE
    BY <1>3
  <2>2. S = {x}
    BY <1>1, <2>1
  <2>3. Cardinality(S) = 1
    BY <2>2, FS_Singleton
  <2> QED
    BY <2>3
<1> QED
  BY <1>2, <1>3

LEMMA IdsAreFinite ==
  ASSUME sources \in Shelf
  PROVE  IsFiniteSet(Ids)
<1>1. DOMAIN sources = 1..Len(sources) /\ Len(sources) \in Nat
  BY DEF Shelf
<1>2. IsFiniteSet(1..Len(sources))
  BY <1>1, FS_Interval
<1> DEFINE idOf == [i \in 1..Len(sources) |-> sources[i].id]
<1>3. idOf \in Surjection(1..Len(sources), Ids)
  BY <1>1 DEF Ids, Surjection
<1> QED
  BY <1>2, <1>3, FS_Surjection

Backed(c) ==
  /\ c.sourceIds # {} /\ c.sourceIds \subseteq Ids
  /\ c.support \cup c.conflict \subseteq FetchedChunks
  /\ c.status = "corroborated" => Cardinality(c.sourceIds) >= 2 /\ c.conflict = {}
  /\ c.support # {} =>
       \A i \in DOMAIN sources : sources[i].id \in c.sourceIds => sources[i].origin \notin degraded

\* A claim that rests on verified quotes is backed.
LEMMA SupportedIsBacked ==
  ASSUME sources \in Shelf, PagesAreRequested,
         NEW support \in SUBSET FetchedChunks, NEW conflict \in SUBSET FetchedChunks,
         NEW cited, cited = UNION {DisplaySourceId(s) : s \in support}, cited # {}
  PROVE  Backed(Claim(support, conflict, cited, StatusOf(support, conflict)))
<1> DEFINE c == Claim(support, conflict, cited, StatusOf(support, conflict))
<1>1. /\ c.support = support /\ c.conflict = conflict /\ c.sourceIds = cited
      /\ c.status = StatusOf(support, conflict)
  BY DEF Claim
<1>2. \A id \in cited : \E s \in support : id \in DisplaySourceId(s)
  OBVIOUS
<1>3. \A id \in cited : \E s \in support : \E i \in DOMAIN sources :
        sources[i].id = id /\ StandsFor(i, s)
  BY <1>2, ShownFor
<1>4. cited \subseteq Ids
  BY <1>3 DEF Ids
<1>5. ASSUME StatusOf(support, conflict) = "corroborated"
      PROVE  Cardinality(cited) >= 2 /\ conflict = {}
  <2>1. conflict = {} /\ Cardinality({PageKey(s) : s \in support}) >= 2
    BY <1>5 DEF StatusOf
  <2>2. PICK x, y \in {PageKey(s) : s \in support} : x # y
    BY <2>1, TwoOf
  <2>3. PICK s \in support, t \in support : PageKey(s) # PageKey(t)
    BY <2>2
  <2>4. PICK a \in DisplaySourceId(s), b \in DisplaySourceId(t) :
          /\ \E i \in DOMAIN sources : sources[i].id = a /\ StandsFor(i, s)
          /\ \E j \in DOMAIN sources : sources[j].id = b /\ StandsFor(j, t)
    BY ShownFor
  <2>5. a # b
    BY <2>3, <2>4, TwoPagesTwoSources
  <2>6. a \in cited /\ b \in cited /\ IsFiniteSet(cited)
    BY <1>4, IdsAreFinite, FS_Subset
  <2> QED
    BY <2>1, <2>5, <2>6, TwoIn
<1>6. ASSUME NEW j \in DOMAIN sources, sources[j].id \in cited
      PROVE  sources[j].origin \notin degraded
  <2>1. PICK s \in support, i \in DOMAIN sources : sources[i].id = sources[j].id /\ StandsFor(i, s)
    BY <1>3, <1>6
  <2>2. i = j
    BY <2>1 DEF Shelf, OnePerId
  <2>3. "file" \notin Origins
    BY ResearchAssumption
  <2> QED
    BY <2>1, <2>2, <2>3 DEF StandsFor, PagesAreRequested
<1>7. c.sourceIds # {} /\ c.sourceIds \subseteq Ids
  BY <1>1, <1>4
<1>8. c.support \cup c.conflict \subseteq FetchedChunks
  BY <1>1
<1>9. c.status = "corroborated" => Cardinality(c.sourceIds) >= 2 /\ c.conflict = {}
  BY <1>1, <1>5
<1>10. \A i \in DOMAIN sources : sources[i].id \in c.sourceIds => sources[i].origin \notin degraded
  BY <1>1, <1>6
<1> QED
  BY <1>7, <1>8, <1>9, <1>10 DEF Backed

LEMMA BackedUnchanged ==
  ASSUME UNCHANGED <<sources, pageOf, degraded>>, NEW c, Backed(c)
  PROVE  Backed(c)'
BY DEF Backed, Ids, FetchedChunks, FileChunks

LEMMA ClaimsUnfold == ClaimsAreBacked <=> \A c \in citations : Backed(c)
BY DEF ClaimsAreBacked, Backed

\* A step that leaves the evidence and the pages alone.
LEMMA SameEvidence ==
  ASSUME ResearchInv, UNCHANGED <<sources, pageOf, degraded>>,
         NothingYet', (snippets \subseteq FetchedChunks)', (\A c \in citations : Backed(c))'
  PROVE  ResearchInv'
<1>1. (sources \in Shelf)' /\ PagesAreRequested'
  BY DEF ResearchInv, PagesAreRequested, Web
<1>2. ClaimsAreBacked'
  BY ClaimsUnfold, PTL
<1> QED
  BY <1>1, <1>2 DEF ResearchInv

\* A step that leaves everything but the stage alone.
LEMMA SameData ==
  ASSUME ResearchInv, UNCHANGED Data,
         stage' \in {"start", "plan", "search"} => stage \in {"start", "plan", "search"}
  PROVE  ResearchInv'
BY DEF ResearchInv, Data, PagesAreRequested, Web, NothingYet, ClaimsAreBacked, FetchedChunks,
       FileChunks, Ids

LEMMA FailKeeps == ResearchInv /\ Fail => ResearchInv'
BY SameData DEF Fail
LEMMA PlanKeeps == ResearchInv /\ Plan => ResearchInv'
BY SameData DEF Plan
LEMMA DeliverKeeps == ResearchInv /\ Deliver => ResearchInv'
BY SameData DEF Deliver
LEMMA NoteKeeps == ResearchInv /\ Note => ResearchInv'
BY SameData DEF Note

\* While nothing rests on them the sources may be any evidence, each piece once.
LEMMA NewSources ==
  ASSUME ResearchInv, stage \in {"start", "plan", "search"}, sources' \in Shelf,
         UNCHANGED <<pageOf, degraded, snippets, citations>>
  PROVE  ResearchInv'
<1>1. pageOf = <<>> /\ snippets = {} /\ citations = {} /\ DOMAIN pageOf = {}
  BY DEF ResearchInv, NothingYet
<1>2. PagesAreRequested'
  BY <1>1 DEF ResearchInv, PagesAreRequested
<1> QED
  BY <1>1, <1>2 DEF ResearchInv, NothingYet, ClaimsAreBacked

\* The passages of a set, in some order.
LEMMA SomeOrder ==
  ASSUME NEW S, IsFiniteSet(S)
  PROVE  /\ SetToSeq(S) \in Seq(S)
         /\ \A i, j \in DOMAIN SetToSeq(S) : SetToSeq(S)[i] = SetToSeq(S)[j] => i = j
<1>1. Cardinality(S) \in Nat /\ \E f : f \in Bijection(1..Cardinality(S), S)
  BY FS_CardinalityType DEF ExistsBijection
<1>2. \E f \in [1..Cardinality(S) -> S] : IsInjective(f)
  BY <1>1 DEF Bijection, Injection, IsInjective
<1>3. SetToSeq(S) \in [1..Cardinality(S) -> S] /\ IsInjective(SetToSeq(S))
  BY <1>2 DEF SetToSeq
<1> QED
  BY <1>1, <1>3 DEF IsInjective

LEMMA PassagesAreFinite == IsFiniteSet(Passages)
<1> DEFINE of == [f \in Files |-> [kind |-> "file", of |-> f, para |-> 1]]
<1>1. of \in Surjection(Files, Passages)
  BY DEF Surjection, Passages
<1> QED
  BY <1>1, ResearchAssumption, FS_Surjection

LEMMA StartKeeps == ResearchInv /\ Start => ResearchInv'
<1> SUFFICES ASSUME ResearchInv, Start PROVE ResearchInv'
  OBVIOUS
<1>1. PICK passages \in SUBSET Passages, notes \in Recalled :
        sources' = SetToSeq({Source(c, "file") : c \in passages}) \o notes
  BY DEF Start, Retrieved
<1> DEFINE S == {Source(c, "file") : c \in passages}
<1> DEFINE front == SetToSeq(S)
<1>2. IsFiniteSet(passages)
  BY PassagesAreFinite, FS_Subset
<1>3. IsFiniteSet(S)
  <2> DEFINE as == [c \in passages |-> Source(c, "file")]
  <2>1. as \in Surjection(passages, S)
    BY DEF Surjection
  <2> QED
    BY <1>2, <2>1, FS_Surjection
<1>4. /\ \A e \in S : e \in Evidence /\ e.id \in Passages /\ e.id.kind = "file"
      /\ \A e, f \in S : e.id = f.id => e = f
  BY DEF Source, Evidence, Passages
<1>5. front \in Seq(S) /\ \A i, j \in DOMAIN front : front[i] = front[j] => i = j
  BY <1>3, SomeOrder
<1> HIDE DEF front, S
<1>6. \A i \in DOMAIN front : front[i] \in S
  BY <1>5
<1>7. front \in Seq(Evidence)
  BY <1>4, <1>5
<1>8. front \in Shelf
  BY <1>4, <1>5, <1>6, <1>7 DEF Shelf, OnePerId
<1>9. CASE notes = <<>>
  <2>1. front \o notes = front
    BY <1>7, <1>9
  <2> QED
    BY <1>1, <1>8, <2>1, NewSources DEF Start, front, S
<1>10. CASE notes # <<>>
  <2> DEFINE e == Source([kind |-> "mem", of |-> "memory", para |-> 1], "memory")
  <2>1. notes = <<e>>
    BY <1>10 DEF Recalled
  <2>2. e \in Evidence /\ e.id.kind = "mem"
    BY DEF Source, Evidence, FromMemory
  <2>3. front \o notes = Append(front, e)
    BY <1>7, <2>1
  <2>4. Append(front, e) = KeptOnce(front, e)
    <3>1. \A i \in DOMAIN front : front[i].id # e.id
      BY <1>4, <1>6, <2>2
    <3> QED
      BY <3>1 DEF KeptOnce
  <2>5. KeptOnce(front, e) \in Shelf
    BY <1>8, <2>2, KeptOnShelf
  <2> HIDE DEF e
  <2> QED
    BY <1>1, <2>3, <2>4, <2>5, NewSources DEF Start, front, S
<1> QED
  BY <1>9, <1>10

LEMMA SearchKeeps == ResearchInv /\ Search => ResearchInv'
<1> SUFFICES ASSUME ResearchInv, Search PROVE ResearchInv'
  OBVIOUS
<1>1. PICK n \in 0..MaxHits :
        \E answer \in [1..n -> Origins] : sources' = Merge(sources, AsEvidence(answer))
  BY DEF Search
<1>2. PICK answer \in [1..n -> Origins] : sources' = Merge(sources, AsEvidence(answer))
  BY <1>1
<1>3. n \in Nat
  BY ResearchAssumption
<1>4. AsEvidence(answer) \in [1..n -> Evidence]
  BY <1>3 DEF AsEvidence, Source, HitId, Evidence, Hits
<1>5. sources' \in Shelf
  BY <1>2, <1>3, <1>4, MergedOnShelf DEF ResearchInv
<1> QED
  BY <1>5, NewSources DEF Search

\* Of the origins that led to one page the last is remembered.
LEMMA LastAsked ==
  ASSUME sources \in Shelf, NEW from, NEW p \in {from[o] : o \in Asked}
  PROVE  \E o \in Asked : from[o] = p /\ \A w \in Asked : from[w] = p => FirstAt(w) <= FirstAt(o)
<1>1. DOMAIN sources = 1..Len(sources) /\ Len(sources) \in Nat
  BY DEF Shelf
<1>2. \A o \in Asked : FirstAt(o) \in 1..Len(sources)
  <2>1. ASSUME NEW o \in Asked PROVE FirstAt(o) \in 1..Len(sources)
    <3> DEFINE at == {i \in DOMAIN sources : sources[i].origin = o}
    <3>1. at \in SUBSET Nat /\ at # {} /\ at \subseteq 1..Len(sources)
      BY <1>1 DEF Asked, Web
    <3> HIDE DEF at
    <3>2. Min(at) \in at
      BY <3>1, FirstIndex
    <3> QED
      BY <3>1, <3>2 DEF FirstAt, at
  <2> QED
    BY <2>1
<1> DEFINE led == {o \in Asked : from[o] = p}
<1> DEFINE places == {FirstAt(o) : o \in led}
<1>3. places \in SUBSET (1..Len(sources)) /\ places # {}
  BY <1>2
<1>4. Max(places) \in places /\ \A k \in places : k <= Max(places)
  BY <1>1, <1>3, LastIndex
<1>5. PICK o \in led : FirstAt(o) = Max(places)
  BY <1>4
<1> QED
  BY <1>4, <1>5

LEMMA FetchKeeps == ResearchInv /\ Fetch => ResearchInv'
<1> SUFFICES ASSUME ResearchInv, Fetch PROVE ResearchInv'
  OBVIOUS
<1>1. PICK from \in [Asked -> Pages \cup {"failed"}] :
        pageOf' = Enrich(from) /\ degraded' = {o \in Asked : from[o] = "failed"}
  BY DEF Fetch
<1>2. sources' = sources /\ Web' = Web
  BY DEF Fetch, Web
<1> DEFINE P == {from[o] : o \in Asked} \ {"failed"}
<1> DEFINE last(p) == CHOOSE o \in Asked : from[o] = p
                        /\ \A w \in Asked : from[w] = p => FirstAt(w) <= FirstAt(o)
<1>3. pageOf' = [p \in P |-> last(p)]
  BY <1>1 DEF Enrich
<1>4. \A p \in P : last(p) \in Asked /\ from[last(p)] = p
  <2>1. \A p \in P : \E o \in Asked : from[o] = p
                       /\ \A w \in Asked : from[w] = p => FirstAt(w) <= FirstAt(o)
    BY LastAsked DEF ResearchInv
  <2> QED
    BY <2>1
<1> HIDE DEF last
<1>5. P \subseteq Pages /\ Asked \subseteq Web /\ Web \subseteq Origins
  BY DEF Asked, Web
<1>6. PagesAreRequested'
  BY <1>1, <1>2, <1>3, <1>4, <1>5 DEF PagesAreRequested
<1>7. stage' = "extract" /\ snippets' = {} /\ citations' = {}
  BY DEF Fetch, ResearchInv, NothingYet
<1> QED
  BY <1>2, <1>6, <1>7 DEF ResearchInv, NothingYet, ClaimsAreBacked

LEMMA ExtractKeeps == ResearchInv /\ Extract => ResearchInv'
<1> SUFFICES ASSUME ResearchInv, Extract PROVE ResearchInv'
  OBVIOUS
<1>1. UNCHANGED <<sources, pageOf, degraded, citations>> /\ NothingYet'
  BY DEF Extract, NothingYet
<1>2. FetchedChunks' = FetchedChunks
  BY <1>1 DEF FetchedChunks, FileChunks
<1>3. snippets' \subseteq FetchedChunks
  BY DEF Extract, Verified, ResearchInv
<1>4. (\A c \in citations : Backed(c))'
  BY <1>1, ClaimsUnfold, BackedUnchanged DEF ResearchInv
<1> QED
  BY <1>1, <1>2, <1>3, <1>4, SameEvidence

ShownBy(support) == UNION {DisplaySourceId(s) : s \in support}

\* What is left of a claim.
Left(c, support, conflict) ==
  \E s \in SUBSET support, x \in SUBSET conflict :
    c = Claim(s, x, ShownBy(s), StatusOf(s, x)) /\ ShownBy(s) # {}

LEMMA ClaimIsKept ==
  ASSUME NEW support, NEW conflict, NEW raw, raw = {[support |-> support, conflict |-> conflict]},
         NEW c \in ValidateClaims(raw)
  PROVE  Left(c, support, conflict)
<1> DEFINE known(r) == [support |-> r.support \cap snippets, conflict |-> r.conflict \cap snippets]
<1> DEFINE good == {k \in {known(r) : r \in raw} : k.support # {} /\ ShownBy(k.support) # {}}
<1>1. ValidateClaims(raw) =
        {Claim(k.support, k.conflict, ShownBy(k.support), StatusOf(k.support, k.conflict)) :
           k \in good}
  BY DEF ValidateClaims, ShownBy
<1>2. PICK k \in good :
        c = Claim(k.support, k.conflict, ShownBy(k.support), StatusOf(k.support, k.conflict))
  BY <1>1
<1>3. k = known([support |-> support, conflict |-> conflict]) /\ ShownBy(k.support) # {}
  OBVIOUS
<1>4. k.support = support \cap snippets /\ k.conflict = conflict \cap snippets
  BY <1>3
<1>5. k.support \in SUBSET support /\ k.conflict \in SUBSET conflict
  BY <1>4
<1> QED
  BY <1>2, <1>3, <1>5 DEF Left

LEMMA CompareKeeps == ResearchInv /\ Compare => ResearchInv'
<1> SUFFICES ASSUME ResearchInv, Compare PROVE ResearchInv'
  OBVIOUS
<1>1. UNCHANGED <<sources, pageOf, degraded, snippets>> /\ NothingYet'
  BY DEF Compare, NothingYet
<1>2. FetchedChunks' = FetchedChunks
  BY <1>1 DEF FetchedChunks, FileChunks
<1>3. PICK support \in SUBSET FetchedChunks, conflict \in SUBSET FetchedChunks :
        citations' = ValidateClaims({[support |-> support, conflict |-> conflict]})
  BY DEF Compare
<1>4. ASSUME NEW c \in citations' PROVE Backed(c)
  <2>1. PICK s \in SUBSET FetchedChunks, x \in SUBSET FetchedChunks :
          c = Claim(s, x, ShownBy(s), StatusOf(s, x)) /\ ShownBy(s) # {}
    <3> DEFINE raw == {[support |-> support, conflict |-> conflict]}
    <3>1. c \in ValidateClaims(raw)
      BY <1>3, <1>4
    <3>2. Left(c, support, conflict)
      BY <3>1, ClaimIsKept
    <3> QED
      BY <3>2 DEF Left
  <2> QED
    BY <2>1, SupportedIsBacked DEF ResearchInv, ShownBy
<1>5. (\A c \in citations : Backed(c))'
  BY <1>1, <1>4, BackedUnchanged
<1> QED
  BY <1>1, <1>2, <1>5, SameEvidence DEF ResearchInv

LEMMA GenerateKeeps == ResearchInv /\ Generate => ResearchInv'
<1> SUFFICES ASSUME ResearchInv, Generate PROVE ResearchInv'
  OBVIOUS
<1>1. UNCHANGED <<sources, pageOf, degraded, snippets>> /\ NothingYet'
  BY DEF Generate, NothingYet
<1>2. FetchedChunks' = FetchedChunks
  BY <1>1 DEF FetchedChunks, FileChunks
<1>3. ASSUME NEW c \in citations' PROVE Backed(c)
  <2>1. CASE citations = {}
    <3>1. PICK ids : c = Claim({}, {}, ids \cap Ids, "none") /\ c.sourceIds # {}
      BY <1>3, <2>1 DEF Generate
    <3>2. c.sourceIds = ids \cap Ids /\ c.support = {} /\ c.conflict = {} /\ c.status = "none"
      BY <3>1 DEF Claim
    <3> QED
      BY <3>1, <3>2 DEF Backed
  <2>2. CASE citations # {}
    BY <1>3, <2>2, ClaimsUnfold DEF Generate, ResearchInv
  <2> QED
    BY <2>1, <2>2
<1>4. (\A c \in citations : Backed(c))'
  BY <1>1, <1>3, BackedUnchanged
<1> QED
  BY <1>1, <1>2, <1>4, SameEvidence DEF ResearchInv

LEMMA ResearchStart == ResearchInit => ResearchInv
BY DEF ResearchInit, ResearchInv, Shelf, OnePerId, PagesAreRequested, NothingYet, ClaimsAreBacked

LEMMA ResearchKeeps == ResearchInv /\ [ResearchNext]_researchVars => ResearchInv'
<1> SUFFICES ASSUME ResearchInv, [ResearchNext]_researchVars PROVE ResearchInv'
  OBVIOUS
<1>1. CASE UNCHANGED researchVars
  BY <1>1, SameData DEF researchVars, Data
<1>2. CASE ResearchNext
  BY <1>2, StartKeeps, FailKeeps, PlanKeeps, SearchKeeps, FetchKeeps, ExtractKeeps, CompareKeeps,
     GenerateKeeps, DeliverKeeps, NoteKeeps DEF ResearchNext
<1> QED
  BY <1>1, <1>2

\* Whatever the searches find, the pages lead to and the models answer, a claim cites
\* sources the reader is shown, and a corroborated one at least two.
THEOREM ClaimsRestOnSources == ResearchSpec => []ClaimsAreBacked
<1>1. ResearchInv => ClaimsAreBacked
  BY DEF ResearchInv
<1> QED
  BY <1>1, ResearchStart, ResearchKeeps, PTL DEF ResearchSpec

-----------------------------------------------------------------------------
(* The readers of streamed answers.  What a reader holds depends on how    *)
(* many units have arrived and on nothing else: a chunk folds over its     *)
(* units, so where the stream is cut does not show.  A unit is kept in the *)
(* buffer, ends a piece without an event, or hands a frame on.             *)

Bits == [frame : Nat, part : {"name", "nl", "data", "lead", "trail", "spoilt"}]
HandedOn == [frame : Nat, clean : BOOLEAN]
States == [unread : Seq(Bits), got : Seq(HandedOn), outcome : {"reading", "stopped"}]

\* What a unit of the buffer was when it was sent: over stdio half a character may be spoilt.
CameFrom(u, e) ==
  /\ u.frame = e.frame
  /\ \/ u.part = e.part
     \/ reader = "stdio" /\ e.part \in {"lead", "trail"} /\ u.part = "spoilt"

\* The frame j is over, for the reader, when its line or its block has been read.
LineEnd == Len(Shape) - (IF reader \in {"openai", "anthropic", "http"} THEN 1 ELSE 0)
Over(j, k) == (j - 1) * Len(Shape) + LineEnd <= k
Payload == {"event", "stray"} \* the kinds that a reader hands on, or collects
Stops(j) == Readers[reader].marker = "stop" /\ frames[j] = "marker"
Wanted(j) == frames[j] \in Payload /\ \A h \in 1..(j - 1) : ~Stops(h)

\* Where the piece begins that the unit after the first r of a frame belongs to.
Since(r) ==
  CASE reader = "openai" -> IF r >= 4 THEN 4 ELSE 0
    [] reader \in {"anthropic", "http"} -> IF r >= 6 THEN 6 ELSE IF r >= 2 THEN 2 ELSE 0
    [] OTHER -> 0

GotAll(g, k) ==
  /\ {g[n].frame : n \in DOMAIN g} = {j \in DOMAIN frames : Wanted(j) /\ Over(j, k)}
  /\ \A m, n \in DOMAIN g : m < n => g[m].frame < g[n].frame
  /\ reader # "stdio" => \A n \in DOMAIN g : g[n].clean

StoppedAt(k) == \E j \in DOMAIN frames : Stops(j) /\ Over(j, k)

Buffers(buffer, i, r) ==
  /\ Len(buffer) = r - Since(r)
  /\ \A n \in 1..(r - Since(r)) : CameFrom(buffer[n], Unit(i + 1, Shape[Since(r) + n]))

Stands(k, i, r) == k \in Nat /\ i \in Nat /\ r \in 0..(Len(Shape) - 1) /\ k = i * Len(Shape) + r

\* A reader that has taken in k units.
ReadTo(st, k) ==
  /\ st \in States
  /\ GotAll(st.got, k)
  /\ st.outcome = "stopped" <=> StoppedAt(k)
  /\ st.outcome = "reading" => \A i, r : Stands(k, i, r) => Buffers(st.unread, i, r)

StreamTyped ==
  /\ reader \in DOMAIN Readers
  /\ \E n \in Nat : frames \in [1..n -> FrameKinds(reader)]

LEMMA ReaderNames ==
  DOMAIN Readers = {"openai", "anthropic", "extension", "chat", "transcript", "stdio", "http"}
BY DEF Readers

LEMMA LineReaders ==
  ASSUME reader = "openai"
  PROVE  /\ Readers[reader].ends = Lines /\ Shape = DataLine /\ Len(Shape) = 5
         /\ LineEnd = 4 /\ Readers[reader].malformed = "skip"
BY DEF Readers, OpenAI, Reader, Shape, LineEnd, DataLine

LEMMA NamedReaders ==
  ASSUME reader \in {"anthropic", "http"}
  PROVE  /\ Readers[reader].ends = Lines /\ Shape = NamedData /\ Len(Shape) = 7
         /\ LineEnd = 6 /\ Readers[reader].malformed = "skip"
<1>1. CASE reader = "anthropic"
  BY <1>1 DEF NamedData, Readers, Anthropic, Reader, Shape, LineEnd
<1>2. CASE reader = "http"
  BY <1>2 DEF NamedData, Readers, HttpMcp, Reader, Shape, LineEnd
<1> QED
  BY <1>1, <1>2

LEMMA BlockReaders ==
  ASSUME reader \in {"extension", "chat", "transcript"}
  PROVE  /\ Readers[reader].ends = Blocks /\ Shape = DataLine /\ Len(Shape) = 5
         /\ LineEnd = 5 /\ (Readers[reader].malformed = "skip" \/ reader = "transcript")
<1>1. CASE reader = "extension"
  BY <1>1 DEF Readers, Extension, Reader, Shape, LineEnd, DataLine
<1>2. CASE reader = "chat"
  BY <1>2 DEF Readers, ChatPage, Reader, Shape, LineEnd, DataLine
<1>3. CASE reader = "transcript"
  BY <1>3 DEF Readers, Transcript, Reader, Shape, LineEnd, DataLine
<1> QED
  BY <1>1, <1>2, <1>3

LEMMA StdioReader ==
  ASSUME reader = "stdio"
  PROVE  /\ Readers[reader].ends = Lines /\ Shape = <<"lead", "trail", "nl">> /\ Len(Shape) = 3
         /\ LineEnd = 3 /\ Readers[reader].malformed = "skip"
BY DEF Readers, StdioMcp, Reader, Shape, LineEnd

\* The transcript has no end marker and nothing malformed.
LEMMA TranscriptKinds ==
  ASSUME StreamTyped, reader = "transcript", NEW j \in DOMAIN frames
  PROVE  frames[j] = "event"
<1>1. Readers[reader].marker = "none"
  BY DEF Readers, Transcript, Reader
<1> QED
  BY <1>1 DEF StreamTyped, FrameKinds

LEMMA KindsOfFrames ==
  ASSUME StreamTyped
  PROVE  \E n \in Nat : /\ DOMAIN frames = 1..n /\ Len(frames) = n
                        /\ \A j \in 1..n : frames[j] \in {"event", "stray", "other", "malformed", "marker"}
BY DEF StreamTyped, FrameKinds

LEMMA Position ==
  ASSUME NEW k \in Nat, NEW l \in {3, 5, 7}
  PROVE  \E i \in Nat, r \in 0..(l - 1) : k = i * l + r /\ k \div l = i /\ k % l = r
<1>1. CASE l = 3
  BY <1>1
<1>2. CASE l = 5
  BY <1>2
<1>3. CASE l = 7
  BY <1>3
<1> QED
  BY <1>1, <1>2, <1>3

LEMMA StatesAre ==
  \A st \in States : /\ st.unread \in Seq(Bits) /\ st.got \in Seq(HandedOn) /\ st.outcome \in {"reading", "stopped"}
                     /\ st = [unread |-> st.unread, got |-> st.got, outcome |-> st.outcome]
BY DEF States

WithUnread(st, b) == [st EXCEPT !.unread = b]
WithGot(st, g) == [st EXCEPT !.got = g]

LEMMA NewUnread ==
  \A st \in States : \A b \in Seq(Bits) :
    /\ WithUnread(st, b) \in States /\ WithUnread(st, b).unread = b
    /\ WithUnread(st, b).got = st.got /\ WithUnread(st, b).outcome = st.outcome
<1> TAKE st \in States
<1> TAKE b \in Seq(Bits)
<1>1. WithUnread(st, b) = [unread |-> b, got |-> st.got, outcome |-> st.outcome]
  BY StatesAre DEF WithUnread
<1> QED
  BY <1>1, StatesAre DEF States

LEMMA NewGot ==
  \A st \in States : \A g \in Seq(HandedOn) :
    /\ WithGot(st, g) \in States /\ WithGot(st, g).unread = st.unread
    /\ WithGot(st, g).got = g /\ WithGot(st, g).outcome = st.outcome
<1> TAKE st \in States
<1> TAKE g \in Seq(HandedOn)
<1>1. WithGot(st, g) = [unread |-> st.unread, got |-> g, outcome |-> st.outcome]
  <2>1. st = [unread |-> st.unread, got |-> st.got, outcome |-> st.outcome]
    BY StatesAre
  <2> QED
    BY <2>1 DEF WithGot
<1> QED
  BY <1>1, StatesAre DEF States

LEMMA Sequences ==
  /\ <<>> \in Seq(Bits) /\ <<>> \in Seq(HandedOn)
  /\ \A b \in Seq(Bits), u \in Bits : Append(b, u) \in Seq(Bits)
  /\ \A g \in Seq(HandedOn), e \in HandedOn : Append(g, e) \in Seq(HandedOn)
OBVIOUS

\* A piece of a sequence of units.
LEMMA PieceOf ==
  ASSUME NEW b \in Seq(Bits), NEW m \in Int, NEW n \in Int, 1 <= m, m <= n + 1, n <= Len(b)
  PROVE  /\ SubSeq(b, m, n) \in Seq(Bits) /\ Len(SubSeq(b, m, n)) = n - m + 1
         /\ \A i \in 1..(n - m + 1) : SubSeq(b, m, n)[i] = b[m + i - 1]
<1>1. \A i \in m..n : b[i] \in Bits
  <2>1. m..n \subseteq 1..Len(b)
    OBVIOUS
  <2> QED
    BY <2>1, ElementOfSeq
<1> QED
  BY <1>1, SubSeqProperties

LEMMA Lengths ==
  ASSUME StreamTyped
  PROVE  Len(Shape) \in {3, 5, 7} /\ LineEnd \in 3..7 /\ LineEnd <= Len(Shape)
<1>1. CASE reader = "openai"
  <2>1. Len(Shape) = 5 /\ LineEnd = 4
    BY <1>1, LineReaders
  <2> QED
    BY <2>1
<1>2. CASE reader \in {"anthropic", "http"}
  <2>1. Len(Shape) = 7 /\ LineEnd = 6
    BY <1>2, NamedReaders
  <2> QED
    BY <2>1
<1>3. CASE reader \in {"extension", "chat", "transcript"}
  <2>1. Len(Shape) = 5 /\ LineEnd = 5
    BY <1>3, BlockReaders
  <2> QED
    BY <2>1
<1>4. CASE reader = "stdio"
  <2>1. Len(Shape) = 3 /\ LineEnd = 3
    BY <1>4, StdioReader
  <2> QED
    BY <2>1
<1>5. \/ reader = "openai" \/ reader \in {"anthropic", "http"}
      \/ reader \in {"extension", "chat", "transcript"} \/ reader = "stdio"
  BY ReaderNames DEF StreamTyped
<1> QED
  BY <1>1, <1>2, <1>3, <1>4, <1>5, Zenon

LEMMA OverInOrder ==
  ASSUME StreamTyped, NEW k \in Int, NEW s \in Nat, NEW h \in Nat, h <= s, Over(s, k)
  PROVE  Over(h, k) /\ Over(h, k + 1)
<1>1. CASE Len(Shape) = 3
  BY <1>1, Lengths DEF Over
<1>2. CASE Len(Shape) = 5
  BY <1>2, Lengths DEF Over
<1>3. CASE Len(Shape) = 7
  BY <1>3, Lengths DEF Over
<1> QED
  BY <1>1, <1>2, <1>3, Lengths

\* The frame that the next unit ends.
EndsFrame(j, k) == (j - 1) * Len(Shape) + LineEnd = k

LEMMA OverNext ==
  ASSUME StreamTyped, NEW k \in Nat, NEW j \in Nat, EndsFrame(j, k + 1), NEW h \in Nat
  PROVE  (Over(h, k + 1) <=> Over(h, k) \/ h = j) /\ (Over(h, k) <=> h < j)
<1>1. CASE Len(Shape) = 3
  BY <1>1, Lengths DEF Over, EndsFrame
<1>2. CASE Len(Shape) = 5
  BY <1>2, Lengths DEF Over, EndsFrame
<1>3. CASE Len(Shape) = 7
  BY <1>3, Lengths DEF Over, EndsFrame
<1> QED
  BY <1>1, <1>2, <1>3, Lengths

LEMMA OverSame ==
  ASSUME StreamTyped, NEW k \in Nat, \A j \in DOMAIN frames : ~EndsFrame(j, k + 1), NEW h \in DOMAIN frames
  PROVE  Over(h, k + 1) <=> Over(h, k)
<1>1. h \in Nat
  BY KindsOfFrames
<1>2. (h - 1) * Len(Shape) + LineEnd \in Int
  <2>1. Len(Shape) \in Int /\ LineEnd \in Int
    BY Lengths
  <2> QED
    BY <1>1, <2>1
<1> QED
  BY <1>2 DEF Over, EndsFrame

\* Nothing changes with a unit that ends no frame, or after the end marker.
LEMMA GotStays ==
  ASSUME StreamTyped, NEW k \in Nat, NEW g, GotAll(g, k), \A j \in DOMAIN frames : ~EndsFrame(j, k + 1)
  PROVE  GotAll(g, k + 1) /\ (StoppedAt(k + 1) <=> StoppedAt(k))
BY OverSame DEF GotAll, StoppedAt

LEMMA StoppedStays ==
  ASSUME StreamTyped, NEW k \in Nat, NEW g, GotAll(g, k), StoppedAt(k)
  PROVE  GotAll(g, k + 1) /\ StoppedAt(k + 1)
<1>1. PICK s \in DOMAIN frames : Stops(s) /\ Over(s, k)
  BY DEF StoppedAt
<1>2. DOMAIN frames \subseteq Nat
  BY KindsOfFrames
<1>3. ASSUME NEW h \in DOMAIN frames, Wanted(h)
      PROVE  Over(h, k + 1) <=> Over(h, k)
  <2>1. h <= s
    <3>1. s \in 1..(h - 1) => ~Stops(s)
      BY <1>3 DEF Wanted
    <3>2. s \in Nat /\ s >= 1 /\ h \in Nat
      BY KindsOfFrames
    <3> QED
      BY <1>1, <3>1, <3>2
  <2>2. Over(h, k) /\ Over(h, k + 1)
    BY <1>1, <1>2, <2>1, OverInOrder
  <2> QED
    BY <2>2
<1>4. StoppedAt(k + 1)
  BY <1>1, <1>2, OverInOrder DEF StoppedAt
<1> QED
  BY <1>3, <1>4 DEF GotAll

\* What handing on a frame makes of a state, and that this is what it should be.
Handed(st, j, made) ==
  /\ made \in States /\ made.unread = st.unread
  /\ IF frames[j] \in Payload
     THEN \E clean \in BOOLEAN : /\ reader # "stdio" => clean
                                 /\ made.got = Append(st.got, [frame |-> j, clean |-> clean])
     ELSE made.got = st.got
  /\ made.outcome = IF Stops(j) THEN "stopped" ELSE "reading"

LEMMA GotGrows ==
  ASSUME StreamTyped, NEW k \in Nat, NEW st \in States, GotAll(st.got, k), ~StoppedAt(k),
         NEW j \in DOMAIN frames, EndsFrame(j, k + 1), NEW made, Handed(st, j, made)
  PROVE  GotAll(made.got, k + 1) /\ (made.outcome = "stopped" <=> StoppedAt(k + 1))
<1>1. DOMAIN frames \subseteq Nat /\ j \in Nat
  BY KindsOfFrames
<1>2. \A h \in DOMAIN frames : (Over(h, k + 1) <=> Over(h, k) \/ h = j) /\ (Over(h, k) <=> h < j)
  BY <1>1, OverNext
<1>3. \A h \in DOMAIN frames : h < j => ~Stops(h)
  BY <1>2 DEF StoppedAt
<1>4. StoppedAt(k + 1) <=> Stops(j)
  BY <1>2 DEF StoppedAt
<1>5. Wanted(j) <=> frames[j] \in Payload
  <2>1. \A h \in 1..(j - 1) : h \in DOMAIN frames /\ h < j
    BY KindsOfFrames
  <2> QED
    BY <1>3, <2>1 DEF Wanted
<1> DEFINE due(n) == {h \in DOMAIN frames : Wanted(h) /\ Over(h, n)}
<1>6. due(k + 1) = IF frames[j] \in Payload THEN due(k) \cup {j} ELSE due(k)
  BY <1>2, <1>5
<1>7. CASE frames[j] \notin Payload
  BY <1>4, <1>6, <1>7 DEF Handed, GotAll
<1>8. CASE frames[j] \in Payload
  <2>1. PICK clean \in BOOLEAN : /\ reader # "stdio" => clean
                                 /\ made.got = Append(st.got, [frame |-> j, clean |-> clean])
    BY <1>8 DEF Handed
  <2> DEFINE g == st.got  e == [frame |-> j, clean |-> clean]
  <2>2. g \in Seq(HandedOn) /\ Len(g) \in Nat /\ DOMAIN g = 1..Len(g)
    BY DEF States
  <2> HIDE DEF g
  <2>3. DOMAIN Append(g, e) = 1..(Len(g) + 1) /\ Append(g, e)[Len(g) + 1] = e
        /\ \A n \in DOMAIN g : Append(g, e)[n] = g[n]
    BY <2>2
  <2> DEFINE a == Append(g, e)
  <2> HIDE DEF a
  <2>4. DOMAIN a = DOMAIN g \cup {Len(g) + 1} /\ Len(g) + 1 \notin DOMAIN g /\ a[Len(g) + 1].frame = j
        /\ a[Len(g) + 1].clean = clean /\ \A n \in DOMAIN g : a[n] = g[n] /\ n < Len(g) + 1
    BY <2>2, <2>3 DEF a
  <2>5. {a[n].frame : n \in DOMAIN a} = {g[n].frame : n \in DOMAIN g} \cup {j}
    BY <2>4
  <2>6. {g[n].frame : n \in DOMAIN g} = due(k)
    BY DEF GotAll, g
  <2>7. \A n \in DOMAIN g : g[n].frame < j
    BY <1>2, <2>6
  <2>8. \A m, n \in DOMAIN a : m < n => a[m].frame < a[n].frame
    <3>1. \A m, n \in DOMAIN g : m < n => g[m].frame < g[n].frame
      BY DEF GotAll, g
    <3>2. \A m, n \in DOMAIN a : m < n => m \in DOMAIN g
      BY <2>2, <2>4
    <3> QED
      BY <2>4, <2>7, <3>1, <3>2
  <2>9. reader # "stdio" => \A n \in DOMAIN a : a[n].clean
    BY <2>1, <2>4 DEF GotAll, g
  <2>10. a = made.got
    BY <2>1 DEF a, g
  <2>11. {a[n].frame : n \in DOMAIN a} = due(k + 1)
    BY <1>6, <1>8, <2>5, <2>6
  <2>12. GotAll(a, k + 1)
    BY <2>8, <2>9, <2>11, Zenon DEF GotAll
  <2>13. made.outcome = "stopped" <=> StoppedAt(k + 1)
    BY <1>4 DEF Handed
  <2> QED
    BY <2>10, <2>12, <2>13
<1> QED
  BY <1>7, <1>8

\* A piece with the payload of one frame, and one without.
LEMMA HandsOn ==
  ASSUME StreamTyped, NEW st \in States, st.outcome = "reading", NEW piece, NEW p \in Seq(Bits),
         Payloads(piece) = {p}, IsWhole(p), reader # "stdio" => Clean(p),
         NEW j \in DOMAIN frames, p[1].frame = j
  PROVE  Handed(st, j, HandOn(piece, st))
<1>1. \A q \in Payloads(piece) : q = p
  OBVIOUS
<1>2. (CHOOSE q \in Payloads(piece) : TRUE) = p /\ ~\A q \in Payloads(piece) : ~IsWhole(q)
  OBVIOUS
<1>3. frames[j] \in {"event", "stray", "other", "malformed", "marker"} /\ j \in Nat
  BY KindsOfFrames
<1>4. Readers[reader].malformed = "skip" \/ frames[j] = "event"
  BY LineReaders, NamedReaders, BlockReaders, StdioReader, ReaderNames, TranscriptKinds DEF StreamTyped
<1>5. Clean(p) \in BOOLEAN
  BY DEF Clean
<1>6. CASE frames[j] \in Payload
  <2>1. HandOn(piece, st) = [st EXCEPT !.got = Append(@, [frame |-> j, clean |-> Clean(p)])]
    BY <1>2, <1>6 DEF HandOn, Payload
  <2>2. [frame |-> j, clean |-> Clean(p)] \in HandedOn
    BY <1>3, <1>5 DEF HandedOn
  <2>3. ~Stops(j)
    BY <1>6 DEF Stops, Payload
  <2> DEFINE e == [frame |-> j, clean |-> Clean(p)]  made == HandOn(piece, st)
  <2>4. made = [st EXCEPT !.got = Append(@, e)] /\ e \in HandedOn
    BY <2>1, <2>2
  <2> HIDE DEF made, e
  <2>5. made \in States /\ made.unread = st.unread /\ made.outcome = "reading" /\ made.got = Append(st.got, e)
    <3>1. Append(st.got, e) \in Seq(HandedOn) /\ made = WithGot(st, Append(st.got, e))
      BY <2>4, StatesAre, Sequences DEF WithGot
    <3> QED
      BY <3>1, NewGot
  <2>6. \E clean \in BOOLEAN : /\ reader # "stdio" => clean
                               /\ made.got = Append(st.got, [frame |-> j, clean |-> clean])
    BY <1>5, <2>5 DEF e
  <2> QED
    BY <1>6, <2>3, <2>5, <2>6 DEF Handed, made
<1>7. CASE frames[j] \notin Payload /\ Stops(j)
  <2>1. HandOn(piece, st) = [st EXCEPT !.outcome = "stopped"]
    BY <1>2, <1>4, <1>7 DEF HandOn, Stops, Payload
  <2> QED
    BY <1>7, <2>1 DEF Handed, States
<1>8. CASE frames[j] \notin Payload /\ ~Stops(j)
  <2>1. HandOn(piece, st) = st
    BY <1>2, <1>3, <1>4, <1>8 DEF HandOn, Stops, Payload
  <2> QED
    BY <1>8, <2>1 DEF Handed, States
<1> QED
  BY <1>6, <1>7, <1>8

LEMMA HandsNothingOn ==
  ASSUME NEW st, NEW piece, Payloads(piece) = {}
  PROVE  HandOn(piece, st) = st
BY DEF HandOn

-----------------------------------------------------------------------------
(* One unit more, for a reader that has taken in the first r units of the  *)
(* frame after the first i.                                                *)

Located(k, i, r) == Stands(k, i, r) /\ i + 1 \in DOMAIN frames

LEMMA NextLocated ==
  ASSUME StreamTyped, NEW k, NEW i, NEW r, Located(k, i, r)
  PROVE  /\ \A a, b : Stands(k, a, b) => a = i /\ b = r
         /\ \A a, b : Stands(k + 1, a, b) =>
              IF r + 1 = Len(Shape) THEN a = i + 1 /\ b = 0 ELSE a = i /\ b = r + 1
         /\ \A j \in Nat : EndsFrame(j, k + 1) <=> j = i + 1 /\ r + 1 = LineEnd
<1>1. CASE Len(Shape) = 3
  BY <1>1, Lengths DEF Located, Stands, EndsFrame
<1>2. CASE Len(Shape) = 5
  BY <1>2, Lengths DEF Located, Stands, EndsFrame
<1>3. CASE Len(Shape) = 7
  BY <1>3, Lengths DEF Located, Stands, EndsFrame
<1> QED
  BY <1>1, <1>2, <1>3, Lengths

\* A separator has just been read, or the frame is at its end.
AtCut(r) == r + 1 = Len(Shape) \/ Since(r + 1) = r + 1

Buffering(st, u, made, r) ==
  /\ made = WithUnread(st, Append(st.unread, u))
  /\ r + 1 < Len(Shape) /\ Since(r + 1) = Since(r) /\ r + 1 # LineEnd
Skipping(st, made, r) == made = WithUnread(st, <<>>) /\ AtCut(r) /\ r + 1 # LineEnd
Handing(st, made, i, r) ==
  Handed(WithUnread(st, <<>>), i + 1, made) /\ AtCut(r) /\ r + 1 = LineEnd

LEMMA SinceIs == \A r \in Nat : Since(r) \in Nat /\ Since(r) <= r /\ Since(0) = 0
BY DEF Since

LEMMA CutIsEmpty ==
  ASSUME StreamTyped, NEW k, NEW i, NEW r, Located(k, i, r), AtCut(r), NEW a, NEW b, Stands(k + 1, a, b)
  PROVE  Buffers(<<>>, a, b)
<1>1. Len(Shape) \in Nat /\ r \in Nat /\ b \in Nat
  BY Lengths DEF Located, Stands
<1>2. Since(b) = b
  <2>1. IF r + 1 = Len(Shape) THEN b = 0 ELSE b = r + 1
    BY NextLocated
  <2> QED
    BY <1>1, <2>1, SinceIs DEF AtCut
<1> QED
  BY <1>1, <1>2 DEF Buffers

LEMMA BufferGrows ==
  ASSUME StreamTyped, NEW i \in Nat, NEW r \in Nat, Since(r + 1) = Since(r),
         NEW buffer \in Seq(Bits), Buffers(buffer, i, r),
         NEW u \in Bits, CameFrom(u, Unit(i + 1, Shape[r + 1]))
  PROVE  Buffers(Append(buffer, u), i, r + 1)
<1>1. Since(r) \in Nat /\ Since(r) <= r
  BY SinceIs
<1> DEFINE s == Since(r)  a == Append(buffer, u)
<1>2. Len(buffer) = r - s /\ Len(a) = r + 1 - s /\ a[r + 1 - s] = u /\ \A n \in 1..(r - s) : a[n] = buffer[n]
  BY <1>1 DEF Buffers
<1>3. \A n \in 1..(r - s) : CameFrom(buffer[n], Unit(i + 1, Shape[s + n]))
  BY DEF Buffers
<1> HIDE DEF s, a
<1>4. s \in Nat /\ s <= r /\ s + (r + 1 - s) = r + 1
  BY <1>1 DEF s
<1>5. \A n \in 1..(r + 1 - s) : CameFrom(a[n], Unit(i + 1, Shape[s + n]))
  <2> SUFFICES ASSUME NEW n \in 1..(r + 1 - s) PROVE CameFrom(a[n], Unit(i + 1, Shape[s + n]))
    OBVIOUS
  <2>1. CASE n = r + 1 - s
    BY <1>2, <1>4, <2>1
  <2>2. CASE n # r + 1 - s
    <3>1. n \in 1..(r - s)
      BY <1>4, <2>2
    <3> QED
      BY <1>2, <1>3, <3>1
  <2> QED
    BY <2>1, <2>2
<1>6. Since(r + 1) = s /\ Len(a) = r + 1 - Since(r + 1)
  BY <1>2 DEF s
<1>7. \A n \in 1..(r + 1 - Since(r + 1)) : CameFrom(a[n], Unit(i + 1, Shape[Since(r + 1) + n]))
  <2> HIDE DEF Since, CameFrom, Unit, Shape
  <2> QED
    BY <1>5, <1>6
<1>8. Buffers(a, i, r + 1)
  <2>1. Since(r + 1) \in Nat
    BY SinceIs
  <2> QED
    BY <1>6, <1>7, <2>1 DEF Buffers
<1> QED
  BY <1>8 DEF a

LEMMA StepKeeps ==
  ASSUME StreamTyped, NEW k, NEW i, NEW r, Located(k, i, r), NEW st, ReadTo(st, k), st.outcome = "reading",
         NEW u \in Bits, CameFrom(u, Unit(i + 1, Shape[r + 1])), NEW made,
         Buffering(st, u, made, r) \/ Skipping(st, made, r) \/ Handing(st, made, i, r)
  PROVE  ReadTo(made, k + 1)
<1>1. st \in States /\ GotAll(st.got, k) /\ ~StoppedAt(k)
  BY DEF ReadTo
<1>2. k \in Nat /\ i \in Nat /\ r \in Nat /\ i + 1 \in DOMAIN frames
  BY Lengths DEF Located, Stands
<1>3. DOMAIN frames \subseteq Nat
  BY KindsOfFrames
<1>4. CASE r + 1 # LineEnd
  <2>1. \A j \in DOMAIN frames : ~EndsFrame(j, k + 1)
    BY <1>3, <1>4, NextLocated
  <2>2. GotAll(st.got, k + 1) /\ ~StoppedAt(k + 1)
    BY <1>1, <1>2, <2>1, GotStays
  <2>3. CASE Buffering(st, u, made, r)
    <3>1. made = WithUnread(st, Append(st.unread, u))
      BY <2>3 DEF Buffering
    <3>2. made \in States /\ made.got = st.got /\ made.outcome = "reading" /\ made.unread = Append(st.unread, u)
      <4>1. Append(st.unread, u) \in Seq(Bits)
        BY <1>1, StatesAre, Sequences
      <4> QED
        BY <1>1, <3>1, <4>1, NewUnread
    <3>3. Buffers(st.unread, i, r)
      BY DEF ReadTo, Located
    <3>4. Buffers(made.unread, i, r + 1)
      BY <1>1, <1>2, <2>3, <3>2, <3>3, BufferGrows DEF Buffering, States
    <3>5. \A a, b : Stands(k + 1, a, b) => Buffers(made.unread, a, b)
      BY <2>3, <3>4, NextLocated DEF Buffering
    <3> QED
      BY <2>2, <3>2, <3>5 DEF ReadTo
  <2>4. CASE Skipping(st, made, r)
    <3>1. made = WithUnread(st, <<>>)
      BY <2>4 DEF Skipping
    <3>2. made \in States /\ made.got = st.got /\ made.outcome = "reading" /\ made.unread = <<>>
      <4>1. <<>> \in Seq(Bits)
        BY Sequences
      <4> QED
        BY <1>1, <3>1, <4>1, NewUnread
    <3>3. \A a, b : Stands(k + 1, a, b) => Buffers(made.unread, a, b)
      BY <2>4, <3>2, CutIsEmpty DEF Skipping
    <3> QED
      BY <2>2, <3>2, <3>3 DEF ReadTo
  <2> QED
    BY <1>4, <2>3, <2>4 DEF Handing
<1>5. CASE r + 1 = LineEnd
  <2>1. Handing(st, made, i, r)
    BY <1>5 DEF Buffering, Skipping
  <2> DEFINE emptied == WithUnread(st, <<>>)
  <2>2. emptied \in States /\ emptied.got = st.got /\ emptied.unread = <<>>
    BY <1>1, Sequences, NewUnread
  <2> HIDE DEF emptied
  <2>3. Handed(emptied, i + 1, made)
    BY <2>1 DEF Handing, emptied
  <2>4. EndsFrame(i + 1, k + 1)
    BY <1>2, <1>3, <1>5, NextLocated
  <2>5. GotAll(made.got, k + 1) /\ (made.outcome = "stopped" <=> StoppedAt(k + 1))
    BY <1>1, <1>2, <2>2, <2>3, <2>4, GotGrows
  <2>6. made \in States /\ made.unread = <<>>
    BY <2>2, <2>3 DEF Handed
  <2>7. \A a, b : Stands(k + 1, a, b) => Buffers(made.unread, a, b)
    BY <2>1, <2>6, CutIsEmpty DEF Handing
  <2> QED
    BY <2>5, <2>6, <2>7 DEF ReadTo
<1> QED
  BY <1>4, <1>5

LEMMA StoppedStep ==
  ASSUME StreamTyped, NEW k \in Nat, NEW st, ReadTo(st, k), st.outcome # "reading", NEW u \in Bits
  PROVE  ReadTo(TakeIn(st, u), k + 1)
<1>1. TakeIn(st, u) = WithUnread(st, Append(st.unread, u))
  BY DEF TakeIn, WithUnread
<1>2. st \in States /\ GotAll(st.got, k) /\ st.outcome = "stopped" /\ StoppedAt(k)
  BY DEF ReadTo, States
<1> DEFINE made == TakeIn(st, u)
<1> HIDE DEF made
<1>3. made \in States /\ made.got = st.got /\ made.outcome = "stopped"
  <2>1. Append(st.unread, u) \in Seq(Bits)
    BY <1>2, StatesAre, Sequences
  <2>2. made = WithUnread(st, Append(st.unread, u))
    BY <1>1 DEF made
  <2> QED
    BY <1>2, <2>1, <2>2, NewUnread
<1>4. GotAll(st.got, k + 1) /\ StoppedAt(k + 1)
  BY <1>2, StoppedStays
<1> QED
  BY <1>3, <1>4 DEF ReadTo, made

-----------------------------------------------------------------------------
(* What each family of readers makes of each unit of a frame.              *)

LEMMA TakesIn ==
  ASSUME NEW st \in States, st.outcome = "reading", NEW u \in Bits
  PROVE  LET b == Append(st.unread, u)  ends == Readers[reader].ends IN
         /\ ~EndsPiece(b, ends) => TakeIn(st, u) = WithUnread(st, b)
         /\ EndsPiece(b, ends) =>
              TakeIn(st, u) = HandOn(SubSeq(b, 1, Len(b) - Len(ends)), WithUnread(st, <<>>))
BY DEF TakeIn, WithUnread

\* Readers of lines: a line feed completes the piece.
LEMMA LineTaken ==
  ASSUME NEW st \in States, st.outcome = "reading", NEW u \in Bits, Readers[reader].ends = Lines
  PROVE  /\ u.part # "nl" => TakeIn(st, u) = WithUnread(st, Append(st.unread, u))
         /\ u.part = "nl" => TakeIn(st, u) = HandOn(st.unread, WithUnread(st, <<>>))
<1> DEFINE b == Append(st.unread, u)
<1>1. st.unread \in Seq(Bits)
  BY StatesAre
<1>2. Len(b) = Len(st.unread) + 1 /\ b[Len(st.unread) + 1] = u /\ Len(st.unread) \in Nat
  BY <1>1
<1>3. Len(Lines) = 1 /\ DOMAIN Lines = {1} /\ Lines[1] = "nl"
  BY DEF Lines
<1>4. SubSeq(b, 1, Len(b) - Len(Lines)) = st.unread
  BY <1>1, <1>2, <1>3
<1> HIDE DEF b
<1>5. EndsPiece(b, Lines) <=> u.part = "nl"
  BY <1>2, <1>3 DEF EndsPiece
<1> QED
  BY <1>4, <1>5, TakesIn DEF b

\* Readers of blocks: only the second of two line feeds does.
LEMMA BlockTaken ==
  ASSUME NEW st \in States, st.outcome = "reading", NEW u \in Bits, Readers[reader].ends = Blocks
  PROVE  LET n == Len(st.unread)  ends == n >= 1 /\ st.unread[n].part = "nl" /\ u.part = "nl" IN
         /\ ~ends => TakeIn(st, u) = WithUnread(st, Append(st.unread, u))
         /\ ends => TakeIn(st, u) = HandOn(SubSeq(st.unread, 1, n - 1), WithUnread(st, <<>>))
<1> DEFINE b == Append(st.unread, u)  n == Len(st.unread)
<1>1. st.unread \in Seq(Bits)
  BY StatesAre
<1>2. n \in Nat /\ Len(b) = n + 1 /\ b[n + 1] = u /\ \A h \in 1..n : b[h] = st.unread[h]
  BY <1>1
<1>3. Len(Blocks) = 2 /\ DOMAIN Blocks = {1, 2} /\ Blocks[1] = "nl" /\ Blocks[2] = "nl"
  BY DEF Blocks
<1>4. n >= 1 => SubSeq(b, 1, Len(b) - Len(Blocks)) = SubSeq(st.unread, 1, n - 1)
  BY <1>1, <1>2, <1>3
<1> HIDE DEF b, n
<1>5. EndsPiece(b, Blocks) <=> n >= 1 /\ st.unread[n].part = "nl" /\ u.part = "nl"
  BY <1>2, <1>3 DEF EndsPiece
<1> QED
  BY <1>4, <1>5, TakesIn DEF b, n

\* The payload of a line, or of the one line of a block.
LEMMA PayloadOf ==
  ASSUME reader # "stdio", NEW piece \in Seq(Bits), Len(piece) = 3, piece[1].part = "data",
         piece[2].part = "lead", piece[3].part = "trail"
  PROVE  Payloads(piece) = {SubSeq(piece, 2, 3)}
<1>1. DOMAIN piece = {1, 2, 3}
  BY DEF Bits
<1>2. {n \in DOMAIN piece : piece[n].part = "data" /\ n + 2 <= Len(piece)} = {1}
  BY <1>1
<1>3. Payloads(piece) = {SubSeq(piece, n + 1, n + 2) : n \in {1}}
  BY <1>2 DEF Payloads
<1> QED
  BY <1>3

LEMMA NoPayload ==
  ASSUME NEW piece, IF reader = "stdio" THEN piece = <<>>
                    ELSE \A n \in DOMAIN piece : piece[n].part = "data" => ~(n + 2 <= Len(piece))
  PROVE  Payloads(piece) = {}
BY DEF Payloads

LEMMA HandsPayloadOn ==
  ASSUME StreamTyped, reader # "stdio", NEW st \in States, st.outcome = "reading",
         NEW i \in Nat, i + 1 \in DOMAIN frames,
         NEW piece \in Seq(Bits), Len(piece) = 3, \A n \in 1..3 : CameFrom(piece[n], Unit(i + 1, DataLine[n]))
  PROVE  Handed(st, i + 1, HandOn(piece, st))
<1>1. piece[1].part = "data" /\ piece[2].part = "lead" /\ piece[3].part = "trail"
      /\ piece[2].frame = i + 1 /\ piece[3].frame = i + 1
  <2>1. CameFrom(piece[1], Unit(i + 1, "data")) /\ CameFrom(piece[2], Unit(i + 1, "lead"))
        /\ CameFrom(piece[3], Unit(i + 1, "trail"))
    BY DEF DataLine
  <2> QED
    BY <2>1 DEF CameFrom, Unit
<1> DEFINE p == SubSeq(piece, 2, 3)
<1>2. p \in Seq(Bits) /\ Len(p) = 2 /\ p[1] = piece[2] /\ p[2] = piece[3]
  <2>1. p \in Seq(Bits) /\ Len(p) = 2 /\ \A n \in 1..2 : p[n] = piece[2 + n - 1]
    <3>1. piece \in Seq(Bits) /\ Len(piece) = 3
      OBVIOUS
    <3>2. p \in Seq(Bits) /\ Len(p) = 3 - 2 + 1
      BY ONLY <3>1, PieceOf
    <3>3. \A n \in 1..(3 - 2 + 1) : p[n] = piece[2 + n - 1]
      BY ONLY <3>1, PieceOf
    <3> QED
      BY <3>2, <3>3
  <2> QED
    BY <2>1
<1>3. Payloads(piece) = {p}
  BY <1>1, PayloadOf
<1> HIDE DEF p
<1>4. IsWhole(p) /\ Clean(p) /\ p[1].frame = i + 1
  BY <1>1, <1>2 DEF IsWhole, Clean
<1> QED
  BY <1>2, <1>3, <1>4, HandsOn

\* One unit of a frame does one of three things.
ReadsOn(st, u, i, r) ==
  LET made == TakeIn(st, u)
  IN  Buffering(st, u, made, r) \/ Skipping(st, made, r) \/ Handing(st, made, i, r)

LEMMA LineMoves ==
  ASSUME StreamTyped, reader = "openai", NEW i \in Nat, i + 1 \in DOMAIN frames, NEW r \in 0..4,
         NEW st \in States, st.outcome = "reading", Buffers(st.unread, i, r),
         NEW u \in Bits, CameFrom(u, Unit(i + 1, DataLine[r + 1]))
  PROVE  ReadsOn(st, u, i, r)
<1> DEFINE b == st.unread  emptied == WithUnread(st, <<>>)
<1>1. Shape = DataLine /\ Len(Shape) = 5 /\ LineEnd = 4 /\ Readers[reader].ends = Lines
  BY LineReaders
<1>2. b \in Seq(Bits) /\ emptied \in States /\ emptied.outcome = "reading"
  BY StatesAre, NewUnread, Sequences
<1>3. \A n \in Nat : Since(n) = IF n >= 4 THEN 4 ELSE 0
  BY DEF Since
<1>4. u.part = DataLine[r + 1]
  BY DEF CameFrom, Unit
<1>5. /\ u.part # "nl" => TakeIn(st, u) = WithUnread(st, Append(b, u))
      /\ u.part = "nl" => TakeIn(st, u) = HandOn(b, emptied)
  BY <1>1, LineTaken
<1>6. Len(b) = r - Since(r) /\ \A n \in 1..(r - Since(r)) : CameFrom(b[n], Unit(i + 1, DataLine[Since(r) + n]))
  BY <1>1 DEF Buffers
<1> HIDE DEF b, emptied
<1>7. CASE r \in 0..2
  <2>1. u.part # "nl" /\ Since(r + 1) = Since(r)
    BY <1>3, <1>4, <1>7 DEF DataLine
  <2> QED
    BY <1>1, <1>5, <1>7, <2>1 DEF ReadsOn, Buffering, b
<1>8. CASE r = 3
  <2>1. u.part = "nl" /\ Since(4) = 4 /\ Since(3) = 0
    BY <1>3, <1>4, <1>8 DEF DataLine
  <2>2. Len(b) = 3 /\ \A n \in 1..3 : CameFrom(b[n], Unit(i + 1, DataLine[n]))
    BY <1>6, <1>8, <2>1
  <2>3. Handed(emptied, i + 1, HandOn(b, emptied))
    BY <1>2, <2>2, HandsPayloadOn
  <2> QED
    BY <1>1, <1>5, <1>8, <2>1, <2>3 DEF ReadsOn, Handing, AtCut, emptied
<1>9. CASE r = 4
  <2>1. u.part = "nl" /\ Since(4) = 4
    BY <1>3, <1>4, <1>9 DEF DataLine
  <2>2. Len(b) = 0
    BY <1>6, <1>9, <2>1
  <2>3. HandOn(b, emptied) = emptied
    <3>1. \A k \in DOMAIN b : ~(k + 2 <= Len(b))
      BY <1>2, <2>2
    <3>2. Payloads(b) = {}
      BY <3>1, NoPayload
    <3> QED
      BY <3>2, HandsNothingOn
  <2> QED
    BY <1>1, <1>5, <1>9, <2>1, <2>3 DEF ReadsOn, Skipping, AtCut, emptied
<1> QED
  BY <1>7, <1>8, <1>9

LEMMA NamedMoves ==
  ASSUME StreamTyped, reader \in {"anthropic", "http"}, NEW i \in Nat, i + 1 \in DOMAIN frames, NEW r \in 0..6,
         NEW st \in States, st.outcome = "reading", Buffers(st.unread, i, r),
         NEW u \in Bits, CameFrom(u, Unit(i + 1, NamedData[r + 1]))
  PROVE  ReadsOn(st, u, i, r)
<1> DEFINE b == st.unread  emptied == WithUnread(st, <<>>)
<1>1. Shape = NamedData /\ Len(Shape) = 7 /\ LineEnd = 6 /\ Readers[reader].ends = Lines
  BY NamedReaders
<1>2. b \in Seq(Bits) /\ emptied \in States /\ emptied.outcome = "reading"
  BY StatesAre, NewUnread, Sequences
<1>3. \A n \in Nat : Since(n) = IF n >= 6 THEN 6 ELSE IF n >= 2 THEN 2 ELSE 0
  BY DEF Since
<1>4. u.part = NamedData[r + 1] /\ reader # "stdio"
  BY DEF CameFrom, Unit
<1>5. /\ u.part # "nl" => TakeIn(st, u) = WithUnread(st, Append(b, u))
      /\ u.part = "nl" => TakeIn(st, u) = HandOn(b, emptied)
  BY <1>1, LineTaken
<1>6. Len(b) = r - Since(r) /\ \A n \in 1..(r - Since(r)) : CameFrom(b[n], Unit(i + 1, NamedData[Since(r) + n]))
  BY <1>1 DEF Buffers
<1> HIDE DEF b, emptied
<1>7. CASE r \in {0, 2, 3, 4}
  <2>1. u.part # "nl" /\ Since(r + 1) = Since(r)
    BY <1>3, <1>4, <1>7 DEF NamedData
  <2> QED
    BY <1>1, <1>5, <1>7, <2>1 DEF ReadsOn, Buffering, b
<1>8. CASE r = 1
  <2>1. u.part = "nl" /\ Since(2) = 2 /\ Since(1) = 0
    BY <1>3, <1>4, <1>8 DEF NamedData
  <2>2. Len(b) = 1 /\ CameFrom(b[1], Unit(i + 1, "name"))
    BY <1>6, <1>8, <2>1 DEF NamedData
  <2>3. \A n \in DOMAIN b : b[n].part # "data"
    BY <1>2, <1>4, <2>2 DEF CameFrom, Unit
  <2>4. HandOn(b, emptied) = emptied
    BY <1>4, <2>3, NoPayload, HandsNothingOn
  <2> QED
    BY <1>1, <1>5, <1>8, <2>1, <2>4 DEF ReadsOn, Skipping, AtCut, emptied
<1>9. CASE r = 5
  <2>1. u.part = "nl" /\ Since(6) = 6 /\ Since(5) = 2
    BY <1>3, <1>4, <1>9 DEF NamedData
  <2>2. Len(b) = 3 /\ \A n \in 1..3 : CameFrom(b[n], Unit(i + 1, NamedData[2 + n]))
    BY <1>6, <1>9, <2>1
  <2>3. \A n \in 1..3 : NamedData[2 + n] = DataLine[n]
    BY DEF NamedData, DataLine
  <2>4. Handed(emptied, i + 1, HandOn(b, emptied))
    BY <1>2, <1>4, <2>2, <2>3, HandsPayloadOn
  <2> QED
    BY <1>1, <1>5, <1>9, <2>1, <2>4 DEF ReadsOn, Handing, AtCut, emptied
<1>10. CASE r = 6
  <2>1. u.part = "nl" /\ Since(6) = 6
    BY <1>3, <1>4, <1>10 DEF NamedData
  <2>2. Len(b) = 0
    BY <1>6, <1>10, <2>1
  <2>3. HandOn(b, emptied) = emptied
    BY <1>2, <1>4, <2>2, NoPayload, HandsNothingOn
  <2> QED
    BY <1>1, <1>5, <1>10, <2>1, <2>3 DEF ReadsOn, Skipping, AtCut, emptied
<1> QED
  BY <1>7, <1>8, <1>9, <1>10

LEMMA BlockMoves ==
  ASSUME StreamTyped, reader \in {"extension", "chat", "transcript"}, NEW i \in Nat, i + 1 \in DOMAIN frames,
         NEW r \in 0..4, NEW st \in States, st.outcome = "reading", Buffers(st.unread, i, r),
         NEW u \in Bits, CameFrom(u, Unit(i + 1, DataLine[r + 1]))
  PROVE  ReadsOn(st, u, i, r)
<1> DEFINE b == st.unread  emptied == WithUnread(st, <<>>)
           ends == Len(b) >= 1 /\ b[Len(b)].part = "nl" /\ u.part = "nl"
<1>1. Shape = DataLine /\ Len(Shape) = 5 /\ LineEnd = 5 /\ Readers[reader].ends = Blocks
  BY BlockReaders
<1>2. b \in Seq(Bits) /\ emptied \in States /\ emptied.outcome = "reading"
  BY StatesAre, NewUnread, Sequences
<1>3. \A n \in Nat : Since(n) = 0
  BY DEF Since
<1>4. u.part = DataLine[r + 1] /\ reader # "stdio"
  BY DEF CameFrom, Unit
<1>5. /\ ~ends => TakeIn(st, u) = WithUnread(st, Append(b, u))
      /\ ends => TakeIn(st, u) = HandOn(SubSeq(b, 1, Len(b) - 1), emptied)
  BY <1>1, BlockTaken
<1>6. Len(b) = r /\ \A n \in 1..r : CameFrom(b[n], Unit(i + 1, DataLine[n]))
  BY <1>1, <1>3 DEF Buffers
<1>7. \A n \in 1..r : b[n].part = DataLine[n]
  BY <1>4, <1>6 DEF CameFrom, Unit
<1> HIDE DEF b, emptied
<1>8. CASE r \in 0..3
  <2>1. ~ends
    BY <1>4, <1>6, <1>7, <1>8 DEF DataLine
  <2> QED
    BY <1>1, <1>3, <1>5, <1>8, <2>1 DEF ReadsOn, Buffering, b
<1>9. CASE r = 4
  <2>1. ends
    BY <1>4, <1>6, <1>7, <1>9 DEF DataLine
  <2> DEFINE piece == SubSeq(b, 1, Len(b) - 1)
  <2>2. piece \in Seq(Bits) /\ Len(piece) = 3 /\ \A n \in 1..3 : piece[n] = b[n]
    <3>1. Len(b) = 4
      BY <1>6, <1>9
    <3>2. SubSeq(b, 1, 3) \in Seq(Bits) /\ Len(SubSeq(b, 1, 3)) = 3
          /\ \A n \in 1..3 : SubSeq(b, 1, 3)[n] = b[1 + n - 1]
      <4> DEFINE c == SubSeq(b, 1, 3)
      <4>1. 1 \in 1..(Len(b) + 1) /\ 3 \in (1 - 1)..Len(b)
        BY <3>1
      <4>2. c \in Seq(Bits) /\ Len(c) = 3 - 1 + 1
        BY <1>2, <4>1, PieceOf
      <4>3. \A n \in 1..(3 - 1 + 1) : c[n] = b[1 + n - 1]
        BY <1>2, <4>1, PieceOf
      <4> QED
        BY <4>2, <4>3
    <3> QED
      BY <3>1, <3>2
  <2> HIDE DEF piece
  <2>3. Handed(emptied, i + 1, HandOn(piece, emptied))
    BY <1>2, <1>4, <1>6, <1>9, <2>2, HandsPayloadOn
  <2> QED
    BY <1>1, <1>5, <1>9, <2>1, <2>3 DEF ReadsOn, Handing, AtCut, emptied, piece
<1> QED
  BY <1>8, <1>9

LEMMA StdioMoves ==
  ASSUME StreamTyped, reader = "stdio", NEW i \in Nat, i + 1 \in DOMAIN frames,
         NEW r \in 0..2, NEW st \in States, st.outcome = "reading", Buffers(st.unread, i, r),
         NEW u \in Bits, CameFrom(u, Unit(i + 1, Shape[r + 1]))
  PROVE  ReadsOn(st, u, i, r)
<1> DEFINE b == st.unread  emptied == WithUnread(st, <<>>)
<1>1. Shape = <<"lead", "trail", "nl">> /\ Len(Shape) = 3 /\ LineEnd = 3 /\ Readers[reader].ends = Lines
  BY StdioReader
<1>2. b \in Seq(Bits) /\ emptied \in States /\ emptied.outcome = "reading"
  BY StatesAre, NewUnread, Sequences
<1>3. \A n \in Nat : Since(n) = 0
  BY DEF Since
<1>4. u.part = "nl" <=> r = 2
  BY <1>1 DEF CameFrom, Unit
<1>5. /\ u.part # "nl" => TakeIn(st, u) = WithUnread(st, Append(b, u))
      /\ u.part = "nl" => TakeIn(st, u) = HandOn(b, emptied)
  BY <1>1, LineTaken
<1>6. Len(b) = r /\ \A n \in 1..r : b[n].frame = i + 1
  BY <1>3 DEF Buffers, CameFrom, Unit
<1> HIDE DEF b, emptied
<1>7. CASE r \in 0..1
  BY <1>1, <1>3, <1>4, <1>5, <1>7 DEF ReadsOn, Buffering, b
<1>8. CASE r = 2
  <2>1. Payloads(b) = {b} /\ IsWhole(b) /\ b[1].frame = i + 1
    <3>1. Len(b) = 2 /\ b[1].frame = i + 1 /\ b[2].frame = i + 1
      BY <1>6, <1>8
    <3>2. b # <<>>
      <4>1. ASSUME b = <<>> PROVE FALSE
        BY <3>1, <4>1
      <4> QED
        BY <4>1
    <3> QED
      BY <3>1, <3>2 DEF Payloads, IsWhole
  <2>2. Handed(emptied, i + 1, HandOn(b, emptied))
    BY <1>2, <2>1, HandsOn
  <2> QED
    BY <1>1, <1>4, <1>5, <1>8, <2>2 DEF ReadsOn, Handing, AtCut, emptied
<1> QED
  BY <1>7, <1>8

\* One unit more, for any reader.
LEMMA OneUnit ==
  ASSUME StreamTyped, NEW k \in Nat, k + 1 \in DOMAIN Sent, NEW st, ReadTo(st, k),
         NEW u \in Bits, CameFrom(u, Sent[k + 1])
  PROVE  ReadTo(TakeIn(st, u), k + 1)
<1>1. CASE st.outcome # "reading"
  BY <1>1, StoppedStep
<1>2. CASE st.outcome = "reading"
  <2>1. PICK i \in Nat, r \in 0..(Len(Shape) - 1) :
          k = i * Len(Shape) + r /\ k \div Len(Shape) = i /\ k % Len(Shape) = r
    BY Position, Lengths
  <2>2. i + 1 \in DOMAIN frames
    <3>1. PICK n \in Nat : DOMAIN frames = 1..n /\ Len(frames) = n
      BY KindsOfFrames
    <3>2. k + 1 <= n * Len(Shape)
      BY <3>1 DEF Sent
    <3>3. CASE Len(Shape) = 3
      BY <2>1, <3>1, <3>2, <3>3
    <3>4. CASE Len(Shape) = 5
      BY <2>1, <3>1, <3>2, <3>4
    <3>5. CASE Len(Shape) = 7
      BY <2>1, <3>1, <3>2, <3>5
    <3> QED
      BY <3>3, <3>4, <3>5, Lengths
  <2>3. Located(k, i, r)
    BY <2>1, <2>2 DEF Located, Stands
  <2>4. Sent[k + 1] = Unit(i + 1, Shape[r + 1])
    <3>1. Sent[k + 1] = UnitAt(k + 1)
      BY DEF Sent
    <3>2. (k + 1) - 1 = k
      OBVIOUS
    <3> QED
      BY <2>1, <3>1, <3>2 DEF UnitAt
  <2>5. CameFrom(u, Unit(i + 1, Shape[r + 1]))
    BY <2>4
  <2>6. st \in States /\ Buffers(st.unread, i, r)
    BY <1>2, <2>3 DEF ReadTo, Located
  <2>7. ReadsOn(st, u, i, r)
    <3>1. CASE reader = "openai"
      <4>1. Shape = DataLine /\ r \in 0..4
        <5>1. Shape = DataLine /\ Len(Shape) = 5
          BY <3>1, LineReaders
        <5>2. r \in 0..(Len(Shape) - 1)
          OBVIOUS
        <5> QED
          BY <5>1, <5>2
      <4> QED
        BY <1>2, <2>2, <2>5, <2>6, <3>1, <4>1, LineMoves
    <3>2. CASE reader \in {"anthropic", "http"}
      <4>1. Shape = NamedData /\ r \in 0..6
        <5>1. Shape = NamedData /\ Len(Shape) = 7
          BY <3>2, NamedReaders
        <5>2. r \in 0..(Len(Shape) - 1)
          OBVIOUS
        <5> QED
          BY <5>1, <5>2
      <4> QED
        BY <1>2, <2>2, <2>5, <2>6, <3>2, <4>1, NamedMoves
    <3>3. CASE reader \in {"extension", "chat", "transcript"}
      <4>1. Shape = DataLine /\ r \in 0..4
        <5>1. Shape = DataLine /\ Len(Shape) = 5
          BY <3>3, BlockReaders
        <5>2. r \in 0..(Len(Shape) - 1)
          OBVIOUS
        <5> QED
          BY <5>1, <5>2
      <4> QED
        BY <1>2, <2>2, <2>5, <2>6, <3>3, <4>1, BlockMoves
    <3>4. CASE reader = "stdio"
      <4>1. r \in 0..2
        <5>1. Len(Shape) = 3
          BY <3>4, StdioReader
        <5>2. r \in 0..(Len(Shape) - 1)
          OBVIOUS
        <5> QED
          BY <5>1, <5>2
      <4> QED
        BY <1>2, <2>2, <2>5, <2>6, <3>4, <4>1, StdioMoves
    <3> QED
      BY <3>1, <3>2, <3>3, <3>4, ReaderNames DEF StreamTyped
  <2> QED
    BY <1>2, <2>3, <2>5, <2>7, StepKeeps DEF ReadsOn
<1> QED
  BY <1>1, <1>2

-----------------------------------------------------------------------------
(* A chunk, the end of the stream, and the theorem.                        *)

LEMMA DrainIs ==
  \A units, st : Drain(units, st) = Folded([fold |-> "frame"], st, units)
BY DEF Drain, FoldLeft, MapThenFoldSet, Folded, Folds, Gather

LEMMA DrainRuns ==
  \A units \in Seq(Bits) : \A st :
    \E g : /\ g[0] = st /\ Drain(units, st) = g[Len(units)]
           /\ \A m \in 1..Len(units) : g[m] = TakeIn(g[m - 1], units[m])
<1> TAKE units \in Seq(Bits)
<1> TAKE st
<1> DEFINE how == [fold |-> "frame"]
<1>1. DOMAIN units = 1..Len(units) /\ Len(units) \in Nat
  OBVIOUS
<1>2. \A acc, x : Gather(how, acc, x) = TakeIn(acc, x)
  BY DEF Gather
<1> HIDE DEF how
<1>3. PICK g : Runs(g, how, st, units, Len(units)) /\ Folded(how, st, units) = g[Len(units)]
  BY <1>1, FoldedRuns
<1>4. Drain(units, st) = g[Len(units)]
  BY <1>3, DrainIs DEF how
<1> QED
  BY <1>2, <1>3, <1>4 DEF Runs

\* Wherever the stream is cut: what a chunk makes of a state is what its units make of it.
LEMMA RunKeeps ==
  ASSUME StreamTyped, NEW k \in Nat, NEW n \in Nat, k + n <= Len(Sent), NEW units \in Seq(Bits), n <= Len(units),
         \A m \in 1..n : CameFrom(units[m], Sent[k + m]),
         NEW g, ReadTo(g[0], k), \A m \in 1..Len(units) : g[m] = TakeIn(g[m - 1], units[m])
  PROVE  ReadTo(g[n], k + n)
<1> DEFINE T == {m \in 0..n : ReadTo(g[m], k + m)}
<1>0. Len(Sent) \in Nat /\ DOMAIN Sent = 1..Len(Sent)
  <2>1. PICK c \in Nat : Len(frames) = c
    BY KindsOfFrames
  <2>2. c * Len(Shape) \in Nat
    <3>1. Len(Shape) \in Nat
      BY Lengths
    <3> QED
      BY <3>1
  <2> QED
    BY <2>1, <2>2 DEF Sent
<1>1. 0 \in T
  BY k + 0 = k
<1>2. ASSUME NEW m \in 1..n, m - 1 \in T
      PROVE  m \in T
  <2>1. m - 1 \in Nat /\ m \in 1..Len(units) /\ k + (m - 1) \in Nat /\ (k + (m - 1)) + 1 = k + m /\ m \in 0..n
    OBVIOUS
  <2>2. k + m \in DOMAIN Sent
    BY <1>0, <2>1
  <2>3. units[m] \in Bits /\ CameFrom(units[m], Sent[k + m]) /\ g[m] = TakeIn(g[m - 1], units[m])
    BY <2>1
  <2>4. ReadTo(g[m - 1], k + (m - 1))
    BY <1>2
  <2>5. ReadTo(TakeIn(g[m - 1], units[m]), (k + (m - 1)) + 1)
    BY <2>1, <2>2, <2>3, <2>4, OneUnit
  <2> QED
    BY <2>1, <2>3, <2>5
<1> HIDE DEF T
<1>3. \A m \in 0..n : m \in T
  BY <1>1, <1>2, StepByStep
<1>4. n \in T
  BY <1>3
<1> QED
  BY <1>4 DEF T

LEMMA SentIs ==
  ASSUME StreamTyped
  PROVE  /\ Sent \in Seq(Bits) /\ Len(Sent) = Len(frames) * Len(Shape) /\ Len(Sent) \in Nat
         /\ \A k \in 1..Len(Sent) : Sent[k].part \in {"name", "nl", "data", "lead", "trail"}
<1>1. PICK c \in Nat : Len(frames) = c
  BY KindsOfFrames
<1>2. c * Len(Shape) \in Nat
  <2>1. Len(Shape) \in Nat
    BY Lengths
  <2> QED
    BY <2>1
<1>3. \A r \in 1..Len(Shape) : Shape[r] \in {"name", "nl", "data", "lead", "trail"}
  <2>1. CASE reader = "openai" \/ reader \in {"extension", "chat", "transcript"}
    BY <2>1, LineReaders, BlockReaders DEF DataLine
  <2>2. CASE reader \in {"anthropic", "http"}
    BY <2>2, NamedReaders DEF NamedData
  <2>3. CASE reader = "stdio"
    <3>1. Shape = <<"lead", "trail", "nl">> /\ Len(Shape) = 3
      BY <2>3, StdioReader
    <3>2. Shape[1] = "lead" /\ Shape[2] = "trail" /\ Shape[3] = "nl" /\ 1..Len(Shape) = {1, 2, 3}
      BY <3>1
    <3> QED
      BY <3>2
  <2> QED
    BY <2>1, <2>2, <2>3, ReaderNames DEF StreamTyped
<1>4. ASSUME NEW k \in 1..(c * Len(Shape))
      PROVE  UnitAt(k) \in Bits /\ UnitAt(k).part \in {"name", "nl", "data", "lead", "trail"}
  <2>1. k - 1 \in Nat
    BY <1>2
  <2>2. PICK i \in Nat, r \in 0..(Len(Shape) - 1) : (k - 1) \div Len(Shape) = i /\ (k - 1) % Len(Shape) = r
    BY <2>1, Position, Lengths
  <2>3. UnitAt(k) = [frame |-> i + 1, part |-> Shape[r + 1]]
    BY <2>2 DEF UnitAt, Unit
  <2>4. r + 1 \in 1..Len(Shape)
    BY <2>2, Lengths
  <2>5. Shape[r + 1] \in {"name", "nl", "data", "lead", "trail"}
    BY <1>3, <2>4
  <2> QED
    <3>1. i + 1 \in Nat
      OBVIOUS
    <3> QED
      BY <2>3, <2>5, <3>1 DEF Bits
<1>5. Sent = [k \in 1..(c * Len(Shape)) |-> UnitAt(k)]
  BY <1>1 DEF Sent
<1> DEFINE l == c * Len(Shape)
<1> HIDE DEF l
<1>6. l \in Nat /\ Sent = [k \in 1..l |-> UnitAt(k)] /\ \A k \in 1..l : UnitAt(k) \in Bits
  BY <1>2, <1>4, <1>5 DEF l
<1>7. Sent \in Seq(Bits) /\ Len(Sent) = l
  BY <1>6
<1> QED
  BY <1>1, <1>4, <1>6, <1>7 DEF l

LEMMA DecodedUnits ==
  ASSUME StreamTyped, NEW a \in Nat, NEW n \in Nat, n >= 1, a + n <= Len(Sent)
  PROVE  LET units == Decode(SubSeq(Sent, a + 1, a + n)) IN
         units \in Seq(Bits) /\ Len(units) = n /\ \A m \in 1..n : CameFrom(units[m], Sent[a + m])
<1> DEFINE chunk == SubSeq(Sent, a + 1, a + n)
<1>1. Len(Sent) \in Nat /\ Sent \in Seq(Bits)
  BY SentIs
<1>2. chunk \in Seq(Bits) /\ Len(chunk) = n /\ \A m \in 1..n : chunk[m] = Sent[a + m]
  <2>1. a + 1 \in 1..(Len(Sent) + 1) /\ a + n \in ((a + 1) - 1)..Len(Sent)
    BY <1>1
  <2>2. chunk \in Seq(Bits) /\ Len(chunk) = (a + n) - (a + 1) + 1
    BY <1>1, <2>1, PieceOf
  <2>3. \A m \in 1..((a + n) - (a + 1) + 1) : chunk[m] = Sent[(a + 1) + m - 1]
    BY <1>1, <2>1, PieceOf
  <2>4. (a + n) - (a + 1) + 1 = n /\ \A m \in 1..n : (a + 1) + m - 1 = a + m
    OBVIOUS
  <2> QED
    BY <2>2, <2>3, <2>4
<1> HIDE DEF chunk
<1>3. \A m \in 1..n : chunk[m] \in Bits
  BY <1>2
<1>4. CASE Readers[reader].keeps
  <2>1. Decode(chunk) = chunk
    BY <1>4 DEF Decode
  <2> QED
    BY <1>2, <2>1 DEF CameFrom, chunk
<1>5. CASE ~Readers[reader].keeps
  <2>1. reader = "stdio"
    BY <1>5, ReaderNames DEF StreamTyped, Readers, OpenAI, Anthropic, Extension, ChatPage, Transcript, HttpMcp, Reader
  <2> DEFINE spoil(m) == (m = 1 /\ chunk[m].part = "trail") \/ (m = n /\ chunk[m].part = "lead")
             out(m) == IF spoil(m) THEN [chunk[m] EXCEPT !.part = "spoilt"] ELSE chunk[m]
  <2>2. Decode(chunk) = [m \in 1..n |-> out(m)]
    <3>1. chunk # <<>> /\ DOMAIN chunk = 1..n
      BY <1>2
    <3> QED
      BY <1>2, <1>5, <3>1 DEF Decode
  <2>3. ASSUME NEW m \in 1..n
        PROVE  out(m) \in Bits /\ CameFrom(out(m), Sent[a + m])
    <3>1. chunk[m] \in Bits /\ chunk[m] = Sent[a + m]
      BY <1>2, <1>3
    <3>2. CASE spoil(m)
      <4>1. out(m) = [chunk[m] EXCEPT !.part = "spoilt"]
        BY <3>2
      <4>2. chunk[m].part \in {"lead", "trail"}
        BY <3>2
      <4> HIDE DEF out, spoil
      <4>3. out(m) = [frame |-> chunk[m].frame, part |-> "spoilt"]
        BY <3>1, <4>1 DEF Bits
      <4>4. out(m).frame = chunk[m].frame /\ out(m).part = "spoilt"
        BY <4>3
      <4>5. out(m) \in Bits
        BY <3>1, <4>3 DEF Bits
      <4>6. CameFrom(out(m), chunk[m])
        BY <2>1, <4>2, <4>4 DEF CameFrom
      <4> QED
        BY <3>1, <4>5, <4>6
    <3>3. CASE ~spoil(m)
      <4>1. out(m) = chunk[m]
        BY <3>3
      <4> HIDE DEF out
      <4> QED
        BY <3>1, <4>1 DEF CameFrom
    <3> QED
      BY <3>2, <3>3
  <2> HIDE DEF out
  <2>4. Decode(chunk) \in Seq(Bits) /\ Len(Decode(chunk)) = n /\ \A m \in 1..n : Decode(chunk)[m] = out(m)
    BY <2>2, <2>3
  <2> QED
    BY <2>3, <2>4 DEF chunk
<1> QED
  BY <1>4, <1>5

FramingInv ==
  /\ StreamTyped /\ arrived \in 0..Len(Sent)
  /\ outcome \in {"reading", "stopped", "done", "failed", "waiting"}
  /\ reader # "http" => /\ GotAll(got, arrived)
                        /\ outcome \in {"reading", "stopped"} => ReadTo(Held, arrived)
  /\ reader = "http" =>
       /\ outcome # "stopped"
       /\ outcome = "reading" =>
            /\ got = <<>> /\ unread \in Seq(Bits) /\ Len(unread) = arrived
            /\ \A m \in 1..arrived : CameFrom(unread[m], Sent[m])
       /\ outcome # "reading" => \A n \in DOMAIN got : got[n].clean
       /\ outcome = "done" =>
            Len(got) = 1 /\ got[1].frame \in AnswersFor /\ \A i \in AnswersFor : got[1].frame <= i

LEMMA NothingRead ==
  ASSUME StreamTyped
  PROVE  GotAll(<<>>, 0) /\ ReadTo([unread |-> <<>>, got |-> <<>>, outcome |-> "reading"], 0)
<1>1. \A j \in DOMAIN frames : ~Over(j, 0)
  <2> SUFFICES ASSUME NEW j \in DOMAIN frames PROVE ~Over(j, 0)
    OBVIOUS
  <2>1. j \in Nat /\ j >= 1
    BY KindsOfFrames
  <2>2. CASE Len(Shape) = 3
    BY <2>1, <2>2, Lengths DEF Over
  <2>3. CASE Len(Shape) = 5
    BY <2>1, <2>3, Lengths DEF Over
  <2>4. CASE Len(Shape) = 7
    BY <2>1, <2>4, Lengths DEF Over
  <2> QED
    BY <2>2, <2>3, <2>4, Lengths
<1>2. GotAll(<<>>, 0)
  BY <1>1 DEF GotAll
<1>3. \A i, r : Stands(0, i, r) => r = 0
  <2>1. CASE Len(Shape) = 3
    BY <2>1 DEF Stands
  <2>2. CASE Len(Shape) = 5
    BY <2>2 DEF Stands
  <2>3. CASE Len(Shape) = 7
    BY <2>3 DEF Stands
  <2> QED
    BY <2>1, <2>2, <2>3, Lengths
<1>4. \A i : Buffers(<<>>, i, 0)
  BY SinceIs DEF Buffers
<1>5. [unread |-> <<>>, got |-> <<>>, outcome |-> "reading"] \in States
  BY DEF States
<1> QED
  BY <1>1, <1>2, <1>3, <1>4, <1>5 DEF ReadTo, StoppedAt

\* The line that the end of the stream completes.
LEMMA LastLine ==
  ASSUME StreamTyped, reader = "http", NEW k \in 0..Len(Sent), NEW st, ReadTo(st, k)
  PROVE  LET made == TakeIn(st, Unit(0, "nl"))
         IN  made.got \in Seq(HandedOn) /\ GotAll(made.got, k + 1)
<1> DEFINE u == Unit(0, "nl")  b == st.unread  emptied == WithUnread(st, <<>>)
<1>1. Shape = NamedData /\ Len(Shape) = 7 /\ LineEnd = 6 /\ Readers[reader].ends = Lines
  BY NamedReaders
<1>2. ~StoppedAt(k) /\ st \in States /\ st.outcome = "reading" /\ GotAll(st.got, k)
  <2>1. Readers[reader].marker = "skip"
    BY DEF Readers, HttpMcp, Reader
  <2> QED
    BY <2>1 DEF StoppedAt, Stops, ReadTo, States
<1>3. u \in Bits /\ u.part = "nl" /\ k \in Nat
  BY SentIs DEF Bits, Unit
<1>4. b \in Seq(Bits) /\ emptied \in States /\ emptied.outcome = "reading" /\ emptied.got = st.got
  BY <1>2, StatesAre, NewUnread, Sequences
<1>5. TakeIn(st, u) = HandOn(b, emptied)
  BY <1>1, <1>2, <1>3, LineTaken
<1>6. PICK i \in Nat, r \in 0..6 : k = i * 7 + r
  <2>1. \E i \in Nat, r \in 0..(7 - 1) : k = i * 7 + r /\ k \div 7 = i /\ k % 7 = r
    BY <1>3, Position
  <2> QED
    BY <2>1
<1>7. Stands(k, i, r) /\ Buffers(b, i, r)
  <2>1. Stands(k, i, r)
    BY <1>1, <1>3, <1>6 DEF Stands
  <2> QED
    BY <1>2, <2>1 DEF ReadTo
<1>8. Len(b) = r - Since(r) /\ \A n \in 1..(r - Since(r)) : CameFrom(b[n], Unit(i + 1, NamedData[Since(r) + n]))
  BY <1>1, <1>7 DEF Buffers
<1>9. \A n \in Nat : Since(n) = IF n >= 6 THEN 6 ELSE IF n >= 2 THEN 2 ELSE 0
  BY DEF Since
<1> HIDE DEF b, emptied, u
<1>10. CASE r = 5
  <2>1. i + 1 \in DOMAIN frames
    <3>1. PICK n \in Nat : DOMAIN frames = 1..n /\ Len(frames) = n
      BY KindsOfFrames
    <3>2. i * 7 + 5 <= n * 7
      BY <1>1, <1>6, <1>10, <3>1, SentIs
    <3> QED
      BY <3>1, <3>2
  <2>2. Len(b) = 3 /\ \A n \in 1..3 : CameFrom(b[n], Unit(i + 1, NamedData[2 + n]))
    BY <1>8, <1>9, <1>10
  <2>3. \A n \in 1..3 : NamedData[2 + n] = DataLine[n]
    BY DEF NamedData, DataLine
  <2>4. Handed(emptied, i + 1, HandOn(b, emptied))
    BY <1>4, <2>1, <2>2, <2>3, HandsPayloadOn
  <2>5. EndsFrame(i + 1, k + 1)
    BY <1>1, <1>6, <1>10 DEF EndsFrame
  <2>6. GotAll(HandOn(b, emptied).got, k + 1)
    BY <1>2, <1>3, <1>4, <2>1, <2>4, <2>5, GotGrows
  <2> QED
    BY <1>5, <2>4, <2>6, StatesAre DEF Handed, u
<1>11. CASE r # 5
  <2>1. \A n \in DOMAIN b : b[n].part = "data" => ~(n + 2 <= Len(b))
    <3>1. \A n \in 1..(r - Since(r)) : b[n].part = NamedData[Since(r) + n]
      BY <1>8 DEF CameFrom, Unit
    <3>2. DOMAIN b = 1..Len(b)
      BY <1>4
    <3> QED
      BY <1>8, <1>9, <1>11, <3>1, <3>2 DEF NamedData
  <2>2. HandOn(b, emptied) = emptied
    BY <2>1, NoPayload, HandsNothingOn
  <2>3. \A j \in DOMAIN frames : ~EndsFrame(j, k + 1)
    <3>1. DOMAIN frames \subseteq Nat
      BY KindsOfFrames
    <3> QED
      BY <1>1, <1>6, <1>11, <3>1 DEF EndsFrame
  <2>4. GotAll(st.got, k + 1)
    BY <1>2, <1>3, <2>3, GotStays
  <2> QED
    BY <1>2, <1>4, <1>5, <2>2, <2>4, StatesAre DEF u
<1> QED
  BY <1>10, <1>11

\* What the property calls complete.
LEMMA CompleteIs ==
  ASSUME StreamTyped, arrived \in Nat, NEW kind \in Payload
  PROVE  Complete(kind) = {j \in DOMAIN frames :
           frames[j] = kind /\ Wanted(j) /\ Over(j, IF reader = "http" THEN arrived + 1 ELSE arrived)}
<1>1. \A j \in DOMAIN frames : frames[j] = kind /\ Wanted(j) <=>
        frames[j] = kind /\ (Readers[reader].marker = "stop" => \A h \in 1..(j - 1) : frames[h] # "marker")
  BY DEF Wanted, Stops
<1>2. Needed = IF reader = "http" THEN LineEnd - 1 ELSE LineEnd
  BY Lengths DEF Needed, LineEnd
<1>3. ASSUME NEW j \in DOMAIN frames
      PROVE  (j - 1) * Len(Shape) + Needed <= arrived
               <=> Over(j, IF reader = "http" THEN arrived + 1 ELSE arrived)
  <2>1. (j - 1) * Len(Shape) \in Int /\ LineEnd \in Int
    <3>1. j \in Nat /\ Len(Shape) \in Int /\ LineEnd \in Int
      BY KindsOfFrames, Lengths
    <3> QED
      BY <3>1
  <2> QED
    BY <1>2, <2>1 DEF Over
<1> QED
  BY <1>1, <1>3 DEF Complete

\* Only the client over HTTP is sent answers to calls that it did not make.
LEMMA NoStrays ==
  ASSUME StreamTyped, reader # "http", NEW j \in DOMAIN frames, Wanted(j)
  PROVE  frames[j] = "event"
BY DEF StreamTyped, FrameKinds, Wanted, Payload

LEMMA FramingStart == FramingInit => FramingInv
<1> SUFFICES ASSUME FramingInit PROVE FramingInv
  OBVIOUS
<1>1. StreamTyped
  BY DEF FramingInit, StreamTyped
<1>2. Held = [unread |-> <<>>, got |-> <<>>, outcome |-> "reading"]
  BY DEF FramingInit, Held
<1>3. arrived = 0 /\ arrived \in 0..Len(Sent)
  BY <1>1, SentIs DEF FramingInit
<1>4. reader = "http" => got = <<>> /\ unread \in Seq(Bits) /\ Len(unread) = arrived
                         /\ \A m \in 1..arrived : CameFrom(unread[m], Sent[m])
  BY <1>3 DEF FramingInit
<1> QED
  BY <1>1, <1>2, <1>3, <1>4, NothingRead DEF FramingInit, FramingInv

\* A step of the reader leaves the stream alone, and with it all that is said of the stream.
LEMMA SameStream ==
  ASSUME reader' = reader, frames' = frames
  PROVE  /\ StreamTyped' <=> StreamTyped
         /\ Sent' = Sent
         /\ GotAll(got, arrived)' <=> GotAll(got', arrived')
         /\ ReadTo(Held, arrived)' <=> ReadTo(Held', arrived')
         /\ \A m : CameFrom(unread[m], Sent[m])' <=> CameFrom(unread'[m], Sent[m])
<1>1. Shape' = Shape /\ (StreamTyped' <=> StreamTyped)
  BY DEF Shape, StreamTyped, FrameKinds
<1>2. \A k : UnitAt(k)' = UnitAt(k)
  BY <1>1 DEF UnitAt, Unit
<1>3. Sent' = Sent
  BY <1>1, <1>2 DEF Sent
<1>4. LineEnd' = LineEnd
  BY <1>1 DEF LineEnd
<1>5. \A j : (Stops(j)' <=> Stops(j)) /\ (Wanted(j)' <=> Wanted(j))
  BY DEF Stops, Wanted
<1>6. \A j : Over(j, arrived)' <=> Over(j, arrived')
  BY <1>1, <1>4 DEF Over
<1>7. GotAll(got, arrived)' <=> GotAll(got', arrived')
  BY <1>5, <1>6 DEF GotAll
<1>8. \A m : CameFrom(unread[m], Sent[m])' <=> CameFrom(unread'[m], Sent[m])
  BY <1>3 DEF CameFrom
<1>9. ReadTo(Held, arrived)' <=> ReadTo(Held', arrived')
  <2>1. GotAll(Held.got, arrived)' <=> GotAll(Held'.got, arrived')
    BY <1>5, <1>6 DEF GotAll
  <2>2. StoppedAt(arrived)' <=> StoppedAt(arrived')
    BY <1>5, <1>6 DEF StoppedAt
  <2>3. \A i, r : Stands(arrived, i, r)' <=> Stands(arrived', i, r)
    BY <1>1 DEF Stands
  <2>4. \A r : Since(r)' = Since(r)
    BY DEF Since
  <2>5. \A i, r : Buffers(Held.unread, i, r)' <=> Buffers(Held'.unread, i, r)
    BY <1>1, <2>4 DEF Buffers, CameFrom, Unit
  <2>6. (Held \in States)' <=> Held' \in States
    BY DEF States, Bits, HandedOn
  <2> QED
    BY <2>1, <2>2, <2>3, <2>5, <2>6 DEF ReadTo
<1> QED
  BY <1>1, <1>3, <1>7, <1>8, <1>9

LEMMA HeldIs == Held.unread = unread /\ Held.got = got /\ Held.outcome = outcome
BY DEF Held

LEMMA ChunkKeeps ==
  ASSUME FramingInv, NEW n \in 1..Len(Sent), Chunk(n)
  PROVE  FramingInv'
<1>1. StreamTyped /\ outcome = "reading" /\ arrived \in Nat /\ arrived' = arrived + n /\ arrived' <= Len(Sent)
      /\ n \in Nat /\ n >= 1 /\ Len(Sent) \in Nat /\ arrived + n <= Len(Sent)
  BY SentIs DEF FramingInv, Chunk
<1>2. reader' = reader /\ frames' = frames
  BY DEF Chunk
<1>3. StreamTyped' /\ Sent' = Sent /\ (arrived \in 0..Len(Sent))'
  BY <1>1, <1>2, SameStream
<1> DEFINE units == Decode(SubSeq(Sent, arrived + 1, arrived + n))
<1>4. units \in Seq(Bits) /\ Len(units) = n /\ \A m \in 1..n : CameFrom(units[m], Sent[arrived + m])
  BY <1>1, DecodedUnits
<1>5. CASE reader = "http"
  <2>1. unread' = unread \o units /\ got' = got /\ outcome' = outcome
    BY <1>5 DEF Chunk
  <2> HIDE DEF units
  <2>2. got = <<>> /\ unread \in Seq(Bits) /\ Len(unread) = arrived
        /\ \A m \in 1..arrived : CameFrom(unread[m], Sent[m])
    BY <1>1, <1>5 DEF FramingInv
  <2>3. unread' \in Seq(Bits) /\ Len(unread') = arrived + n
    <3>1. unread \o units \in Seq(Bits) /\ Len(unread \o units) = Len(unread) + Len(units)
      BY <1>4, <2>2, ConcatProperties
    <3> QED
      BY <1>4, <2>1, <2>2, <3>1
  <2>4. ASSUME NEW m \in 1..(arrived + n)
        PROVE  CameFrom(unread'[m], Sent[m])
    <3>1. CASE m <= arrived
      <4>1. unread'[m] = unread[m] /\ m \in 1..arrived
        BY <1>1, <1>4, <2>1, <2>2, <3>1
      <4> QED
        BY <2>2, <4>1
    <3>2. CASE m > arrived
      <4>1. unread'[m] = units[m - arrived] /\ m - arrived \in 1..n /\ arrived + (m - arrived) = m
        BY <1>1, <1>4, <2>1, <2>2, <3>2
      <4>2. CameFrom(units[m - arrived], Sent[arrived + (m - arrived)])
        BY <1>4, <4>1
      <4> QED
        BY <4>1, <4>2
    <3> QED
      BY <1>1, <3>1, <3>2
  <2>5. \A m \in 1..arrived' : CameFrom(unread[m], Sent[m])'
    BY <1>1, <1>2, <2>4, SameStream
  <2>6. \A m \in (1..arrived)' : CameFrom(unread[m], Sent[m])'
    BY <2>5
  <2> QED
    BY <1>1, <1>2, <1>3, <1>5, <2>1, <2>2, <2>3, <2>6 DEF FramingInv, Bits
<1>6. CASE reader # "http"
  <2>1. unread' = Drain(units, Held).unread /\ got' = Drain(units, Held).got
        /\ outcome' = Drain(units, Held).outcome
    BY <1>6 DEF Chunk, Read
  <2> HIDE DEF units
  <2>2. ReadTo(Held, arrived)
    BY <1>1, <1>6 DEF FramingInv
  <2>3. PICK g : /\ g[0] = Held /\ Drain(units, Held) = g[Len(units)]
                 /\ \A m \in 1..Len(units) : g[m] = TakeIn(g[m - 1], units[m])
    <3>1. units \in Seq(Bits)
      BY <1>4
    <3>2. \A st : \E g : /\ g[0] = st /\ Drain(units, st) = g[Len(units)]
                         /\ \A m \in 1..Len(units) : g[m] = TakeIn(g[m - 1], units[m])
      BY ONLY <3>1, DrainRuns, Zenon
    <3> QED
      BY ONLY <3>2, Zenon
  <2>4. ReadTo(Drain(units, Held), arrived + n)
    <3>1. ReadTo(g[0], arrived) /\ n <= Len(units) /\ Drain(units, Held) = g[n]
      BY <1>1, <1>4, <2>2, <2>3
    <3>2. \A m \in 1..Len(units) : g[m] = TakeIn(g[m - 1], units[m])
      BY <2>3
    <3>3. ReadTo(g[n], arrived + n)
      BY <1>1, <1>4, <3>1, <3>2, RunKeeps
    <3> QED
      BY <3>1, <3>3
  <2>5. Held' = Drain(units, Held) /\ outcome' \in {"reading", "stopped"}
    <3>1. Drain(units, Held) \in States
      BY <2>4 DEF ReadTo
    <3> QED
      BY <2>1, <3>1, StatesAre DEF Held
  <2>6. ReadTo(Held', arrived') /\ GotAll(got', arrived')
    BY <1>1, <2>1, <2>4, <2>5 DEF ReadTo
  <2>7. ReadTo(Held, arrived)' /\ GotAll(got, arrived)'
    BY <1>2, <2>6, SameStream
  <2> QED
    BY <1>2, <1>3, <1>6, <2>5, <2>7 DEF FramingInv
<1> QED
  BY <1>5, <1>6

\* The first of the events of a body whose lines have all been read.
LEMMA FirstOfBody ==
  ASSUME FramingInv, reader = "http", outcome = "reading"
  PROVE  LET st == Drain(Append(unread, Unit(0, "nl")), [Held EXCEPT !.unread = <<>>])
         IN  /\ st.got \in Seq(HandedOn) /\ \A n \in DOMAIN st.got : st.got[n].clean
             /\ {st.got[n].frame : n \in DOMAIN st.got} = Complete("event") \cup Complete("stray")
             /\ \A m, n \in DOMAIN st.got : m < n => st.got[m].frame < st.got[n].frame
<1> DEFINE units == Append(unread, Unit(0, "nl"))  start == [Held EXCEPT !.unread = <<>>]
           st == Drain(units, start)
<1>1. StreamTyped /\ arrived \in 0..Len(Sent) /\ got = <<>> /\ unread \in Seq(Bits) /\ Len(unread) = arrived
      /\ \A m \in 1..arrived : CameFrom(unread[m], Sent[m])
  BY DEF FramingInv
<1>2. arrived \in Nat
  BY <1>1, SentIs
<1>3. start = [unread |-> <<>>, got |-> <<>>, outcome |-> "reading"]
  BY <1>1 DEF Held
<1>4. ReadTo(start, 0)
  BY <1>1, <1>3, NothingRead
<1>5. Unit(0, "nl") \in Bits
  BY DEF Unit, Bits
<1>6. units \in Seq(Bits) /\ Len(units) = arrived + 1 /\ units[arrived + 1] = Unit(0, "nl")
      /\ \A m \in 1..arrived : units[m] = unread[m]
  BY <1>1, <1>2, <1>5
<1> HIDE DEF units, start
<1>7. PICK g : /\ g[0] = start /\ st = g[Len(units)]
               /\ \A m \in 1..Len(units) : g[m] = TakeIn(g[m - 1], units[m])
  BY <1>6, DrainRuns
<1>8. ReadTo(g[arrived], arrived)
  <2>1. \A m \in 1..arrived : CameFrom(units[m], Sent[0 + m])
    BY <1>1, <1>2, <1>6
  <2>2. 0 + arrived <= Len(Sent) /\ arrived <= Len(units) /\ 0 + arrived = arrived
    BY <1>1, <1>2, <1>6, SentIs
  <2>3. ReadTo(g[0], 0)
    BY <1>4, <1>7
  <2>4. ReadTo(g[arrived], 0 + arrived)
    BY <1>1, <1>2, <1>6, <1>7, <2>1, <2>2, <2>3, RunKeeps
  <2> QED
    BY <2>2, <2>4
<1>9. st = TakeIn(g[arrived], Unit(0, "nl"))
  <2>1. arrived + 1 \in 1..Len(units) /\ (arrived + 1) - 1 = arrived
    BY <1>2, <1>6
  <2> QED
    BY <1>6, <1>7, <2>1
<1>10. st.got \in Seq(HandedOn) /\ GotAll(st.got, arrived + 1)
  BY <1>1, <1>8, <1>9, LastLine
<1>11. Complete("event") \cup Complete("stray") = {j \in DOMAIN frames : Wanted(j) /\ Over(j, arrived + 1)}
  <2>1. \A kind \in Payload :
          Complete(kind) = {j \in DOMAIN frames : frames[j] = kind /\ Wanted(j) /\ Over(j, arrived + 1)}
    BY <1>1, <1>2, CompleteIs
  <2>2. \A j \in DOMAIN frames : Wanted(j) => frames[j] \in Payload
    BY DEF Wanted
  <2> QED
    BY <2>1, <2>2 DEF Payload
<1>12. /\ st.got \in Seq(HandedOn) /\ \A n \in DOMAIN st.got : st.got[n].clean
       /\ {st.got[n].frame : n \in DOMAIN st.got} = Complete("event") \cup Complete("stray")
       /\ \A m, n \in DOMAIN st.got : m < n => st.got[m].frame < st.got[n].frame
  BY <1>10, <1>11 DEF GotAll
<1> QED
  BY <1>12 DEF units, start

\* The answer that is picked from a body.
LEMMA FirstAnswer ==
  ASSUME StreamTyped, NEW all \in Seq(HandedOn), \A n \in DOMAIN all : all[n].clean,
         {all[n].frame : n \in DOMAIN all} = Complete("event") \cup Complete("stray"),
         \A m, n \in DOMAIN all : m < n => all[m].frame < all[n].frame,
         all # <<>>
  PROVE  \E m \in DOMAIN all : /\ Answering(all) = <<all[m]>>
                               /\ all[m].frame \in AnswersFor /\ \A i \in AnswersFor : all[m].frame <= i
<1> DEFINE own == {n \in DOMAIN all : frames[all[n].frame] = "event"}
           candidates == IF own # {} THEN own ELSE DOMAIN all
<1>1. DOMAIN all = 1..Len(all) /\ Len(all) \in Nat /\ 1 \in DOMAIN all
      /\ \A n \in DOMAIN all : all[n].frame \in Nat
  <2>1. \A n \in DOMAIN all : all[n] \in HandedOn
    OBVIOUS
  <2>2. DOMAIN all = 1..Len(all) /\ Len(all) \in Nat /\ 1 \in DOMAIN all
    OBVIOUS
  <2>3. \A h \in HandedOn : h.frame \in Nat
    BY DEF HandedOn
  <2> QED
    BY <2>1, <2>2, <2>3
<1>2. candidates \in SUBSET Nat /\ candidates # {} /\ candidates \subseteq DOMAIN all
  BY <1>1
<1>3. Answering(all) = <<all[Min(candidates)]>>
  BY <1>2 DEF Answering
<1>4. AnswersFor = {all[n].frame : n \in candidates}
  <2>1. \A i \in Complete("event") : frames[i] = "event"
    BY DEF Complete
  <2>2. \A i \in Complete("stray") : frames[i] = "stray"
    BY DEF Complete
  <2>3. Complete("event") = {all[n].frame : n \in own}
    BY <2>1, <2>2
  <2>4. CASE own # {}
    <3> HIDE DEF own
    <3>0. \A n \in own : all[n].frame \in Complete("event")
      BY ONLY <2>3, Zenon
    <3>1. Complete("event") # {} /\ candidates = own
      BY ONLY <3>0, <2>4, Zenon DEF candidates
    <3> QED
      BY <2>3, <3>1 DEF AnswersFor
  <2>5. CASE own = {}
    <3>1. Complete("event") = {} /\ candidates = DOMAIN all
      BY <2>3, <2>5
    <3>2. Complete("stray") = {all[n].frame : n \in DOMAIN all}
      BY <3>1
    <3> QED
      BY <3>1, <3>2 DEF AnswersFor
  <2> QED
    BY <2>4, <2>5
<1> DEFINE m == Min(candidates)
<1>5. m \in candidates /\ \A k \in candidates : m <= k
  <2> HIDE DEF candidates
  <2> QED
    BY <1>2, FirstIndex
<1> HIDE DEF candidates
<1>6. ASSUME NEW n \in candidates
      PROVE  all[m].frame <= all[n].frame
  <2> HIDE DEF m
  <2>1. m \in DOMAIN all /\ n \in DOMAIN all /\ m <= n
    BY <1>2, <1>5
  <2>2. m = n \/ m < n
    BY <1>1, <2>1
  <2>3. all[m].frame \in Nat /\ all[n].frame \in Nat
    BY <1>1, <2>1
  <2> QED
    BY <2>1, <2>2, <2>3
<1> QED
  BY <1>2, <1>3, <1>4, <1>5, <1>6

LEMMA EndKeeps ==
  ASSUME FramingInv, EndOfStream
  PROVE  FramingInv'
<1>1. reader' = reader /\ frames' = frames /\ arrived' = arrived
  BY DEF EndOfStream
<1>2. StreamTyped' /\ Sent' = Sent /\ (arrived \in 0..Len(Sent))'
      /\ (GotAll(got, arrived)' <=> GotAll(got', arrived'))
  BY <1>1, SameStream DEF FramingInv
<1>3. CASE reader # "http"
  <2>1. got' = got /\ outcome' \in {"waiting", "done"}
    BY <1>3 DEF EndOfStream
  <2>2. GotAll(got, arrived)'
    BY <1>1, <1>2, <1>3, <2>1 DEF FramingInv
  <2> QED
    BY <1>1, <1>2, <1>3, <2>1, <2>2 DEF FramingInv
<1>4. CASE reader = "http"
  <2>0. outcome = "reading"
    BY <1>4 DEF FramingInv, EndOfStream
  <2> DEFINE st == Drain(Append(unread, Unit(0, "nl")), [Held EXCEPT !.unread = <<>>])
  <2>1. got' = Answering(st.got) /\ outcome' = IF st.got = <<>> THEN "failed" ELSE "done"
    BY <1>4 DEF EndOfStream
  <2>2. /\ st.got \in Seq(HandedOn) /\ \A n \in DOMAIN st.got : st.got[n].clean
        /\ {st.got[n].frame : n \in DOMAIN st.got} = Complete("event") \cup Complete("stray")
        /\ \A m, n \in DOMAIN st.got : m < n => st.got[m].frame < st.got[n].frame
    BY <1>4, <2>0, FirstOfBody
  <2> DEFINE all == st.got
  <2> HIDE DEF st
  <2>3. CASE all = <<>>
    <3>1. got' = <<>> /\ outcome' = "failed"
      BY <2>1, <2>3 DEF Answering
    <3> QED
      BY <1>1, <1>2, <1>4, <3>1 DEF FramingInv
  <2>4. CASE all # <<>>
    <3>1. PICK m \in DOMAIN all :
            /\ Answering(all) = <<all[m]>>
            /\ all[m].frame \in AnswersFor /\ \A i \in AnswersFor : all[m].frame <= i
      BY <2>2, <2>4, FirstAnswer DEF FramingInv
    <3>2. AnswersFor' = AnswersFor
      BY <1>1 DEF AnswersFor, Complete, Needed, Shape
    <3>3. all[m].clean /\ got' = <<all[m]>> /\ outcome' = "done"
      BY <2>1, <2>2, <2>4, <3>1
    <3> HIDE DEF all
    <3>4. Len(got') = 1 /\ got'[1] = all[m] /\ DOMAIN got' = {1}
      BY <3>3
    <3> QED
      BY <1>1, <1>2, <1>4, <3>1, <3>2, <3>3, <3>4 DEF FramingInv
  <2> QED
    BY <2>3, <2>4
<1> QED
  BY <1>3, <1>4

LEMMA BreakKeeps ==
  ASSUME FramingInv, BreakOff \/ UNCHANGED framingVars
  PROVE  FramingInv'
<1>1. reader' = reader /\ frames' = frames /\ arrived' = arrived /\ unread' = unread /\ got' = got
  BY DEF BreakOff, framingVars
<1>2. AnswersFor' = AnswersFor
  BY <1>1 DEF AnswersFor, Complete, Needed, Shape
<1>3. StreamTyped' /\ Sent' = Sent /\ (arrived \in 0..Len(Sent))'
      /\ (GotAll(got, arrived)' <=> GotAll(got, arrived))
      /\ \A m : CameFrom(unread[m], Sent[m])' <=> CameFrom(unread[m], Sent[m])
  BY <1>1, SameStream DEF FramingInv
<1>4. CASE BreakOff
  <2>1. outcome = "reading" /\ outcome' = "failed"
    BY <1>4 DEF BreakOff
  <2> QED
    BY <1>1, <1>3, <2>1 DEF FramingInv
<1>5. CASE UNCHANGED framingVars
  <2>1. outcome' = outcome /\ Held' = Held
    BY <1>1, <1>5 DEF framingVars, Held
  <2>2. ReadTo(Held, arrived)' <=> ReadTo(Held, arrived)
    BY <1>1, <2>1, SameStream
  <2>3. Bits' = Bits
    BY DEF Bits
  <2> QED
    BY <1>1, <1>2, <1>3, <2>1, <2>2, <2>3 DEF FramingInv
<1> QED
  BY <1>4, <1>5

LEMMA FramingKeeps == FramingInv /\ [FramingNext]_framingVars => FramingInv'
BY ChunkKeeps, EndKeeps, BreakKeeps DEF FramingNext

LEMMA FramingInvShows == FramingInv => FramingTypeOK /\ ReadAsSent
<1> SUFFICES ASSUME FramingInv PROVE FramingTypeOK /\ ReadAsSent
  OBVIOUS
<1>1. FramingTypeOK
  BY DEF FramingInv, FramingTypeOK, StreamTyped
<1>2. arrived \in Nat /\ StreamTyped
  BY SentIs DEF FramingInv
<1>3. CASE reader # "http"
  <2>1. Complete("event") = {j \in DOMAIN frames : frames[j] = "event" /\ Wanted(j) /\ Over(j, arrived)}
    BY <1>2, <1>3, CompleteIs DEF Payload
  <2>2. Complete("event") = {j \in DOMAIN frames : Wanted(j) /\ Over(j, arrived)}
    BY <1>2, <1>3, <2>1, NoStrays
  <2> QED
    BY <1>1, <1>3, <2>2 DEF FramingInv, GotAll, ReadAsSent
<1>4. CASE reader = "http"
  <2>1. \A n \in DOMAIN got : got[n].clean
    <3>1. got = <<>> => DOMAIN got = {}
      OBVIOUS
    <3> QED
      BY <1>4, <3>1 DEF FramingInv
  <2> QED
    BY <1>1, <1>4, <2>1 DEF FramingInv, ReadAsSent
<1> QED
  BY <1>3, <1>4

\* Every variable of a reader keeps its type, and what a reader has handed on are, in order and
\* undamaged, exactly the events whose frames have arrived (the readers of the providers' streams,
\* of the pages and of MCP servers), however many frames there are and wherever they are cut.
THEOREM ReadersHandOnWhatArrived == FramingSpec => [](FramingTypeOK /\ ReadAsSent)
<1>1. FramingInv /\ [FramingNext]_framingVars => FramingInv'
  BY FramingKeeps
<1> QED
  BY <1>1, FramingStart, FramingInvShows, PTL DEF FramingSpec

-----------------------------------------------------------------------------
(* The two backends.  A passkey that another owner registers again is his  *)
(* in memory and stays the first one's in Postgres; until there is one,    *)
(* both stores hold the same rows in the same order.                       *)

RepoRows == [owner : Tenants, key : RowKeys, stamp : 1..MaxWrites]
StoresTyped ==
  /\ repo \in Repos /\ moved \subseteq RowKeys /\ writes \in 0..MaxWrites
  /\ mem \in Seq(RepoRows) /\ sql \in Seq(RepoRows)

\* Under one id there are rows of one owner, where rows have an id of their own.
IdsAreOwned(rows) ==
  repo \notin KeyedPerOwner =>
    \A i, j \in DOMAIN rows : rows[i].key = rows[j].key => rows[i].owner = rows[j].owner

StoresAgree ==
  /\ IdsAreOwned(mem) /\ Unmoved(mem) = Unmoved(sql)
  /\ moved = {} => mem = sql
  /\ moved # {} => repo = "passkeys"

StoresInv == StoresTyped /\ StoresAgree

LEMMA ColumnsAgree ==
  ASSUME repo \in Repos
  PROVE  /\ MemCols = PrimaryKey(repo) /\ "key" \in MemCols /\ MemCols \subseteq {"owner", "key"}
         /\ repo \in KeyedPerOwner => "owner" \in MemCols
         /\ repo \notin KeyedPerOwner => MemCols = {"key"}
  BY DEF MemCols, KeyedPerOwner, PrimaryKey

\* How a known key is met in memory and in Postgres.
LEMMA CreateAgrees ==
  ASSUME NEW r \in Chosen
  PROVE  \/ Memory[r].create = Postgres[r].create /\ Memory[r].create \in {"keep", "replace"}
         \/ Memory[r].create = "replace" /\ Postgres[r].create = "update" /\ r # "identities"
<1>1. CASE r = "users"
  BY <1>1 DEF Memory, Postgres, MemUsers, SqlUsers, Does
<1>2. CASE r = "skills"
  BY <1>2 DEF Memory, Postgres, MemSkills, SqlSkills, Does
<1>3. CASE r = "plugins"
  BY <1>3 DEF Memory, Postgres, MemPlugins, SqlPlugins, Does
<1>4. CASE r = "subscriptions"
  BY <1>4 DEF Memory, Postgres, MemSubscriptions, SqlSubscriptions, Does
<1>5. CASE r = "identities"
  BY <1>5 DEF Memory, Postgres, MemIdentities, SqlIdentities, Does
<1>6. CASE r = "passkeys"
  BY <1>6 DEF Memory, Postgres, MemPasskeys, SqlPasskeys, Does
<1> QED
  BY <1>1, <1>2, <1>3, <1>4, <1>5, <1>6 DEF Chosen

LEMMA SaveAgrees ==
  ASSUME NEW r \in Repos
  PROVE  /\ Memory[r].save \in {"none", "replace"}
         /\ Memory[r].save = "replace" => Postgres[r].save \in {"replace", "update"}
         /\ r = "passkeys" => Memory[r].save = "none" /\ "mark" \notin Memory[r].others
  BY DEF Repos, Memory, Postgres, Does, MemTasks, SqlTasks, MemUsers, SqlUsers, MemProjects,
         SqlProjects, MemSkills, SqlSkills, MemConnectors, SqlConnectors, MemJobs, SqlJobs,
         MemSchedules, SqlSchedules, MemNotifications, SqlNotifications, MemAudit, SqlAudit,
         MemMedia, SqlMedia, MemPlugins, SqlPlugins, MemEvents, SqlEvents, MemConversations,
         SqlConversations, MemTokens, SqlTokens, MemSubscriptions, SqlSubscriptions, MemPasskeys,
         SqlPasskeys, MemIdentities, SqlIdentities, MemNotes, SqlNotes

-----------------------------------------------------------------------------
\* What a write leaves of the rows.

\* Every row after a write was there before or is the new one, of the owner it has or had;
\* the rows under other keys are where they were.
Rewritten(rows, entry, after) ==
  /\ after \in Seq(RepoRows)
  /\ \A i \in DOMAIN after :
       after[i].key = entry.key \/ (i \in DOMAIN rows /\ after[i] = rows[i])
  /\ \A i \in DOMAIN rows :
       rows[i].key = entry.key \/ (i \in DOMAIN after /\ after[i] = rows[i])

LEMMA PutIs ==
  ASSUME NEW rows \in Seq(RepoRows), NEW entry \in RepoRows, NEW cols, "key" \in cols, NEW how
  PROVE  Rewritten(rows, entry, Put(rows, entry, cols, how))
<1> DEFINE met == Met(rows, entry, cols)
<1> DEFINE over(old) == IF how = "update" THEN [entry EXCEPT !.owner = old.owner] ELSE entry
<1>0. DOMAIN rows = 1..Len(rows) /\ Len(rows) \in Nat /\ \A i \in 1..Len(rows) : rows[i] \in RepoRows
  OBVIOUS
<1>1. met \subseteq DOMAIN rows /\ \A i \in met : rows[i].key = entry.key
  BY DEF Met
<1>2. \A old \in RepoRows : over(old) \in RepoRows /\ over(old).key = entry.key
  BY DEF RepoRows
<1> HIDE DEF over
<1> DEFINE changed == [i \in DOMAIN rows |-> IF i \in met THEN over(rows[i]) ELSE rows[i]]
<1>3. Put(rows, entry, cols, how) \in {Append(rows, entry), rows, changed}
  BY DEF Put, over
<1> HIDE DEF met
<1>4. Rewritten(rows, entry, Append(rows, entry))
  <2> DEFINE after == Append(rows, entry)
  <2>1. /\ after \in Seq(RepoRows) /\ DOMAIN after = 1..(Len(rows) + 1)
        /\ after[Len(rows) + 1] = entry /\ \A i \in 1..Len(rows) : after[i] = rows[i]
    BY <1>0
  <2> HIDE DEF after
  <2>2. \A i \in 1..(Len(rows) + 1) : i \in 1..Len(rows) \/ i = Len(rows) + 1
    BY <1>0
  <2>3. \A i \in 1..Len(rows) : i \in 1..(Len(rows) + 1)
    BY <1>0
  <2>4. Rewritten(rows, entry, after)
    BY <1>0, <2>1, <2>2, <2>3 DEF Rewritten
  <2> QED
    BY <2>4 DEF after
<1>5. Rewritten(rows, entry, rows)
  BY DEF Rewritten
<1>6. Rewritten(rows, entry, changed)
  <2>1. \A i \in 1..Len(rows) : (IF i \in met THEN over(rows[i]) ELSE rows[i]) \in RepoRows
    BY <1>0, <1>2
  <2>2. changed \in Seq(RepoRows) /\ DOMAIN changed = DOMAIN rows
    BY <1>0, <2>1, SeqDef
  <2>3. \A i \in DOMAIN rows : changed[i] = IF i \in met THEN over(rows[i]) ELSE rows[i]
    OBVIOUS
  <2> HIDE DEF changed
  <2>4. \A i \in met : changed[i].key = entry.key
    BY <1>0, <1>1, <1>2, <2>3
  <2> QED
    BY <1>1, <2>2, <2>3, <2>4 DEF Rewritten
<1> HIDE DEF changed
<1> QED
  BY <1>3, <1>4, <1>5, <1>6

\* Where the owner of the new row has the ones it meets, it makes no difference whether
\* they are replaced or updated, and it is the only one under its id.
LEMMA SameOwner ==
  ASSUME NEW rows \in Seq(RepoRows), NEW entry \in RepoRows, NEW cols,
         \A i \in Met(rows, entry, cols) : rows[i].owner = entry.owner
  PROVE  Put(rows, entry, cols, "update") = Put(rows, entry, cols, "replace")
<1>1. \A i \in Met(rows, entry, cols) : [entry EXCEPT !.owner = rows[i].owner] = entry
  BY DEF RepoRows
<1> QED
  BY <1>1 DEF Put

\* The rows under other keys are untouched.
Apart(rows, S) == {r \in ToSet(rows) : r.key \notin S}

LEMMA OthersStay ==
  ASSUME NEW rows \in Seq(RepoRows), NEW entry \in RepoRows, NEW how, NEW S, entry.key \in S
  PROVE  Apart(Put(rows, entry, {"key"}, how), S) = Apart(rows, S)
<1> DEFINE after == Put(rows, entry, {"key"}, how)
<1>0. Rewritten(rows, entry, after)
  BY PutIs
<1> HIDE DEF after
<1>1. \A i \in DOMAIN after :
        after[i].key \in S \/ (i \in DOMAIN rows /\ after[i] = rows[i])
  BY <1>0 DEF Rewritten
<1>2. \A i \in DOMAIN rows : rows[i].key \in S \/ (i \in DOMAIN after /\ after[i] = rows[i])
  BY <1>0 DEF Rewritten
<1>3. Apart(after, S) = Apart(rows, S)
  BY <1>1, <1>2 DEF Apart, ToSet
<1> QED
  BY <1>3 DEF after

LEMMA OneTakesThePlace ==
  ASSUME NEW rows \in Seq(RepoRows), NEW entry \in RepoRows, NEW how \in {"replace", "update"},
         \A i \in DOMAIN rows : rows[i].key = entry.key => rows[i].owner = entry.owner
  PROVE  ToSet(Put(rows, entry, {"key"}, how)) = {r \in ToSet(rows) : r.key # entry.key} \cup {entry}
<1>1. Met(rows, entry, {"key"}) = {i \in DOMAIN rows : rows[i].key = entry.key}
  BY DEF Met
<1>2. Put(rows, entry, {"key"}, how) = Put(rows, entry, {"key"}, "replace")
  <2>1. \A i \in Met(rows, entry, {"key"}) : rows[i].owner = entry.owner
    BY <1>1
  <2> QED
    BY <2>1, SameOwner
<1> DEFINE met == Met(rows, entry, {"key"})
<1>3. CASE met = {}
  <2>1. Put(rows, entry, {"key"}, "replace") = Append(rows, entry)
    BY <1>3 DEF Put
  <2>2. DOMAIN Append(rows, entry) = 1..(Len(rows) + 1) /\ DOMAIN rows = 1..Len(rows) /\ Len(rows) \in Nat
        /\ Append(rows, entry)[Len(rows) + 1] = entry
        /\ \A i \in 1..Len(rows) : Append(rows, entry)[i] = rows[i]
    OBVIOUS
  <2>3. ToSet(Append(rows, entry)) = ToSet(rows) \cup {entry}
    BY <2>2 DEF ToSet
  <2>4. \A r \in ToSet(rows) : r.key # entry.key
    BY <1>1, <1>3 DEF ToSet
  <2> QED
    BY <1>2, <2>1, <2>3, <2>4
<1>4. CASE met # {}
  <2>1. Put(rows, entry, {"key"}, "replace") = [i \in DOMAIN rows |-> IF i \in met THEN entry ELSE rows[i]]
    BY <1>4 DEF Put
  <2>2. ToSet([i \in DOMAIN rows |-> IF i \in met THEN entry ELSE rows[i]])
          = {r \in ToSet(rows) : r.key # entry.key} \cup {entry}
    BY <1>1, <1>4 DEF ToSet
  <2> QED
    BY <1>2, <2>1, <2>2
<1> QED
  BY <1>3, <1>4

-----------------------------------------------------------------------------
\* What a deletion leaves of the rows.
LEMMA LeftByIs ==
  \A rows, o, k, what :
    LeftBy(rows, o, k, what) = Folded([fold |-> "leave", owner |-> o, key |-> k, what |-> what], <<>>, rows)
BY DEF LeftBy, FoldLeft, MapThenFoldSet, Folded, Folds, Gather

LEMMA LeftAreRows ==
  ASSUME NEW rows \in Seq(RepoRows), NEW o, NEW k, NEW what
  PROVE  /\ LeftBy(rows, o, k, what) \in Seq(RepoRows)
         /\ ToSet(LeftBy(rows, o, k, what)) = {r \in ToSet(rows) : ~About(r, o, k, what)}
<1> DEFINE how == [fold |-> "leave", owner |-> o, key |-> k, what |-> what]
<1> DEFINE len == Len(rows)
<1>0. len \in Nat /\ DOMAIN rows = 1..len /\ \A i \in 1..len : rows[i] \in RepoRows
  OBVIOUS
<1> HIDE DEF len
<1>1. PICK g : Runs(g, how, <<>>, rows, len) /\ Folded(how, <<>>, rows) = g[len]
  BY <1>0, FoldedRuns
<1> DEFINE kept(i) == {r \in {rows[j] : j \in 1..i} : ~About(r, o, k, what)}
<1> DEFINE good == {i \in Nat : g[i] \in Seq(RepoRows) /\ ToSet(g[i]) = kept(i)}
<1>2. 0 \in good
  <2>1. g[0] = <<>> /\ <<>> \in Seq(RepoRows) /\ ToSet(<<>>) = {}
    BY <1>1 DEF Runs, ToSet
  <2>2. kept(0) = {}
    OBVIOUS
  <2> QED
    BY <2>1, <2>2
<1>3. ASSUME NEW i \in 1..len, i - 1 \in good
      PROVE  i \in good
  <2>1. g[i] = Gather(how, g[i - 1], rows[i]) /\ rows[i] \in RepoRows
    BY <1>0, <1>1 DEF Runs
  <2>2. g[i] = IF About(rows[i], o, k, what) THEN g[i - 1] ELSE Append(g[i - 1], rows[i])
    BY <2>1 DEF Gather
  <2>3. g[i - 1] \in Seq(RepoRows) /\ i \in Nat /\ ToSet(g[i - 1]) = kept(i - 1)
    BY <1>3
  <2>4. \A s \in Seq(RepoRows), r \in RepoRows :
          Append(s, r) \in Seq(RepoRows) /\ ToSet(Append(s, r)) = ToSet(s) \cup {r}
    <3> SUFFICES ASSUME NEW s \in Seq(RepoRows), NEW r \in RepoRows
                 PROVE  Append(s, r) \in Seq(RepoRows) /\ ToSet(Append(s, r)) = ToSet(s) \cup {r}
      OBVIOUS
    <3>1. DOMAIN Append(s, r) = 1..(Len(s) + 1) /\ DOMAIN s = 1..Len(s) /\ Len(s) \in Nat
          /\ Append(s, r)[Len(s) + 1] = r /\ \A j \in 1..Len(s) : Append(s, r)[j] = s[j]
      OBVIOUS
    <3> QED
      BY <3>1 DEF ToSet
  <2>5. 1..i = (1..(i - 1)) \cup {i}
    OBVIOUS
  <2>6. kept(i) = kept(i - 1) \cup (IF About(rows[i], o, k, what) THEN {} ELSE {rows[i]})
    BY <2>5
  <2> HIDE DEF kept
  <2>7. g[i] \in Seq(RepoRows) /\ ToSet(g[i]) = kept(i)
    <3>1. CASE About(rows[i], o, k, what)
      BY <2>2, <2>3, <2>6, <3>1
    <3>2. CASE ~About(rows[i], o, k, what)
      <4>1. /\ Append(g[i - 1], rows[i]) \in Seq(RepoRows)
            /\ ToSet(Append(g[i - 1], rows[i])) = ToSet(g[i - 1]) \cup {rows[i]}
        BY <2>1, <2>3, <2>4
      <4> QED
        BY <2>2, <2>3, <2>6, <3>2, <4>1
    <3> QED
      BY <3>1, <3>2
  <2> QED
    BY <2>3, <2>7
<1>4. len \in good
  <2> HIDE DEF good
  <2>1. len \in Nat /\ \A i \in 1..len : i - 1 \in good => i \in good
    BY <1>0, <1>3
  <2>2. \A i \in 0..len : i \in good
    BY ONLY <1>2, <2>1, StepByStep
  <2> QED
    BY <2>1, <2>2
<1>5. LeftBy(rows, o, k, what) = g[len]
  BY <1>1, LeftByIs
<1>6. kept(len) = {r \in ToSet(rows) : ~About(r, o, k, what)}
  BY <1>0 DEF ToSet
<1> HIDE DEF kept
<1> QED
  BY <1>4, <1>5, <1>6

-----------------------------------------------------------------------------
\* The steps.
LEMMA WriteIsTyped ==
  ASSUME StoresTyped, NEW o \in Tenants, NEW k \in RowKeys, NEW memHow, NEW sqlHow,
         Write(o, k, memHow, sqlHow)
  PROVE  /\ [owner |-> o, key |-> k, stamp |-> writes + 1] \in RepoRows
         /\ mem' \in Seq(RepoRows) /\ sql' \in Seq(RepoRows) /\ writes' \in 0..MaxWrites /\ repo' = repo
<1> DEFINE entry == [owner |-> o, key |-> k, stamp |-> writes + 1]
<1>1. writes \in 0..MaxWrites /\ MaxWrites \in Nat /\ writes < MaxWrites /\ writes' = writes + 1
  BY StoresAssumption DEF StoresTyped, Write
<1>2. writes + 1 \in 1..MaxWrites /\ writes' \in 0..MaxWrites
  BY <1>1
<1>3. entry \in RepoRows
  BY <1>2 DEF RepoRows
<1>4. /\ mem' = Put(mem, entry, MemCols, memHow) /\ sql' = Put(sql, entry, PrimaryKey(repo), sqlHow)
      /\ repo' = repo
  BY DEF Write
<1> HIDE DEF entry
<1>5. "key" \in MemCols /\ "key" \in PrimaryKey(repo) /\ mem \in Seq(RepoRows) /\ sql \in Seq(RepoRows)
  BY ColumnsAgree DEF StoresTyped
<1>6. mem' \in Seq(RepoRows) /\ sql' \in Seq(RepoRows)
  BY <1>3, <1>4, <1>5, PutIs DEF Rewritten
<1> QED
  BY <1>2, <1>3, <1>4, <1>6 DEF entry

\* A row that a call marks keeps its owner and its key.
Marked(rows, o, k, how) ==
  [i \in DOMAIN rows |->
     IF About(rows[i], o, k, how) THEN [rows[i] EXCEPT !.stamp = writes + 1] ELSE rows[i]]

LEMMA MarkedAreRows ==
  ASSUME NEW rows \in Seq(RepoRows), NEW o, NEW k, NEW how, writes + 1 \in 1..MaxWrites
  PROVE  /\ Marked(rows, o, k, how) \in Seq(RepoRows) /\ DOMAIN Marked(rows, o, k, how) = DOMAIN rows
         /\ \A i \in DOMAIN rows : /\ Marked(rows, o, k, how)[i].key = rows[i].key
                                   /\ Marked(rows, o, k, how)[i].owner = rows[i].owner
<1> DEFINE marked(r) == [r EXCEPT !.stamp = writes + 1]
<1>1. \A r \in RepoRows : marked(r) \in RepoRows /\ marked(r).key = r.key /\ marked(r).owner = r.owner
  BY DEF RepoRows
<1>2. Marked(rows, o, k, how)
        = [i \in DOMAIN rows |-> IF About(rows[i], o, k, how) THEN marked(rows[i]) ELSE rows[i]]
  BY DEF Marked
<1> HIDE DEF marked
<1>3. /\ DOMAIN rows = 1..Len(rows) /\ Len(rows) \in Nat
      /\ \A i \in 1..Len(rows) : rows[i] \in RepoRows
  OBVIOUS
<1>4. \A i \in 1..Len(rows) : (IF About(rows[i], o, k, how) THEN marked(rows[i]) ELSE rows[i]) \in RepoRows
  BY <1>1, <1>3
<1>5. Marked(rows, o, k, how) \in Seq(RepoRows)
  BY <1>2, <1>3, <1>4, SeqDef
<1> QED
  BY <1>1, <1>2, <1>3, <1>5

LEMMA ChangeKeepsAgreement ==
  ASSUME StoresInv, NEW o \in Tenants, NEW k \in RowKeys, NEW how, ChangeRow(o, k, how)
  PROVE  StoresInv'
<1>1. writes \in 0..MaxWrites /\ MaxWrites \in Nat /\ writes < MaxWrites /\ writes' = writes + 1
  BY StoresAssumption DEF StoresInv, StoresTyped, ChangeRow
<1>2. /\ writes + 1 \in 1..MaxWrites /\ writes' \in 0..MaxWrites /\ UNCHANGED <<repo, moved>>
      /\ mem \in Seq(RepoRows) /\ sql \in Seq(RepoRows)
      /\ repo \in Repos /\ moved \subseteq RowKeys
  BY <1>1 DEF ChangeRow, StoresInv, StoresTyped
<1>3. /\ IdsAreOwned(mem) /\ Unmoved(mem) = Unmoved(sql)
      /\ moved = {} => mem = sql
      /\ moved # {} => repo = "passkeys"
  BY DEF StoresInv, StoresAgree
<1>4. CASE how # "mark"
  <2>1. mem' = LeftBy(mem, o, k, how) /\ sql' = LeftBy(sql, o, k, how)
    BY <1>4 DEF ChangeRow
  <2>2. /\ mem' \in Seq(RepoRows) /\ ToSet(mem') = {r \in ToSet(mem) : ~About(r, o, k, how)}
        /\ sql' \in Seq(RepoRows) /\ ToSet(sql') = {r \in ToSet(sql) : ~About(r, o, k, how)}
    BY <1>2, <2>1, LeftAreRows
  <2>3. Unmoved(mem') = Unmoved(sql')
    BY <1>3, <2>2 DEF Unmoved
  <2>4. IdsAreOwned(mem')
    <3>1. \A i \in DOMAIN mem' : mem'[i] \in ToSet(mem)
      BY <2>2 DEF ToSet
    <3>2. \A i \in DOMAIN mem' : \E j \in DOMAIN mem : mem'[i] = mem[j]
      BY <3>1 DEF ToSet
    <3> QED
      BY <1>3, <3>2 DEF IdsAreOwned
  <2>5. (moved = {} => mem' = sql')
    BY <1>3, <2>1
  <2> QED
    BY <1>2, <1>3, <2>2, <2>3, <2>4, <2>5 DEF StoresInv, StoresTyped, StoresAgree, Unmoved, IdsAreOwned
<1>5. CASE how = "mark"
  <2>1. mem' = Marked(mem, o, k, how) /\ sql' = Marked(sql, o, k, how) /\ "mark" \in Memory[repo].others
    BY <1>5 DEF ChangeRow, Marked
  <2>2. moved = {} /\ mem = sql
    BY <1>2, <1>3, <2>1, SaveAgrees
  <2>3. mem' \in Seq(RepoRows) /\ mem' = sql'
    BY <1>2, <2>1, <2>2, MarkedAreRows
  <2>4. IdsAreOwned(mem')
    BY <1>2, <1>3, <2>1, MarkedAreRows DEF IdsAreOwned
  <2>5. Unmoved(mem') = Unmoved(sql')
    BY <2>3
  <2> QED
    BY <1>2, <1>3, <2>2, <2>3, <2>4, <2>5 DEF StoresInv, StoresTyped, StoresAgree, Unmoved, IdsAreOwned
<1> QED
  BY <1>4, <1>5

\* The stores go on alike when the rows that are met are the writer's own.
LEMMA WriteOfOwner ==
  ASSUME StoresInv, moved = {}, NEW entry \in RepoRows, NEW how,
         how \in {"replace", "update"},
         repo \notin KeyedPerOwner =>
           \A i \in DOMAIN mem : mem[i].key = entry.key => mem[i].owner = entry.owner
  PROVE  Put(mem, entry, MemCols, "replace") = Put(sql, entry, PrimaryKey(repo), how)
<1>1. mem = sql /\ mem \in Seq(RepoRows) /\ repo \in Repos
  BY DEF StoresInv, StoresAgree, StoresTyped
<1>2. MemCols = PrimaryKey(repo) /\ (repo \in KeyedPerOwner => "owner" \in MemCols)
      /\ "key" \in MemCols
  BY <1>1, ColumnsAgree
<1>3. \A i \in Met(mem, entry, MemCols) : mem[i].owner = entry.owner
  <2>1. CASE repo \in KeyedPerOwner
    BY <1>2, <2>1 DEF Met
  <2>2. CASE repo \notin KeyedPerOwner
    BY <1>2, <2>2 DEF Met
  <2> QED
    BY <2>1, <2>2
<1>4. Put(mem, entry, MemCols, "update") = Put(mem, entry, MemCols, "replace")
  BY <1>1, <1>3, SameOwner
<1> QED
  BY <1>1, <1>2, <1>4

\* A row that replaces all of its id, or has a new one, leaves one owner per id.
LEMMA StillOwned ==
  ASSUME StoresInv, NEW entry \in RepoRows, NEW how,
         mem' = Put(mem, entry, MemCols, how), UNCHANGED repo,
         \/ how \in {"keep", "replace"}
         \/ \A i \in DOMAIN mem : mem[i].key # entry.key
  PROVE  IdsAreOwned(mem')
<1>0. mem \in Seq(RepoRows) /\ IdsAreOwned(mem) /\ repo \in Repos
  BY DEF StoresInv, StoresTyped, StoresAgree
<1> SUFFICES ASSUME repo \notin KeyedPerOwner
             PROVE  \A i, j \in DOMAIN mem' : mem'[i].key = mem'[j].key => mem'[i].owner = mem'[j].owner
  BY DEF IdsAreOwned
<1>1. MemCols = {"key"}
  BY <1>0, ColumnsAgree
<1>2. Met(mem, entry, MemCols) = {i \in DOMAIN mem : mem[i].key = entry.key}
  BY <1>1 DEF Met
<1>3. \A i, j \in DOMAIN mem : mem[i].key = mem[j].key => mem[i].owner = mem[j].owner
  BY <1>0 DEF IdsAreOwned
<1>4. CASE Met(mem, entry, MemCols) = {}
  <2>1. mem' = Append(mem, entry)
    BY <1>4 DEF Put
  <2>2. DOMAIN mem' = 1..(Len(mem) + 1) /\ DOMAIN mem = 1..Len(mem) /\ Len(mem) \in Nat
        /\ mem'[Len(mem) + 1] = entry /\ \A i \in 1..Len(mem) : mem'[i] = mem[i]
    BY <1>0, <2>1
  <2>3. \A i \in DOMAIN mem : mem[i].key # entry.key
    BY <1>2, <1>4
  <2>4. \A i \in DOMAIN mem' : (i \in DOMAIN mem /\ mem'[i] = mem[i]) \/ mem'[i] = entry
    BY <2>2
  <2> QED
    BY <1>3, <2>3, <2>4
<1>5. CASE Met(mem, entry, MemCols) # {} /\ how = "keep"
  BY <1>3, <1>5 DEF Put
<1>6. CASE Met(mem, entry, MemCols) # {} /\ how = "replace"
  <2>1. mem' = [i \in DOMAIN mem |-> IF mem[i].key = entry.key THEN entry ELSE mem[i]]
    BY <1>2, <1>6 DEF Put
  <2> QED
    BY <1>3, <2>1
<1> QED
  BY <1>2, <1>4, <1>5, <1>6

\* A passkey that is met: what becomes of the rows under its id and under the others.
LEMMA RegisteredAgain ==
  ASSUME StoresInv, repo = "passkeys", NEW o \in Tenants, NEW k \in RowKeys, CreateRow(o, k),
         moved # {} \/ OfAnother(o, k)
  PROVE  Unmoved(mem)' = Unmoved(sql)' /\ moved' # {} /\ moved' \subseteq RowKeys
<1> DEFINE entry == [owner |-> o, key |-> k, stamp |-> writes + 1]
<1>1. /\ mem' = Put(mem, entry, MemCols, Memory[repo].create)
      /\ sql' = Put(sql, entry, PrimaryKey(repo), Postgres[repo].create)
      /\ moved' = IF OfAnother(o, k) THEN moved \cup {k} ELSE moved
      /\ entry.key = k /\ entry.owner = o
  BY DEF CreateRow, Write
<1>2. entry \in RepoRows
  <2>1. Write(o, k, Memory[repo].create, Postgres[repo].create)
    BY DEF CreateRow
  <2> QED
    BY <2>1, WriteIsTyped DEF StoresInv
<1> HIDE DEF entry
<1>3. /\ Memory[repo].create = "replace" /\ Postgres[repo].create = "update"
      /\ MemCols = {"key"} /\ PrimaryKey(repo) = {"key"}
  BY DEF Memory, Postgres, MemPasskeys, SqlPasskeys, Does, MemCols, PrimaryKey, KeyedPerOwner
<1>4. mem \in Seq(RepoRows) /\ sql \in Seq(RepoRows) /\ moved \subseteq RowKeys
      /\ Unmoved(mem) = Unmoved(sql)
  BY DEF StoresInv, StoresTyped, StoresAgree
<1>a. mem' = Put(mem, entry, {"key"}, "replace") /\ sql' = Put(sql, entry, {"key"}, "update")
  BY <1>1, <1>3
<1>5. CASE k \in moved'
  <2>1. Apart(mem', moved') = Apart(mem, moved')
    BY <1>1, <1>2, <1>4, <1>5, <1>a, OthersStay
  <2>2. Apart(sql', moved') = Apart(sql, moved')
    BY <1>1, <1>2, <1>4, <1>5, <1>a, OthersStay
  <2>3. moved \subseteq moved'
    BY <1>1
  <2>4. Apart(mem, moved') = Apart(sql, moved')
    BY <1>4, <2>3 DEF Unmoved, Apart
  <2>5. Unmoved(mem)' = Unmoved(sql)'
    BY <2>1, <2>2, <2>4 DEF Unmoved, Apart
  <2> QED
    BY <1>1, <1>4, <1>5, <2>5
<1>6. CASE k \notin moved'
  <2>1. ~OfAnother(o, k) /\ UNCHANGED moved /\ k \notin moved
    BY <1>1, <1>6
  <2>2. \A i \in DOMAIN mem : mem[i].key = k => mem[i].owner = o
    BY <2>1 DEF OfAnother
  <2>3. \A r \in ToSet(mem) : r.key = k => r.owner = o
    BY <2>2 DEF ToSet
  <2>4. \A r \in ToSet(sql) : r.key = k => r \in ToSet(mem)
    BY <1>4, <2>1 DEF Unmoved
  <2>5. \A i \in DOMAIN sql : sql[i].key = k => sql[i].owner = o
    BY <2>3, <2>4 DEF ToSet
  <2>6. ToSet(mem') = {r \in ToSet(mem) : r.key # k} \cup {entry}
    BY <1>1, <1>2, <1>4, <1>a, <2>2, OneTakesThePlace
  <2>7. ToSet(sql') = {r \in ToSet(sql) : r.key # k} \cup {entry}
    BY <1>1, <1>2, <1>4, <1>a, <2>5, OneTakesThePlace
  <2>8. Unmoved(mem)' = Unmoved(sql)'
    BY <1>4, <2>1, <2>6, <2>7 DEF Unmoved
  <2> QED
    BY <1>4, <2>1, <2>8
<1> QED
  BY <1>5, <1>6

LEMMA CreateKeepsAgreement ==
  ASSUME StoresInv, NEW o \in Tenants, NEW k \in RowKeys, CreateRow(o, k)
  PROVE  StoresInv'
<1> DEFINE entry == [owner |-> o, key |-> k, stamp |-> writes + 1]
<1>1. /\ mem' = Put(mem, entry, MemCols, Memory[repo].create)
      /\ sql' = Put(sql, entry, PrimaryKey(repo), Postgres[repo].create)
      /\ moved' = IF repo = "passkeys" /\ OfAnother(o, k) THEN moved \cup {k} ELSE moved
      /\ entry.key = k /\ entry.owner = o
  BY DEF CreateRow, Write
<1>2. /\ entry \in RepoRows /\ repo' = repo /\ StoresTyped'
  <2>1. Write(o, k, Memory[repo].create, Postgres[repo].create)
    BY DEF CreateRow
  <2>2. moved' \subseteq RowKeys
    BY <1>1 DEF StoresInv, StoresTyped
  <2> QED
    BY <2>1, <2>2, WriteIsTyped DEF StoresInv, StoresTyped
<1> HIDE DEF entry
<1>3. /\ mem \in Seq(RepoRows) /\ repo \in Repos
      /\ moved = {} => mem = sql
      /\ moved # {} => repo = "passkeys"
      /\ MemCols = PrimaryKey(repo) /\ "key" \in MemCols
      /\ repo \in Chosen \/ \A i \in DOMAIN mem : mem[i].key # k
  BY ColumnsAgree DEF StoresInv, StoresTyped, StoresAgree, CreateRow
<1>4. IdsAreOwned(mem)'
  <2>1. \/ Memory[repo].create \in {"keep", "replace"}
        \/ \A i \in DOMAIN mem : mem[i].key # k
    BY <1>3, CreateAgrees
  <2>2. IdsAreOwned(mem')
    BY <1>1, <1>2, <2>1, StillOwned
  <2> QED
    BY <1>2, <2>2 DEF IdsAreOwned
<1>5. CASE repo = "passkeys" /\ (moved # {} \/ OfAnother(o, k))
  <2>1. Unmoved(mem)' = Unmoved(sql)' /\ moved' # {}
    BY <1>5, RegisteredAgain
  <2> QED
    BY <1>2, <1>4, <1>5, <2>1 DEF StoresInv, StoresAgree
<1>6. CASE ~(repo = "passkeys" /\ (moved # {} \/ OfAnother(o, k)))
  <2>1. moved = {} /\ moved' = {} /\ mem = sql
    BY <1>1, <1>3, <1>6
  <2>2. mem' = sql'
    <3>1. CASE \A i \in DOMAIN mem : mem[i].key # k
      <4>1. Met(mem, entry, MemCols) = {}
        BY <1>1, <1>3, <3>1 DEF Met
      <4> QED
        BY <1>1, <1>3, <2>1, <4>1 DEF Put
    <3>2. CASE repo \in Chosen /\ Memory[repo].create = Postgres[repo].create
      BY <1>1, <1>3, <2>1, <3>2
    <3>3. CASE repo \in Chosen /\ Memory[repo].create # Postgres[repo].create
      <4>1. Memory[repo].create = "replace" /\ Postgres[repo].create = "update" /\ repo # "identities"
        BY <3>3, CreateAgrees
      <4>2. repo # "users"
        BY <4>1 DEF Memory, MemUsers, Does
      <4>3. repo \notin KeyedPerOwner => ~OfAnother(o, k)
        BY <1>6, <3>3, <4>1, <4>2 DEF Chosen, KeyedPerOwner, CreateRow
      <4>4. repo \notin KeyedPerOwner =>
              \A i \in DOMAIN mem : mem[i].key = entry.key => mem[i].owner = entry.owner
        BY <1>1, <4>3 DEF OfAnother
      <4>5. Put(mem, entry, MemCols, "replace") = Put(sql, entry, PrimaryKey(repo), "update")
        BY <1>2, <2>1, <4>4, WriteOfOwner
      <4> QED
        BY <1>1, <4>1, <4>5
    <3> QED
      BY <1>3, <3>1, <3>2, <3>3
  <2>3. Unmoved(mem)' = Unmoved(sql)'
    BY <2>2 DEF Unmoved
  <2> QED
    BY <1>2, <1>4, <2>1, <2>2, <2>3 DEF StoresInv, StoresAgree
<1> QED
  BY <1>5, <1>6

LEMMA SaveKeepsAgreement ==
  ASSUME StoresInv, NEW i, SaveRow(i)
  PROVE  StoresInv'
<1> DEFINE o == mem[i].owner
<1> DEFINE k == mem[i].key
<1> DEFINE entry == [owner |-> o, key |-> k, stamp |-> writes + 1]
<1>1. /\ mem \in Seq(RepoRows) /\ i \in DOMAIN mem /\ repo \in Repos /\ Memory[repo].save # "none"
      /\ UNCHANGED moved /\ IdsAreOwned(mem)
      /\ moved = {} => mem = sql
      /\ moved # {} => repo = "passkeys"
  BY DEF StoresInv, StoresTyped, StoresAgree, SaveRow
<1>2. o \in Tenants /\ k \in RowKeys
  <2>1. mem[i] \in RepoRows
    BY <1>1
  <2> QED
    BY <2>1 DEF RepoRows
<1>3. Memory[repo].save = "replace" /\ Postgres[repo].save \in {"replace", "update"} /\ moved = {}
  BY <1>1, SaveAgrees
<1>4. Write(o, k, Memory[repo].save, Postgres[repo].save)
  BY DEF SaveRow
<1>5. /\ mem' = Put(mem, entry, MemCols, "replace")
      /\ sql' = Put(sql, entry, PrimaryKey(repo), Postgres[repo].save)
      /\ entry.key = k /\ entry.owner = o
  BY <1>3, <1>4 DEF Write
<1>6. entry \in RepoRows /\ repo' = repo /\ StoresTyped'
  <2>1. StoresTyped
    BY DEF StoresInv
  <2> HIDE DEF o, k
  <2> QED
    BY <1>1, <1>2, <1>4, <2>1, WriteIsTyped DEF StoresTyped
<1>7. repo \notin KeyedPerOwner => \A j \in DOMAIN mem : mem[j].key = entry.key => mem[j].owner = entry.owner
  BY <1>1, <1>5 DEF IdsAreOwned
<1> HIDE DEF entry, o, k
<1>8. mem' = sql'
  BY <1>3, <1>5, <1>6, <1>7, WriteOfOwner
<1>9. IdsAreOwned(mem')
  BY <1>5, <1>6, StillOwned
<1>10. Unmoved(mem)' = Unmoved(sql)'
  BY <1>8 DEF Unmoved
<1> QED
  BY <1>1, <1>3, <1>6, <1>8, <1>9, <1>10 DEF StoresInv, StoresAgree, IdsAreOwned

LEMMA StoresNextPreserves ==
  ASSUME StoresInv, [StoresNext]_storesVars
  PROVE  StoresInv'
<1>1. CASE UNCHANGED storesVars
  BY <1>1 DEF storesVars, StoresInv, StoresTyped, StoresAgree, Unmoved, IdsAreOwned
<1> QED
  BY <1>1, CreateKeepsAgreement, SaveKeepsAgreement, ChangeKeepsAgreement DEF StoresNext

LEMMA StoresStart == StoresInit => StoresInv
<1> SUFFICES ASSUME StoresInit PROVE StoresInv
  OBVIOUS
<1>1. mem = <<>> /\ sql = <<>> /\ moved = {} /\ writes = 0 /\ repo \in Repos
  BY DEF StoresInit
<1>2. mem \in Seq(RepoRows) /\ sql \in Seq(RepoRows) /\ writes \in 0..MaxWrites
  BY <1>1, StoresAssumption
<1> QED
  BY <1>1, <1>2 DEF StoresInv, StoresTyped, StoresAgree, IdsAreOwned

LEMMA StoresInvariant == StoresSpec => []StoresInv
<1>1. StoresInv /\ [StoresNext]_storesVars => StoresInv'
  BY StoresNextPreserves
<1> QED
  BY <1>1, StoresStart, PTL DEF StoresSpec

\* After the same calls memory and Postgres hold the same rows, each with its owner and the value
\* it was last given, and list an owner's in the same order where they order alike: for any tenants
\* and any number of calls.  A passkey that a second owner registered is the exception, and the
\* rows under every other id agree even then.
THEOREM BackendsAgree == StoresSpec => []SameRows
<1>1. StoresInv => SameRows
  BY DEF StoresInv, StoresAgree, SameRows, OrderedAlike
<1> QED
  BY <1>1, StoresInvariant, PTL

-----------------------------------------------------------------------------
(* A list and its refreshes.                                               *)

ClickPlaces == {"none", "sent", "copied", "ok", "failed", "lost", "loading", "taken", "settled"}
Lists == [ListRows -> RowStates]
ClickStates ==
  [op : ClickOps \cup {"none"}, row : ListRows \cup {"none"}, want : RowStates \cup {"none"},
   at : ClickPlaces, seen : Lists, no : Nat]

PagesTyping ==
  /\ {stored, shown} \subseteq Lists /\ clicks \in [0..MaxClicks -> ClickStates]
  /\ {taken, newest} \subseteq Nat /\ disturbed \in BOOLEAN
  /\ \A n \in 0..MaxClicks : clicks[n].at \in {"sent", "copied"} => clicks[n].want \in RowStates

\* The lists are numbered in the order in which the server has read them, and each is
\* shown once.
ListsAreNumbered ==
  /\ newest <= taken
  /\ \A m, n \in 0..MaxClicks :
       clicks[n].at = "taken" =>
         /\ clicks[n].no \in 1..taken /\ clicks[n].no # newest
         /\ clicks[m].at = "taken" /\ clicks[m].no = clicks[n].no => m = n

\* A page whose buttons are dead while a call is under way has one call or load at a time.
OneAtATime ==
  Viewed[page].serial =>
    \A m, n \in 0..MaxClicks :
      InFlight(n) => /\ InFlight(m) => m = n
                     /\ clicks[n].at = "taken" => clicks[n].no = taken

\* The newest list has been shown, and an older one has come after it.
Overtaken ==
  /\ ~Viewed[page].serial /\ newest < taken
  /\ \A n \in 0..MaxClicks : clicks[n].at = "taken" => clicks[n].no < taken

\* The newest list is what the server has, and is on its way, shown or overtaken, unless a
\* newer one is going to be read.
Refreshed ==
  \/ \E n \in 0..MaxClicks : clicks[n].at \in {"ok", "loading"}
  \/ \E n \in 0..MaxClicks :
       clicks[n].at = "taken" /\ clicks[n].no = taken /\ clicks[n].seen = stored
  \/ newest = taken /\ shown = stored
  \/ Overtaken

PagesInv == PagesTyping /\ ListsAreNumbered /\ OneAtATime /\ (disturbed \/ Refreshed)

LEMMA NoClickIs == NoClick \in ClickStates /\ NoClick.at = "none" /\ NoRows \in Lists
<1>1. NoRows \in Lists
  BY DEF NoRows, Lists, RowStates
<1>2. "none" \in ClickPlaces
  BY DEF ClickPlaces
<1> QED
  BY <1>1, <1>2 DEF NoClick, ClickStates

LEMMA PagesStarts == PagesInit => PagesInv
<1> SUFFICES ASSUME PagesInit PROVE PagesInv
  OBVIOUS
<1>1. 0 \in 0..MaxClicks /\ "loading" \in ClickPlaces
  BY PagesAssumption DEF ClickPlaces
<1>2. /\ clicks \in [0..MaxClicks -> ClickStates] /\ clicks[0].at = "loading"
      /\ \A n \in 0..MaxClicks : clicks[n].at # "taken"
  BY <1>1, NoClickIs DEF PagesInit, ClickStates
<1>3. stored \in Lists /\ shown \in Lists
  BY NoClickIs DEF PagesInit, Lists, RowStates
<1>4. \A n \in 0..MaxClicks : clicks[n].at \notin {"sent", "copied"}
  BY <1>1, <1>2, NoClickIs DEF PagesInit
<1>5. PagesTyping
  <2>1. taken = 0 /\ newest = 0 /\ disturbed = FALSE
    BY DEF PagesInit
  <2>2. {stored, shown} \subseteq Lists /\ {taken, newest} \subseteq Nat
    BY <1>3, <2>1
  <2>3. disturbed \in BOOLEAN
    BY <2>1
  <2> QED
    BY <1>2, <1>4, <2>2, <2>3 DEF PagesTyping
<1>6. ListsAreNumbered /\ Refreshed
  BY <1>1, <1>2 DEF PagesInit, ListsAreNumbered, Refreshed
<1>7. OneAtATime
  <2>1. \A n \in 0..MaxClicks : InFlight(n) => n = 0
    BY <1>1, NoClickIs DEF PagesInit, InFlight
  <2> QED
    BY <1>2, <2>1 DEF OneAtATime
<1> QED
  BY <1>5, <1>6, <1>7 DEF PagesInv

\* A call or load that was under way goes on to where it holds no list.
LEMMA StaysAlone ==
  ASSUME PagesInv, NEW n \in 0..MaxClicks, InFlight(n), clicks'[n].at # "taken",
         UNCHANGED <<page, taken>>, \A m \in (0..MaxClicks) \ {n} : clicks'[m] = clicks[m]
  PROVE  OneAtATime'
<1>1. \A m \in 0..MaxClicks : InFlight(m)' => InFlight(m)
  BY DEF InFlight
<1>2. \A m \in 0..MaxClicks : clicks'[m].at = "taken" => m # n /\ clicks'[m] = clicks[m]
  OBVIOUS
<1> QED
  BY <1>1, <1>2 DEF PagesInv, OneAtATime

\* What a step of click n to another place leaves of it.
LEMMA GoesTo ==
  ASSUME PagesTyping, NEW n \in 0..MaxClicks, NEW at \in ClickPlaces, To(n, at)
  PROVE  /\ clicks' \in [0..MaxClicks -> ClickStates]
         /\ clicks'[n].at = at /\ clicks'[n].seen = clicks[n].seen
         /\ clicks'[n].no = clicks[n].no /\ clicks'[n].want = clicks[n].want
         /\ \A m \in (0..MaxClicks) \ {n} : clicks'[m] = clicks[m]
<1>1. clicks[n] \in ClickStates /\ clicks \in [0..MaxClicks -> ClickStates]
  BY DEF PagesTyping
<1>2. /\ clicks'[n] = [clicks[n] EXCEPT !.at = at]
      /\ \A m \in (0..MaxClicks) \ {n} : clicks'[m] = clicks[m]
  BY <1>1 DEF To
<1>3. /\ clicks'[n] \in ClickStates /\ clicks'[n].at = at /\ clicks'[n].seen = clicks[n].seen
      /\ clicks'[n].no = clicks[n].no /\ clicks'[n].want = clicks[n].want
  BY <1>1, <1>2 DEF ClickStates
<1>4. clicks' \in [0..MaxClicks -> ClickStates]
  BY <1>1, <1>2, <1>3 DEF To
<1> QED
  BY <1>2, <1>3, <1>4

\* A step of a click that neither held a list nor was about to read one.
LEMMA ElsewhereKeeps ==
  ASSUME PagesInv, NEW n \in 0..MaxClicks, UNCHANGED <<page, shown, taken, newest, disturbed>>,
         OneAtATime',
         clicks[n].at \notin {"ok", "loading", "taken"}, clicks'[n].at # "taken",
         clicks' \in [0..MaxClicks -> ClickStates],
         \A m \in (0..MaxClicks) \ {n} : clicks'[m] = clicks[m],
         stored' \in Lists, stored' = stored \/ clicks'[n].at = "ok",
         clicks'[n].at \in {"sent", "copied"} => clicks'[n].want \in RowStates
  PROVE  PagesInv'
<1>1. PagesTyping'
  BY DEF PagesInv, PagesTyping
<1>2. ListsAreNumbered'
  BY DEF PagesInv, ListsAreNumbered
<1>3. ASSUME ~disturbed
      PROVE  Refreshed'
  <2>1. CASE clicks'[n].at = "ok"
    BY <2>1 DEF Refreshed
  <2>2. CASE clicks'[n].at # "ok"
    BY <1>3, <2>2 DEF PagesInv, Refreshed, Overtaken
  <2> QED
    BY <2>1, <2>2
<1> QED
  BY <1>1, <1>2, <1>3 DEF PagesInv, PagesTyping

LEMMA ClickKeeps ==
  ASSUME PagesInv, NEW n \in 0..MaxClicks, NEW op \in ClickOps, NEW r \in ListRows, Click(n, op, r)
  PROVE  PagesInv'
<1>1. PICK want \in RowStates :
        clicks' = [clicks EXCEPT ![n] = [NoClick EXCEPT !.op = op, !.row = r, !.at = "sent",
                                                        !.want = want]]
  BY DEF Click, RowStates
<1> DEFINE c == [NoClick EXCEPT !.op = op, !.row = r, !.at = "sent", !.want = want]
<1>2. c \in ClickStates /\ c.at = "sent" /\ c.want \in RowStates
  <2>1. "sent" \in ClickPlaces
    BY DEF ClickPlaces
  <2> QED
    BY <2>1, NoClickIs DEF ClickStates
<1> HIDE DEF c
<1>3. /\ clicks' \in [0..MaxClicks -> ClickStates] /\ clicks'[n] = c
      /\ \A m \in (0..MaxClicks) \ {n} : clicks'[m] = clicks[m]
  BY <1>1, <1>2 DEF PagesInv, PagesTyping, c
<1>4. /\ clicks[n].at = "none" /\ UNCHANGED <<page, stored, shown, taken, newest, disturbed>>
      /\ stored \in Lists
  BY NoClickIs DEF Click, PagesInv, PagesTyping
<1>5. OneAtATime'
  <2>1. Viewed[page].serial => \A m \in 0..MaxClicks : ~InFlight(m)
    BY DEF Click, PagesInv, PagesTyping
  <2>2. \A m \in 0..MaxClicks : m # n => (InFlight(m)' <=> InFlight(m))
    BY <1>3 DEF InFlight
  <2> QED
    BY <1>2, <1>3, <1>4, <2>1, <2>2 DEF OneAtATime
<1> QED
  BY <1>2, <1>3, <1>4, <1>5, ElsewhereKeeps

LEMMA ServeKeeps ==
  ASSUME PagesInv, NEW n \in 0..MaxClicks, ServeClick(n) \/ SaveCopy(n)
  PROVE  PagesInv'
<1>1. PICK at \in {"ok", "copied", "failed"} : To(n, at) /\ (stored' = stored \/ at = "ok")
  BY DEF ServeClick, SaveCopy
<1>2. at \in ClickPlaces /\ PagesTyping
  BY DEF ClickPlaces, PagesInv
<1>3. /\ clicks' \in [0..MaxClicks -> ClickStates] /\ clicks'[n].at = at
      /\ clicks'[n].want = clicks[n].want
      /\ \A m \in (0..MaxClicks) \ {n} : clicks'[m] = clicks[m]
  BY <1>1, <1>2, GoesTo
<1>4. /\ clicks[n].at \in {"sent", "copied"} /\ InFlight(n)
      /\ UNCHANGED <<page, shown, taken, newest, disturbed>>
  BY DEF ServeClick, SaveCopy, InFlight
<1>5. stored' \in Lists
  <2>1. clicks[n].want \in RowStates /\ stored \in Lists
    BY <1>4 DEF PagesInv, PagesTyping
  <2>2. stored' = stored \/ stored' = [stored EXCEPT ![clicks[n].row] = clicks[n].want]
    BY DEF ServeClick, SaveCopy
  <2> QED
    BY <2>1, <2>2 DEF Lists
<1>6. clicks[n].want \in RowStates
  BY <1>4 DEF PagesInv, PagesTyping
<1>7. OneAtATime'
  BY <1>3, <1>4, StaysAlone
<1> QED
  BY <1>1, <1>3, <1>4, <1>5, <1>6, <1>7, ElsewhereKeeps

\* An answer that is good is followed by a load, on every page.
LEMMA SettleKeeps ==
  ASSUME PagesInv, NEW n \in 0..MaxClicks, Settle(n)
  PROVE  PagesInv'
<1>1. PICK at \in {"loading", "settled"} : To(n, at) /\ (clicks[n].at = "ok" => at = "loading")
  BY DEF Settle
<1>2. at \in ClickPlaces /\ PagesTyping
  BY DEF ClickPlaces, PagesInv
<1>3. /\ clicks' \in [0..MaxClicks -> ClickStates] /\ clicks'[n].at = at
      /\ \A m \in (0..MaxClicks) \ {n} : clicks'[m] = clicks[m]
  BY <1>1, <1>2, GoesTo
<1>4. clicks[n].at \in {"ok", "failed", "lost"} /\ InFlight(n)
      /\ UNCHANGED <<page, stored, shown, taken, newest, disturbed>>
  BY DEF Settle, InFlight
<1>5. PagesTyping'
  BY <1>2, <1>3, <1>4 DEF PagesTyping
<1>6. ListsAreNumbered'
  BY <1>3, <1>4 DEF PagesInv, ListsAreNumbered
<1>7. Refreshed => Refreshed'
  BY <1>1, <1>3, <1>4 DEF Refreshed, Overtaken
<1>8. OneAtATime'
  BY <1>3, <1>4, StaysAlone
<1> QED
  BY <1>4, <1>5, <1>6, <1>7, <1>8 DEF PagesInv

\* The list that is read is what the server has, and newer than every other.
LEMMA ReadKeeps ==
  ASSUME PagesInv, NEW n \in 0..MaxClicks, ReadRows(n)
  PROVE  PagesInv'
<1>1. /\ clicks[n] \in ClickStates /\ clicks \in [0..MaxClicks -> ClickStates]
      /\ "taken" \in ClickPlaces /\ stored \in Lists /\ taken \in Nat /\ newest \in Nat
      /\ newest <= taken /\ clicks[n].at = "loading" /\ taken' = taken + 1
      /\ UNCHANGED <<page, stored, shown, newest>> /\ disturbed' = FALSE
  BY DEF PagesInv, PagesTyping, ListsAreNumbered, ClickPlaces, ReadRows
<1>2. PICK k \in Nat : k = taken + 1
  BY <1>1
<1>3. /\ clicks'[n] = [clicks[n] EXCEPT !.at = "taken", !.seen = stored, !.no = k]
      /\ \A m \in (0..MaxClicks) \ {n} : clicks'[m] = clicks[m]
  BY <1>1, <1>2 DEF ReadRows
<1>4. clicks'[n] \in ClickStates
  BY <1>1, <1>3 DEF ClickStates
<1>5. /\ clicks'[n].at = "taken" /\ clicks'[n].seen = stored /\ clicks'[n].no = k
      /\ clicks'[n].want = clicks[n].want
  BY <1>1, <1>3 DEF ClickStates
<1>6. clicks' \in [0..MaxClicks -> ClickStates]
  BY <1>1, <1>3, <1>4 DEF ReadRows
<1>7. PagesTyping'
  <2>1. taken' \in Nat /\ newest' \in Nat
    BY <1>1, <1>2
  <2>2. \A m \in 0..MaxClicks :
          clicks'[m].at \in {"sent", "copied"} => clicks'[m].want \in RowStates
    BY <1>3, <1>5 DEF PagesInv, PagesTyping
  <2>3. {stored', shown'} \subseteq Lists /\ disturbed' \in BOOLEAN
    BY <1>1 DEF PagesInv, PagesTyping
  <2> QED
    BY <1>6, <2>1, <2>2, <2>3 DEF PagesTyping
<1>8. ListsAreNumbered'
  <2>1. ASSUME NEW m \in 0..MaxClicks, clicks'[m].at = "taken", m # n
        PROVE  clicks'[m] = clicks[m] /\ clicks[m].no \in 1..taken /\ clicks[m].no # newest
               /\ clicks[m].no # k
    BY <1>1, <1>2, <1>3, <2>1 DEF PagesInv, ListsAreNumbered
  <2>2. ASSUME NEW m \in 0..MaxClicks, clicks'[m].at = "taken"
        PROVE  clicks'[m].no \in 1..taken' /\ clicks'[m].no # newest'
    BY <1>1, <1>2, <1>5, <2>1, <2>2
  <2>3. ASSUME NEW m \in 0..MaxClicks, NEW i \in 0..MaxClicks, clicks'[i].at = "taken",
               clicks'[m].at = "taken", clicks'[m].no = clicks'[i].no
        PROVE  m = i
    BY <1>5, <2>1, <2>3 DEF PagesInv, ListsAreNumbered
  <2>4. newest' <= taken'
    BY <1>1
  <2> QED
    BY <2>2, <2>3, <2>4 DEF ListsAreNumbered
<1>9. Refreshed'
  BY <1>1, <1>2, <1>5 DEF Refreshed
<1>10. OneAtATime'
  <2>1. InFlight(n) /\ \A m \in 0..MaxClicks : m # n => (InFlight(m)' <=> InFlight(m))
    BY <1>1, <1>3 DEF InFlight
  <2>2. Viewed[page].serial => \A m \in 0..MaxClicks : InFlight(m)' => m = n
    BY <2>1 DEF PagesInv, OneAtATime
  <2> QED
    BY <1>1, <1>2, <1>5, <2>2 DEF OneAtATime
<1> QED
  BY <1>1, <1>7, <1>8, <1>9, <1>10 DEF PagesInv

\* The newest list is current when it is shown, and is overtaken by an older one.
LEMMA ShowKeeps ==
  ASSUME PagesInv, NEW n \in 0..MaxClicks, ShowRows(n)
  PROVE  PagesInv'
<1>1. "settled" \in ClickPlaces /\ PagesTyping /\ To(n, "settled")
  BY DEF ClickPlaces, PagesInv, ShowRows
<1>2. /\ clicks' \in [0..MaxClicks -> ClickStates] /\ clicks'[n].at = "settled"
      /\ \A m \in (0..MaxClicks) \ {n} : clicks'[m] = clicks[m]
  BY <1>1, GoesTo
<1>3. /\ clicks[n] \in ClickStates /\ clicks[n].at = "taken" /\ clicks[n].no \in 1..taken
      /\ clicks[n].no # newest /\ {taken, newest} \subseteq Nat /\ newest <= taken
  BY DEF PagesInv, PagesTyping, ListsAreNumbered, ShowRows
<1>4. /\ shown' = clicks[n].seen /\ newest' = clicks[n].no
      /\ UNCHANGED <<page, stored, taken, disturbed>> /\ InFlight(n)
  BY DEF ShowRows, InFlight
<1>5. PagesTyping'
  <2>1. clicks[n].seen \in Lists /\ newest' \in Nat
    BY <1>3, <1>4 DEF ClickStates
  <2> QED
    BY <1>1, <1>2, <1>4, <2>1 DEF PagesTyping
<1>6. ListsAreNumbered'
  BY <1>2, <1>3, <1>4 DEF PagesInv, ListsAreNumbered
<1>7. ASSUME Refreshed
      PROVE  Refreshed'
  <2>1. CASE \E m \in 0..MaxClicks : clicks[m].at \in {"ok", "loading"}
    BY <1>2, <1>3, <2>1 DEF Refreshed
  <2>2. ASSUME NEW m \in 0..MaxClicks, clicks[m].at = "taken", clicks[m].no = taken,
               clicks[m].seen = stored
        PROVE  Refreshed'
    <3>1. CASE m = n
      BY <1>4, <2>2, <3>1 DEF Refreshed
    <3>2. CASE m # n
      BY <1>2, <1>4, <2>2, <3>2 DEF Refreshed
    <3> QED
      BY <3>1, <3>2
  <2>3. CASE newest = taken
    <3>1. ~Viewed[page].serial
      BY <1>3, <1>4, <2>3 DEF PagesInv, OneAtATime
    <3>2. \A m \in 0..MaxClicks :
            clicks[m].at = "taken" => clicks[m].no \in 1..taken /\ clicks[m].no # taken
      BY <2>3 DEF PagesInv, ListsAreNumbered
    <3>3. \A m \in 0..MaxClicks : clicks[m].at = "taken" => clicks[m].no < taken
      BY <1>3, <3>2
    <3>4. Overtaken'
      BY <1>2, <1>3, <1>4, <3>1, <3>3 DEF Overtaken
    <3> QED
      BY <3>4 DEF Refreshed
  <2>4. CASE Overtaken
    <3>1. Overtaken'
      BY <1>2, <1>3, <1>4, <2>4 DEF Overtaken
    <3> QED
      BY <3>1 DEF Refreshed
  <2> QED
    BY <1>7, <2>1, <2>2, <2>3, <2>4 DEF Refreshed
<1>8. OneAtATime'
  BY <1>2, <1>4, StaysAlone
<1> QED
  BY <1>4, <1>5, <1>6, <1>7, <1>8 DEF PagesInv

LEMMA InterruptKeeps ==
  ASSUME PagesInv, NEW n \in 0..MaxClicks, Interrupt(n)
  PROVE  PagesInv'
<1>1. PICK at \in {"lost", "settled"} : To(n, at)
  BY DEF Interrupt
<1>2. at \in ClickPlaces /\ PagesTyping
  BY DEF ClickPlaces, PagesInv
<1>3. /\ clicks' \in [0..MaxClicks -> ClickStates] /\ clicks'[n].at = at
      /\ \A m \in (0..MaxClicks) \ {n} : clicks'[m] = clicks[m]
  BY <1>1, <1>2, GoesTo
<1>4. /\ UNCHANGED <<page, stored, taken, newest>> /\ disturbed' = TRUE
      /\ shown' = shown \/ shown' = NoRows
      /\ InFlight(n) /\ at # "taken"
  BY <1>1 DEF Interrupt, InFlight
<1>5. PagesTyping'
  BY <1>2, <1>3, <1>4, NoClickIs DEF PagesTyping
<1>6. ListsAreNumbered'
  BY <1>3, <1>4 DEF PagesInv, ListsAreNumbered
<1>7. OneAtATime'
  BY <1>3, <1>4, StaysAlone
<1> QED
  BY <1>4, <1>5, <1>6, <1>7 DEF PagesInv

LEMMA PagesNextPreserves ==
  ASSUME PagesInv, [PagesNext]_pagesVars
  PROVE  PagesInv'
<1>1. CASE UNCHANGED pagesVars
  BY <1>1 DEF PagesInv, PagesTyping, ListsAreNumbered, OneAtATime, Refreshed, Overtaken, InFlight,
              pagesVars
<1>2. ASSUME NEW n \in 0..MaxClicks, NEW op \in ClickOps, NEW r \in ListRows, Click(n, op, r)
      PROVE  PagesInv'
  BY <1>2, ClickKeeps
<1>3. ASSUME NEW n \in 0..MaxClicks,
             ServeClick(n) \/ SaveCopy(n) \/ Settle(n) \/ ReadRows(n) \/ ShowRows(n) \/ Interrupt(n)
      PROVE  PagesInv'
  BY <1>3, ServeKeeps, SettleKeeps, ReadKeeps, ShowKeeps, InterruptKeeps
<1> QED
  BY <1>1, <1>2, <1>3 DEF PagesNext

LEMMA CurrentWhenQuiet == PagesInv => ListIsCurrent
<1> SUFFICES ASSUME PagesInv, \A n \in DOMAIN clicks : ~InFlight(n), ~disturbed,
                    newest = taken \/ Viewed[page].serial
             PROVE  shown = stored
  BY DEF ListIsCurrent
<1>1. \A n \in 0..MaxClicks : clicks[n].at \in {"none", "settled"}
  BY DEF PagesInv, PagesTyping, InFlight
<1>2. ~Overtaken
  BY DEF PagesInv, PagesTyping, Overtaken
<1> QED
  BY <1>1, <1>2 DEF PagesInv, Refreshed

\* Each of the pages, however many rows and however its calls and loads overlap, cross or are
\* lost: once none is under way it shows what the server has, if the list read last was shown
\* last and nothing was lost after it was read.
THEOREM PagesShowWhatIsStored == PagesSpec => []ListIsCurrent
<1>1. PagesInit => PagesInv
  BY PagesStarts
<1>2. PagesInv /\ [PagesNext]_pagesVars => PagesInv'
  BY PagesNextPreserves
<1> QED
  BY <1>1, <1>2, CurrentWhenQuiet, PTL DEF PagesSpec

-----------------------------------------------------------------------------
(* The rate limit.  The argument is an account: what has been admitted since *)
(* a request and what is left in the bucket came either from a full bucket *)
(* or from the inflow since that request.                                  *)

USE GatewayAssumption

LEMMA ConstantsAreNatural == MaxCalls \in Nat /\ Burst \in Nat /\ Rate \in Nat /\ MaxTicks \in Nat
  OBVIOUS

LEMMA MinOfTwo ==
  ASSUME NEW a \in Nat, NEW b \in Nat
  PROVE  Min({a, b}) \in Nat /\ Min({a, b}) <= a /\ Min({a, b}) <= b
<1>1. \E x \in {a, b} : \A y \in {a, b} : x <= y
  <2>1. CASE a <= b
    BY <2>1
  <2>2. CASE b <= a
    BY <2>2
  <2> QED
    BY <2>1, <2>2
<1>2. Min({a, b}) \in {a, b} /\ \A y \in {a, b} : Min({a, b}) <= y
  BY <1>1 DEF Min
<1> QED
  BY <1>2

\* What flows in between two moments.
Inflow(t, u) == Rate * (u - t)

LEMMA InflowIsNatural ==
  ASSUME NEW t \in Nat, NEW u \in Nat, t <= u
  PROVE  Inflow(t, u) \in Nat /\ Inflow(t, u) = (u - t) * Rate /\ Inflow(u, u) = 0
  BY ConstantsAreNatural DEF Inflow

\* Inflow over two stretches of time is inflow over the whole of it.
LEMMA InflowAddsUp ==
  ASSUME NEW t \in Nat, NEW u \in Nat, NEW v \in Nat, t <= u, u <= v
  PROVE  Inflow(t, v) = Inflow(t, u) + Inflow(u, v)
  BY ConstantsAreNatural DEF Inflow

LEMMA Balance ==
  ASSUME NEW spent \in Nat, NEW left \in Nat, NEW tokens \in Nat, NEW full \in Nat,
         NEW since \in Nat, NEW flow \in Nat,
         spent + tokens <= full + since, left <= tokens + flow
  PROVE  spent + left <= full + (since + flow)
  OBVIOUS

-----------------------------------------------------------------------------
\* A request that was admitted i-th, seen from a bucket b.
Accounted(i, b) ==
  /\ admitted[i] \in Nat /\ admitted[i] <= b.last
  /\ Token * (Len(admitted) - i + 1) + b.tokens <= Burst + Inflow(admitted[i], b.last)

BucketOK(b) ==
  /\ b \in [tokens : Nat, last : Nat]
  /\ b.tokens <= Burst /\ b.last <= clock
  /\ \A i \in 1..Len(admitted) : Accounted(i, b)

BucketInv ==
  /\ clock \in Nat
  /\ admitted \in Seq(Nat)
  /\ BucketOK(bucket)
  /\ NeverMoreThanTheBucket

LEMMA RefillKeepsAccount ==
  ASSUME BucketInv
  PROVE  BucketOK(Refill(bucket)) /\ Refill(bucket).last = clock
<1>1. /\ clock \in Nat /\ bucket \in [tokens : Nat, last : Nat] /\ bucket.last <= clock
      /\ Burst \in Nat /\ Rate \in Nat /\ bucket.tokens <= Burst
  BY ConstantsAreNatural DEF BucketInv, BucketOK
<1> DEFINE flow == (clock - bucket.last) * Rate
           left == Min({Burst, bucket.tokens + flow})
<1>2. flow \in Nat /\ flow = Inflow(bucket.last, clock)
  BY <1>1, InflowIsNatural
<1>3. left \in Nat /\ left <= Burst /\ left <= bucket.tokens + flow
  BY <1>1, <1>2, MinOfTwo
<1>4. Refill(bucket) = [tokens |-> left, last |-> clock]
  BY DEF Refill
<1>5. ASSUME NEW i \in 1..Len(admitted)
      PROVE  Accounted(i, Refill(bucket))
  <2>1. /\ admitted[i] \in Nat /\ admitted[i] <= bucket.last /\ Len(admitted) \in Nat
        /\ Token * (Len(admitted) - i + 1) + bucket.tokens
             <= Burst + Inflow(admitted[i], bucket.last)
    BY DEF BucketInv, BucketOK, Accounted
  <2>2. Inflow(admitted[i], clock) = Inflow(admitted[i], bucket.last) + flow
    BY <1>1, <1>2, <2>1, InflowAddsUp
  <2>3. Inflow(admitted[i], bucket.last) \in Nat
    BY <1>1, <2>1, InflowIsNatural
  <2> DEFINE since == Inflow(admitted[i], bucket.last)
             spent == Token * (Len(admitted) - i + 1)
  <2>4. spent \in Nat
    BY <2>1 DEF Token
  <2>5. since \in Nat /\ spent + bucket.tokens <= Burst + since
    BY <2>1, <2>3
  <2> HIDE DEF flow, left, since, spent
  <2>6. spent + left <= Burst + (since + flow)
    <3>1. /\ spent \in Nat /\ since \in Nat /\ flow \in Nat /\ left \in Nat
          /\ Burst \in Nat /\ bucket.tokens \in Nat
          /\ spent + bucket.tokens <= Burst + since /\ left <= bucket.tokens + flow
      BY <1>1, <1>2, <1>3, <2>4, <2>5
    <3> QED
      BY <3>1, Balance
  <2>7. Token * (Len(admitted) - i + 1) + left <= Burst + Inflow(admitted[i], clock)
    BY <2>2, <2>6 DEF since, spent
  <2> QED
    BY <1>1, <1>4, <2>1, <2>7 DEF Accounted
<1> QED
  BY <1>1, <1>3, <1>4, <1>5 DEF BucketOK

\* A request that finds no token leaves the account as it was.
LEMMA RefusalPreserves ==
  ASSUME BucketInv, bucket' = Refill(bucket), UNCHANGED <<clock, admitted>>
  PROVE  BucketInv'
<1>1. BucketOK(bucket)'
  BY RefillKeepsAccount DEF BucketOK, Accounted
<1> QED
  BY <1>1 DEF BucketInv, NeverMoreThanTheBucket

\* One that takes a token: the account of those before it gives what the
\* bucket loses to the new one, whose own begins with the bucket.
LEMMA AdmissionPreserves ==
  ASSUME BucketInv, Refill(bucket).tokens >= Token,
         bucket' = [tokens |-> Refill(bucket).tokens - Token, last |-> Refill(bucket).last],
         admitted' = Append(admitted, clock),
         UNCHANGED clock
  PROVE  BucketInv'
<1> DEFINE b == Refill(bucket)
           n == Len(admitted)
<1>1. /\ clock \in Nat /\ admitted \in Seq(Nat) /\ n \in Nat /\ Burst \in Nat /\ Rate \in Nat
      /\ BucketOK(b) /\ b.last = clock
  BY RefillKeepsAccount, ConstantsAreNatural, LenProperties DEF BucketInv
<1>2. /\ bucket' \in [tokens : Nat, last : Nat] /\ bucket'.last = clock
      /\ bucket'.tokens = b.tokens - Token /\ bucket'.tokens <= Burst
      /\ b.tokens \in Nat /\ b.tokens <= Burst
  BY <1>1 DEF BucketOK, Token
<1>3. /\ admitted' \in Seq(Nat) /\ Len(admitted') = n + 1 /\ admitted'[n + 1] = clock
      /\ \A i \in 1..n : admitted'[i] = admitted[i]
  BY <1>1, AppendProperties
<1> HIDE DEF b, n
<1>4. \A i \in 1..n : /\ admitted[i] \in Nat /\ admitted[i] <= clock
                      /\ Token * (n - i + 1) + b.tokens <= Burst + Inflow(admitted[i], clock)
                      /\ Inflow(admitted[i], clock) \in Nat
  <2>1. ASSUME NEW i \in 1..n
        PROVE  Accounted(i, b)
    BY <1>1 DEF BucketOK, n
  <2> QED
    BY <1>1, <2>1, InflowIsNatural DEF Accounted, n
<1>5. ASSUME NEW i \in 1..(n + 1)
      PROVE  /\ admitted'[i] \in Nat /\ admitted'[i] <= clock
             /\ Inflow(admitted'[i], clock) \in Nat
             /\ 2 * ((n + 1) - i + 1) + bucket'.tokens <= Burst + Inflow(admitted'[i], clock)
  <2> DEFINE since == Inflow(admitted'[i], clock)
  <2>1. CASE i = n + 1
    <3>1. admitted'[i] = clock /\ Inflow(clock, clock) = 0
      <4>1. clock <= clock
        BY <1>1
      <4>2. Inflow(clock, clock) = 0
        BY <1>1, <4>1, InflowIsNatural, Zenon
      <4> QED
        BY <1>3, <2>1, <4>2
    <3>2. since = 0 /\ admitted'[i] = clock
      BY <3>1
    <3> HIDE DEF since
    <3>3. 2 * ((n + 1) - i + 1) + bucket'.tokens <= Burst + since
      BY <1>1, <1>2, <2>1, <3>2 DEF Token
    <3> QED
      BY <1>1, <3>2, <3>3 DEF since
  <2>2. CASE i # n + 1
    <3>1. i \in 1..n
      BY <1>1, <2>2
    <3>2. /\ since \in Nat /\ 2 * (n - i + 1) + b.tokens <= Burst + since
          /\ admitted'[i] \in Nat /\ admitted'[i] <= clock
      BY <1>3, <1>4, <3>1 DEF Token
    <3> HIDE DEF since
    <3>3. 2 * ((n + 1) - i + 1) + bucket'.tokens <= Burst + since
      <4>1. n \in Nat /\ Burst \in Nat /\ b.tokens \in Nat /\ bucket'.tokens = b.tokens - 2
        BY <1>1, <1>2 DEF Token
      <4> QED
        BY <3>1, <3>2, <4>1
    <3> QED
      BY <3>2, <3>3 DEF since
  <2> QED
    BY <2>1, <2>2
<1>6. \A i \in 1..(n + 1) : Accounted(i, bucket)'
  <2> SUFFICES ASSUME NEW i \in 1..(n + 1)
               PROVE  /\ admitted'[i] \in Nat /\ admitted'[i] <= bucket'.last
                      /\ 2 * (Len(admitted') - i + 1) + bucket'.tokens
                           <= Burst + Inflow(admitted'[i], bucket'.last)
    BY DEF Accounted, Inflow, Token
  <2>1. Len(admitted') = n + 1 /\ bucket'.last = clock
    BY <1>2, <1>3
  <2>2. /\ admitted'[i] \in Nat /\ admitted'[i] <= clock
        /\ 2 * ((n + 1) - i + 1) + bucket'.tokens <= Burst + Inflow(admitted'[i], clock)
    BY <1>5
  <2> QED
    BY <2>1, <2>2, Zenon
<1>7. BucketOK(bucket)'
  BY <1>1, <1>2, <1>3, <1>6 DEF BucketOK
<1>8. ASSUME NEW i \in DOMAIN admitted', NEW j \in DOMAIN admitted', i <= j
      PROVE  Token * (j - i + 1) <= Burst + Rate * (admitted'[j] - admitted'[i])
  <2>1. i \in 1..(n + 1) /\ j \in 1..(n + 1) /\ DOMAIN admitted = 1..n
    BY <1>1, <1>3, LenProperties DEF n
  <2>2. CASE j = n + 1
    <3> DEFINE since == Inflow(admitted'[i], clock)
    <3>1. since \in Nat /\ 2 * ((n + 1) - i + 1) + bucket'.tokens <= Burst + since
      BY <1>5, <2>1
    <3>2. bucket'.tokens \in Nat
      BY <1>2
    <3> HIDE DEF since
    <3>3. 2 * (j - i + 1) <= Burst + since
      BY <1>1, <2>1, <2>2, <3>1, <3>2
    <3>4. since = Rate * (admitted'[j] - admitted'[i])
      BY <1>3, <2>2 DEF since, Inflow
    <3> QED
      BY <3>3, <3>4 DEF Token
  <2>3. CASE j # n + 1
    <3>1. i \in 1..n /\ j \in 1..n
      BY <1>1, <1>8, <2>1, <2>3
    <3> QED
      BY <1>3, <1>8, <2>1, <3>1 DEF BucketInv, NeverMoreThanTheBucket
  <2> QED
    BY <2>2, <2>3
<1>9. NeverMoreThanTheBucket'
  BY <1>8 DEF NeverMoreThanTheBucket
<1> QED
  BY <1>1, <1>3, <1>7, <1>9 DEF BucketInv

LEMMA AllowPreserves ==
  ASSUME BucketInv, NEW c, NEW goesOn, Allow(c, goesOn), UNCHANGED clock
  PROVE  BucketInv'
<1> DEFINE b == Refill(bucket)
<1>1. b = [tokens |-> b.tokens, last |-> b.last]
  BY DEF Refill
<1> HIDE DEF b
<1>2. [b EXCEPT !.tokens = @ - Token] = [tokens |-> b.tokens - Token, last |-> b.last]
  BY <1>1
<1>3. CASE b.tokens >= Token
  BY <1>2, <1>3, AdmissionPreserves DEF Allow, b
<1>4. CASE ~(b.tokens >= Token)
  BY <1>4, RefusalPreserves DEF Allow, b
<1> QED
  BY <1>3, <1>4

LEMMA BucketInitEstablishes == GatewayInit => BucketInv
<1> SUFFICES ASSUME GatewayInit PROVE BucketInv
  OBVIOUS
<1>1. clock = 0 /\ admitted = <<>> /\ bucket = [tokens |-> Burst, last |-> 0]
  BY DEF GatewayInit
<1>2. Len(admitted) = 0 /\ DOMAIN admitted = {} /\ admitted \in Seq(Nat)
  BY <1>1
<1> QED
  BY <1>1, <1>2, ConstantsAreNatural DEF BucketInv, BucketOK, NeverMoreThanTheBucket

LEMMA BucketNextPreserves == BucketInv /\ [GatewayNext]_gatewayVars => BucketInv'
<1> SUFFICES ASSUME BucketInv, [GatewayNext]_gatewayVars PROVE BucketInv'
  OBVIOUS
<1>1. ASSUME UNCHANGED <<bucket, clock, admitted>>
      PROVE  BucketInv'
  BY <1>1 DEF BucketInv, BucketOK, Accounted, NeverMoreThanTheBucket
<1>2. CASE UNCHANGED gatewayVars
  BY <1>1, <1>2 DEF gatewayVars
<1>3. CASE Tick
  <2>1. clock' = clock + 1 /\ UNCHANGED <<bucket, admitted>>
    BY <1>3 DEF Tick
  <2> QED
    BY <2>1 DEF BucketInv, BucketOK, Accounted, NeverMoreThanTheBucket
<1>4. ASSUME NEW c \in Calls, NEW known \in BOOLEAN, Gate(c, known) \/ Operate(c, known)
      PROVE  BucketInv'
  BY <1>1, <1>4, AllowPreserves DEF Gate, Operate
<1>5. ASSUME NEW c \in Calls, Rpc(c)
      PROVE  BucketInv'
  BY <1>1, <1>5, AllowPreserves DEF Rpc
<1>6. ASSUME NEW c \in Calls, NEW fine \in BOOLEAN, SetPlan(c, fine) \/ Speak(c, fine)
      PROVE  BucketInv'
  BY <1>1, <1>6 DEF SetPlan, Speak
<1>7. ASSUME NEW c \in Calls, Route(c) \/ RunStaged(c) \/ Audited(c) \/ CheckQuota(c)
                                \/ Record(c) \/ Handle(c)
      PROVE  BucketInv'
  BY <1>1, <1>7 DEF Route, RunStaged, Audited, CheckQuota, Record, Handle
<1>8. ASSUME NEW c \in Calls, NEW ask \in AskedFor, NEW tool \in McpTools \cup {"none"},
             Arrive(c, ask, tool)
      PROVE  BucketInv'
  BY <1>1, <1>8 DEF Arrive
<1> QED
  BY <1>2, <1>3, <1>4, <1>5, <1>6, <1>7, <1>8 DEF GatewayNext

\* In no stretch of time does the owner's limit admit more than a full bucket
\* and what flowed in meanwhile (security/ratelimit.ts allow(), for every route of the
\* web server that asks it).
THEOREM BucketBoundsEveryWindow == GatewaySpec => []NeverMoreThanTheBucket
<1>1. BucketInv => NeverMoreThanTheBucket
  BY DEF BucketInv
<1> QED
  BY <1>1, BucketInitEstablishes, BucketNextPreserves, PTL DEF GatewaySpec

-----------------------------------------------------------------------------
(* The audit trail.                                                        *)

Places == {"none", "session", "done", "console", "rpc", "speech", "route", "save plan", "saved",
           "quota", "record", "handle"}
Replies == TurnedAway \cup {"none", "open", "ok", "admin only", "unknown", "report",
                            "(no content)", "isError", "file", "contents", "messages"}
CallStates ==
  [ask : AskedFor \cup {"none"}, tool : McpTools \cup {"none"}, at : Places, answer : Replies,
   made : {"none", "report", "failure", "file", "row"}]

\* Where a request can be, by what it asks.
OnItsWay(r) ==
  /\ r.at # "done" => r.answer = "none"
  /\ r.at = "none" => r.ask = "none"
  /\ r.at = "console" => r.ask \in Console
  /\ r.at \in {"quota", "record"} => r.ask = "tools/call"
  /\ r.at \in {"rpc", "handle"} => r.ask \in McpMethods
  /\ r.at = "speech" => r.ask \in Speech
  /\ r.at = "save plan" => r.ask = "plan"
  /\ r.at = "saved" => r.ask \in Speech \cup {"plan"}
  /\ r.at = "route" => r.ask \notin Speech \cup {"plan"} \cup McpMethods

LetThrough(r) ==
  \/ /\ r.ask = "tools/call"
     /\ r.at = "handle" \/ (r.at = "done" /\ r.answer \notin TurnedAway)
  \/ r.ask \in Speech \cup {"plan"} /\ r.answer = "ok"

RowsOf(c) == {i \in DOMAIN trail : trail[i] = c}
OneRow(c) == \E i \in DOMAIN trail : RowsOf(c) = {i}

TrailInv ==
  /\ req \in [Calls -> CallStates] /\ trail \in Seq(Calls)
  /\ \A c \in Calls : /\ OnItsWay(req[c])
                      /\ IF LetThrough(req[c]) THEN OneRow(c) ELSE RowsOf(c) = {}

\* A step of request c to a place and an answer; the other requests stay where they are.
Moves(c, at, answer) ==
  /\ req' \in [Calls -> CallStates] /\ \A d \in Calls \ {c} : req'[d] = req[d]
  /\ req'[c].at = at /\ req'[c].answer = answer /\ req'[c].ask = req[c].ask

LEMMA EndMoves ==
  ASSUME TrailInv, NEW c \in Calls, NEW made \in {"none", "report", "failure", "file"},
         NEW answer \in Replies,
         req' = [req EXCEPT ![c].at = "done", ![c].made = made, ![c].answer = answer]
  PROVE  Moves(c, "done", answer)
<1>1. req[c] \in CallStates /\ req \in [Calls -> CallStates] /\ "done" \in Places
  BY DEF TrailInv, Places
<1>2. req'[c] = [req[c] EXCEPT !.at = "done", !.made = made, !.answer = answer]
      /\ \A d \in Calls \ {c} : req'[d] = req[d]
  BY <1>1
<1>3. /\ req'[c].at = "done" /\ req'[c].answer = answer /\ req'[c].ask = req[c].ask
      /\ req'[c] \in CallStates
  BY <1>1, <1>2 DEF CallStates
<1>4. req' \in [Calls -> CallStates]
  BY <1>1, <1>2, <1>3
<1> QED
  BY <1>2, <1>3, <1>4 DEF Moves

LEMMA ReplyMoves ==
  ASSUME TrailInv, NEW c \in Calls, NEW answer \in Replies, Answer(c, answer)
  PROVE  Moves(c, "done", answer)
<1>1. req[c] \in CallStates /\ req \in [Calls -> CallStates] /\ "done" \in Places
  BY DEF TrailInv, Places
<1>2. req'[c] = [req[c] EXCEPT !.at = "done", !.answer = answer]
      /\ \A d \in Calls \ {c} : req'[d] = req[d]
  BY <1>1 DEF Answer
<1>3. /\ req'[c].at = "done" /\ req'[c].answer = answer /\ req'[c].ask = req[c].ask
      /\ req'[c] \in CallStates
  BY <1>1, <1>2 DEF CallStates
<1>4. req' \in [Calls -> CallStates]
  BY <1>1, <1>2, <1>3 DEF Answer
<1> QED
  BY <1>2, <1>3, <1>4 DEF Moves

LEMMA ReachMoves ==
  ASSUME TrailInv, NEW c \in Calls, NEW at \in Places, Reach(c, at), req[c].at # "done"
  PROVE  Moves(c, at, "none") /\ req[c].answer = "none"
<1>1. req[c] \in CallStates /\ req \in [Calls -> CallStates] /\ req[c].answer = "none"
  BY DEF TrailInv, OnItsWay
<1>2. req'[c] = [req[c] EXCEPT !.at = at] /\ \A d \in Calls \ {c} : req'[d] = req[d]
  BY <1>1 DEF Reach
<1>3. /\ req'[c].at = at /\ req'[c].answer = "none" /\ req'[c].ask = req[c].ask
      /\ req'[c] \in CallStates
  BY <1>1, <1>2 DEF CallStates
<1>4. req' \in [Calls -> CallStates]
  BY <1>1, <1>2, <1>3 DEF Reach
<1> QED
  BY <1>1, <1>2, <1>3, <1>4 DEF Moves

LEMMA QuietMove ==
  ASSUME TrailInv, NEW c \in Calls, NEW at, NEW answer, Moves(c, at, answer), UNCHANGED trail,
         OnItsWay(req'[c]), LetThrough(req'[c]) <=> LetThrough(req[c])
  PROVE  TrailInv'
<1>2. \A d \in Calls : RowsOf(d)' = RowsOf(d) /\ (OneRow(d)' <=> OneRow(d))
  BY DEF RowsOf, OneRow
<1>3. \A d \in Calls : OnItsWay(req'[d]) /\ (LetThrough(req'[d]) <=> LetThrough(req[d]))
  BY DEF TrailInv, Moves
<1>4. trail' \in Seq(Calls) /\ req' \in [Calls -> CallStates]
  BY DEF TrailInv, Moves
<1> QED
  BY <1>2, <1>3, <1>4 DEF TrailInv

LEMMA RecordedMove ==
  ASSUME TrailInv, NEW c \in Calls, NEW at, NEW answer, Moves(c, at, answer),
         trail' = Append(trail, c), OnItsWay(req'[c]), LetThrough(req'[c]), ~LetThrough(req[c])
  PROVE  TrailInv'
<1>1. req' \in [Calls -> CallStates] /\ \A d \in Calls \ {c} : req'[d] = req[d]
  BY DEF Moves
<1>2. PICK n : /\ trail' \in Seq(Calls) /\ DOMAIN trail' = DOMAIN trail \cup {n}
               /\ n \notin DOMAIN trail /\ trail'[n] = c
               /\ \A i \in DOMAIN trail : trail'[i] = trail[i]
  <2>1. trail \in Seq(Calls)
    BY DEF TrailInv
  <2>2. DOMAIN trail' = 1..(Len(trail) + 1) /\ DOMAIN trail = 1..Len(trail)
    BY <2>1
  <2> QED
    BY <2>1, <2>2
<1>3. ASSUME NEW d \in Calls, d # c
      PROVE  RowsOf(d)' = RowsOf(d) /\ (OneRow(d)' <=> OneRow(d))
  <2>1. RowsOf(d)' = RowsOf(d)
    BY <1>2, <1>3 DEF RowsOf
  <2>2. ASSUME NEW i, RowsOf(d) = {i}
        PROVE  i \in DOMAIN trail /\ i \in DOMAIN trail'
    BY <1>2, <2>2 DEF RowsOf
  <2> QED
    BY <2>1, <2>2 DEF OneRow
<1>4. RowsOf(c)' = {n} /\ OneRow(c)'
  BY <1>2 DEF TrailInv, RowsOf, OneRow
<1>5. ASSUME NEW d \in Calls
      PROVE  OnItsWay(req'[d]) /\ (IF LetThrough(req'[d]) THEN OneRow(d)' ELSE RowsOf(d)' = {})
  <2>1. CASE d = c
    BY <1>4, <2>1
  <2>2. CASE d # c
    BY <1>1, <1>3, <2>2 DEF TrailInv
  <2> QED
    BY <2>1, <2>2
<1> QED
  BY <1>1, <1>2, <1>5 DEF TrailInv

\* A request that is answered without a row: it was not let through, and is not now.
LEMMA AnswerQuietly ==
  ASSUME TrailInv, NEW c \in Calls, NEW answer \in Replies, Moves(c, "done", answer),
         UNCHANGED trail, ~LetThrough(req[c]), answer \in TurnedAway \/ req[c].ask # "tools/call",
         answer # "ok" \/ req[c].ask \notin Speech \cup {"plan"}
  PROVE  TrailInv'
<1>1. OnItsWay(req'[c]) /\ ~LetThrough(req'[c])
  BY DEF OnItsWay, LetThrough, Moves
<1> QED
  BY <1>1, QuietMove

LEMMA ReachQuietly ==
  ASSUME TrailInv, NEW c \in Calls, NEW at \in Places \ {"done"}, Reach(c, at), UNCHANGED trail,
         req[c].at \notin {"done", "handle"}, at = "handle" => req[c].ask # "tools/call",
         OnItsWay([ask |-> req[c].ask, at |-> at, answer |-> "none"])
  PROVE  TrailInv'
<1>1. Moves(c, at, "none") /\ req[c].answer = "none"
  BY ReachMoves
<1>2. OnItsWay(req'[c])
  BY <1>1 DEF OnItsWay, Moves
<1>3. ~LetThrough(req'[c]) /\ ~LetThrough(req[c])
  BY <1>1 DEF LetThrough, Moves
<1> QED
  BY <1>1, <1>2, <1>3, QuietMove

LEMMA RefusedQuietly ==
  ASSUME TrailInv, NEW c \in Calls, NEW answer \in TurnedAway, Answer(c, answer), UNCHANGED trail,
         req[c].at \notin {"done", "handle"}
  PROVE  TrailInv'
<1>1. answer \in Replies /\ answer # "ok"
  BY DEF Replies, TurnedAway
<1>2. Moves(c, "done", answer)
  BY <1>1, ReplyMoves
<1>3. ~LetThrough(req[c])
  BY DEF TrailInv, OnItsWay, LetThrough
<1> QED
  BY <1>1, <1>2, <1>3, AnswerQuietly

LEMMA AllowedOrNot ==
  ASSUME NEW c, NEW goesOn, Allow(c, goesOn)
  PROVE  goesOn \/ (Answer(c, "too many") /\ UNCHANGED trail)
BY DEF Allow, Answer

\* A request arrives unrecorded.
LEMMA ArriveKeepsTrail ==
  ASSUME TrailInv, NEW c \in Calls, NEW ask \in AskedFor, NEW tool \in McpTools \cup {"none"},
         Arrive(c, ask, tool)
  PROVE  TrailInv'
<1>1. PICK next \in {"session", "done"}, answer \in {"refused", "open", "none"} :
        /\ next = "done" => answer = "refused" \/ ask \in Unlimited \cup OpenRoutes
        /\ next # "done" => answer = "none"
        /\ req' = [req EXCEPT ![c] = [NoCall EXCEPT !.ask = ask, !.tool = tool, !.at = next,
                                                   !.answer = answer]]
  BY DEF Arrive
<1> DEFINE r == [NoCall EXCEPT !.ask = ask, !.tool = tool, !.at = next, !.answer = answer]
<1>2. next \in Places /\ answer \in Replies
  BY DEF Places, Replies, TurnedAway
<1>3. NoCall \in CallStates
  BY DEF NoCall, CallStates, Places, Replies
<1>4. r \in CallStates
  BY <1>2, <1>3 DEF CallStates
<1>5. r.ask = ask /\ r.at = next /\ r.answer = answer
  BY <1>3 DEF CallStates
<1> HIDE DEF r
<1>6. OnItsWay(r) /\ ~LetThrough(r)
  BY <1>1, <1>5 DEF OnItsWay, LetThrough, TurnedAway, Unlimited, OpenRoutes, Speech
<1>7. req' = [req EXCEPT ![c] = r] /\ req \in [Calls -> CallStates] /\ trail' = trail
  BY <1>1 DEF r, Arrive, TrailInv
<1>8. /\ req' \in [Calls -> CallStates] /\ req'[c] = r
      /\ \A d \in Calls \ {c} : req'[d] = req[d]
  BY <1>4, <1>7
<1>9. ~LetThrough(req[c])
  BY DEF Arrive, NoCall, LetThrough, Speech
<1>10. \A d \in Calls : OnItsWay(req'[d]) /\ (LetThrough(req'[d]) <=> LetThrough(req[d]))
  BY <1>6, <1>8, <1>9 DEF TrailInv
<1>11. \A d \in Calls : RowsOf(d)' = RowsOf(d) /\ (OneRow(d)' <=> OneRow(d))
  BY <1>7 DEF RowsOf, OneRow
<1> QED
  BY <1>7, <1>8, <1>10, <1>11 DEF TrailInv

LEMMA GateKeepsTrail ==
  ASSUME TrailInv, NEW c \in Calls, NEW known \in BOOLEAN, Gate(c, known)
  PROVE  TrailInv'
<1> DEFINE ask == req[c].ask
           next == CASE ask \in Console -> "console" [] ask \in McpMethods -> "rpc"
                     [] ask \in Speech -> "speech" [] OTHER -> "route"
<1>1. req[c].at = "session" /\ "not authenticated" \in TurnedAway /\ "too many" \in TurnedAway
  BY DEF Gate, TurnedAway
<1>2. next \in Places \ {"done"} /\ next # "handle"
      /\ OnItsWay([ask |-> req[c].ask, at |-> next, answer |-> "none"])
  BY DEF Places, OnItsWay, Console, McpMethods, Speech
<1>3. CASE Answer(c, "not authenticated") /\ UNCHANGED trail
  BY <1>1, <1>3, RefusedQuietly
<1>4. CASE Answer(c, "too many") /\ UNCHANGED trail
  BY <1>1, <1>4, RefusedQuietly
<1>5. CASE Reach(c, next) /\ UNCHANGED trail
  BY <1>1, <1>2, <1>5, ReachQuietly
<1>6. ASSUME Allow(c, Reach(c, next) /\ UNCHANGED <<trail, taskCount>>)
      PROVE  (Reach(c, next) /\ UNCHANGED trail) \/ (Answer(c, "too many") /\ UNCHANGED trail)
  BY <1>6 DEF Allow, Answer
<1> QED
  BY <1>3, <1>4, <1>5, <1>6 DEF Gate

LEMMA OperateKeepsTrail ==
  ASSUME TrailInv, NEW c \in Calls, NEW isAdmin \in BOOLEAN, Operate(c, isAdmin)
  PROVE  TrailInv'
<1>1. /\ req[c].at = "console" /\ req[c].ask \in Console /\ "too many" \in TurnedAway
      /\ ~LetThrough(req[c])
  BY DEF Operate, TrailInv, OnItsWay, LetThrough, TurnedAway
<1>2. CASE Answer(c, "admin only") /\ UNCHANGED trail
  <2>1. Moves(c, "done", "admin only")
    BY <1>2, ReplyMoves DEF Replies
  <2>2. "admin only" \in Replies /\ "admin only" # "ok" /\ req[c].ask # "tools/call"
    BY <1>1 DEF Replies, Console
  <2> QED
    BY <1>1, <1>2, <2>1, <2>2, AnswerQuietly
<1>3. CASE Answer(c, "too many") /\ UNCHANGED trail
  BY <1>1, <1>3, RefusedQuietly
<1>4. CASE Answer(c, "ok") /\ UNCHANGED trail /\ req[c].ask # "plan"
  <2>1. Moves(c, "done", "ok")
    BY <1>4, ReplyMoves DEF Replies
  <2>2. "ok" \in Replies /\ req[c].ask # "tools/call" /\ req[c].ask \notin Speech \cup {"plan"}
    BY <1>1, <1>4 DEF Replies, Console, Speech
  <2> QED
    BY <1>1, <1>4, <2>1, <2>2, AnswerQuietly
<1>5. CASE Reach(c, "save plan") /\ UNCHANGED trail /\ req[c].ask = "plan"
  <2>1. "save plan" \in Places \ {"done"} /\ "save plan" # "handle"
        /\ OnItsWay([ask |-> req[c].ask, at |-> "save plan", answer |-> "none"])
    BY <1>5 DEF Places, OnItsWay
  <2> QED
    BY <1>1, <1>5, <2>1, ReachQuietly
<1> QED
  BY <1>2, <1>3, <1>4, <1>5 DEF Operate, Allow, Answer

LEMMA SaveKeepsTrail ==
  ASSUME TrailInv, NEW c \in Calls, NEW fine \in BOOLEAN, SetPlan(c, fine) \/ Speak(c, fine)
  PROVE  TrailInv'
<1>1. /\ req[c].at \in {"save plan", "speech"} /\ req[c].ask \in Speech \cup {"plan"}
      /\ UNCHANGED trail /\ "refused" \in TurnedAway /\ ~LetThrough(req[c])
  BY DEF SetPlan, Speak, TrailInv, OnItsWay, TurnedAway, LetThrough, Speech
<1>2. CASE Reach(c, "saved")
  <2>1. "saved" \in Places \ {"done"} /\ "saved" # "handle"
        /\ OnItsWay([ask |-> req[c].ask, at |-> "saved", answer |-> "none"])
    BY <1>1 DEF Places, OnItsWay
  <2> QED
    BY <1>1, <1>2, <2>1, ReachQuietly
<1>3. CASE Answer(c, "refused")
  BY <1>1, <1>3, RefusedQuietly
<1>4. CASE Answer(c, "unknown")
  <2>1. Moves(c, "done", "unknown")
    BY <1>4, ReplyMoves DEF Replies
  <2>2. "unknown" \in Replies /\ "unknown" # "ok" /\ req[c].ask # "tools/call"
    BY <1>1 DEF Replies, Speech
  <2> QED
    BY <1>1, <2>1, <2>2, AnswerQuietly
<1> QED
  BY <1>2, <1>3, <1>4 DEF SetPlan, Speak

LEMMA RouteKeepsTrail ==
  ASSUME TrailInv, NEW c \in Calls, Route(c)
  PROVE  TrailInv'
<1>1. /\ req[c].at = "route" /\ req[c].ask \notin Speech \cup {"plan"} /\ UNCHANGED trail
      /\ req[c].ask # "tools/call" /\ "quota" \in TurnedAway /\ ~LetThrough(req[c])
  BY DEF Route, TrailInv, OnItsWay, TurnedAway, LetThrough, McpMethods
<1>2. CASE Answer(c, "quota")
  BY <1>1, <1>2, RefusedQuietly
<1>3. CASE Answer(c, "ok")
  <2>1. Moves(c, "done", "ok") /\ "ok" \in Replies
    BY <1>3, ReplyMoves DEF Replies
  <2> QED
    BY <1>1, <2>1, AnswerQuietly
<1> QED
  BY <1>2, <1>3 DEF Route

\* What a stream makes is not recorded.
LEMMA RunStagedKeepsTrail ==
  ASSUME TrailInv, NEW c \in Calls, RunStaged(c)
  PROVE  TrailInv'
<1>1. req[c] \in CallStates /\ req \in [Calls -> CallStates] /\ UNCHANGED trail
  BY DEF TrailInv, RunStaged
<1>2. req'[c] = [req[c] EXCEPT !.made = "row"] /\ \A d \in Calls \ {c} : req'[d] = req[d]
  BY <1>1 DEF RunStaged
<1>3. /\ req'[c].at = req[c].at /\ req'[c].answer = req[c].answer /\ req'[c].ask = req[c].ask
      /\ req'[c] \in CallStates
  BY <1>1, <1>2 DEF CallStates
<1>4. req' \in [Calls -> CallStates]
  BY <1>1, <1>3 DEF RunStaged
<1>5. Moves(c, req[c].at, req[c].answer)
  BY <1>2, <1>3, <1>4 DEF Moves
<1>6. OnItsWay(req'[c]) /\ (LetThrough(req'[c]) <=> LetThrough(req[c]))
  BY <1>3 DEF TrailInv, OnItsWay, LetThrough
<1> QED
  BY <1>1, <1>5, <1>6, QuietMove

LEMMA RpcKeepsTrail ==
  ASSUME TrailInv, NEW c \in Calls, Rpc(c) \/ CheckQuota(c)
  PROVE  TrailInv'
<1>1. /\ req[c].at \in {"rpc", "quota"} /\ req[c].ask \in McpMethods /\ UNCHANGED trail
      /\ req[c].at = "quota" => req[c].ask = "tools/call"
      /\ "quota" \in TurnedAway /\ "too many" \in TurnedAway
  BY DEF Rpc, CheckQuota, Allow, TrailInv, OnItsWay, TurnedAway, McpMethods
<1>2. CASE Answer(c, "quota")
  BY <1>1, <1>2, RefusedQuietly
<1>3. CASE Answer(c, "too many")
  BY <1>1, <1>3, RefusedQuietly
<1>4. ASSUME NEW at \in {"quota", "record"}, Reach(c, at), req[c].ask = "tools/call"
      PROVE  TrailInv'
  <2>1. at \in Places \ {"done"} /\ at # "handle"
        /\ OnItsWay([ask |-> req[c].ask, at |-> at, answer |-> "none"])
    BY <1>4 DEF Places, OnItsWay
  <2> QED
    BY <1>1, <1>4, <2>1, ReachQuietly
<1>5. CASE Reach(c, "handle") /\ req[c].ask # "tools/call"
  <2>1. "handle" \in Places \ {"done"}
        /\ OnItsWay([ask |-> req[c].ask, at |-> "handle", answer |-> "none"])
    BY <1>1 DEF Places, OnItsWay
  <2> QED
    BY <1>1, <1>5, <2>1, ReachQuietly
<1> QED
  BY <1>1, <1>2, <1>3, <1>4, <1>5 DEF Rpc, CheckQuota, Allow, Answer

\* The two steps that write a row let the request through.
LEMMA RecordKeepsTrail ==
  ASSUME TrailInv, NEW c \in Calls, Record(c) \/ Audited(c)
  PROVE  TrailInv'
<1>1. req[c].at \in {"record", "saved"} /\ trail' = Append(trail, c) /\ ~LetThrough(req[c])
  BY DEF Record, Audited, TrailInv, OnItsWay, LetThrough
<1>2. CASE Record(c)
  <2>1. "handle" \in Places /\ Reach(c, "handle") /\ req[c].at # "done" /\ req[c].ask = "tools/call"
    BY <1>2 DEF Places, Record, TrailInv, OnItsWay
  <2>2. Moves(c, "handle", "none")
    BY <2>1, ReachMoves
  <2>3. OnItsWay(req'[c]) /\ LetThrough(req'[c])
    BY <2>1, <2>2 DEF Moves, OnItsWay, LetThrough, McpMethods
  <2> QED
    BY <1>1, <2>2, <2>3, RecordedMove
<1>3. CASE Audited(c)
  <2>1. "ok" \in Replies /\ Answer(c, "ok") /\ req[c].ask \in Speech \cup {"plan"}
    BY <1>3 DEF Replies, Audited, TrailInv, OnItsWay
  <2>2. Moves(c, "done", "ok")
    BY <2>1, ReplyMoves
  <2>3. OnItsWay(req'[c]) /\ LetThrough(req'[c])
    BY <2>1, <2>2 DEF Moves, OnItsWay, LetThrough
  <2> QED
    BY <1>1, <2>2, <2>3, RecordedMove
<1> QED
  BY <1>2, <1>3

\* No result of a tool is an answer that turns away.
LEMMA HandleKeepsTrail ==
  ASSUME TrailInv, NEW c \in Calls, Handle(c)
  PROVE  TrailInv'
<1>1. /\ req[c].at = "handle" /\ req[c].ask \in McpMethods /\ UNCHANGED trail
  BY DEF Handle, TrailInv, OnItsWay
<1>2. PICK made \in {"none", "report", "failure", "file"},
           answer \in {"ok", "unknown", "report", "(no content)", "isError", "file", "contents",
                       "messages"} :
        req' = [req EXCEPT ![c].at = "done", ![c].made = made, ![c].answer = answer]
  BY DEF Handle, Made, Collect, RunSurface, Resource, Prompt
<1>3. answer \in Replies /\ answer \notin TurnedAway
  BY DEF Replies, TurnedAway
<1>4. Moves(c, "done", answer)
  BY <1>2, <1>3, EndMoves
<1>5. OnItsWay(req'[c]) /\ (LetThrough(req'[c]) <=> LetThrough(req[c]))
  BY <1>1, <1>3, <1>4 DEF Moves, OnItsWay, LetThrough, McpMethods, Speech
<1> QED
  BY <1>1, <1>4, <1>5, QuietMove

LEMMA TrailNextPreserves ==
  ASSUME TrailInv, [GatewayNext]_gatewayVars
  PROVE  TrailInv'
<1>1. CASE UNCHANGED gatewayVars \/ Tick
  <2>1. UNCHANGED <<req, trail>>
    BY <1>1 DEF Tick, gatewayVars
  <2> QED
    BY <2>1 DEF TrailInv, OneRow, RowsOf
<1>2. ASSUME NEW c \in Calls, Route(c) \/ RunStaged(c) \/ Audited(c) \/ Rpc(c) \/ CheckQuota(c)
                                \/ Record(c) \/ Handle(c)
      PROVE  TrailInv'
  BY <1>2, RouteKeepsTrail, RunStagedKeepsTrail, RpcKeepsTrail, RecordKeepsTrail, HandleKeepsTrail
<1>3. ASSUME NEW c \in Calls, NEW b \in BOOLEAN,
             Gate(c, b) \/ Operate(c, b) \/ SetPlan(c, b) \/ Speak(c, b)
      PROVE  TrailInv'
  BY <1>3, GateKeepsTrail, OperateKeepsTrail, SaveKeepsTrail
<1>4. ASSUME NEW c \in Calls, NEW ask \in AskedFor, NEW tool \in McpTools \cup {"none"},
             Arrive(c, ask, tool)
      PROVE  TrailInv'
  BY <1>4, ArriveKeepsTrail
<1> QED
  BY <1>1, <1>2, <1>3, <1>4 DEF GatewayNext

LEMMA TrailStarts ==
  ASSUME GatewayInit
  PROVE  TrailInv
<1>1. NoCall \in CallStates
  BY DEF NoCall, CallStates, Places, Replies
<1>2. OnItsWay(NoCall) /\ ~LetThrough(NoCall)
  BY DEF NoCall, OnItsWay, LetThrough, Speech
<1>3. trail \in Seq(Calls) /\ DOMAIN trail = {}
  BY DEF GatewayInit
<1> QED
  BY <1>1, <1>2, <1>3 DEF GatewayInit, TrailInv, RowsOf

LEMMA TrailMeans == TrailInv => TrailIsOfTheAdmitted
<1> SUFFICES ASSUME TrailInv, NEW c \in Calls
             PROVE  LET admittedCall ==
                          CASE req[c].ask = "tools/call" ->
                                 req[c].at = "handle"
                                   \/ (req[c].at = "done" /\ req[c].answer \notin TurnedAway)
                            [] req[c].ask \in Speech \cup {"plan"} -> req[c].answer = "ok"
                            [] OTHER -> FALSE IN
                    Cardinality(RowsOf(c)) = (IF admittedCall THEN 1 ELSE 0)
  BY DEF TrailIsOfTheAdmitted, RowsOf
<1>1. Cardinality(RowsOf(c)) = IF LetThrough(req[c]) THEN 1 ELSE 0
  <2>1. CASE LetThrough(req[c])
    BY <2>1, FS_Singleton DEF TrailInv, OneRow
  <2>2. CASE ~LetThrough(req[c])
    BY <2>2, FS_EmptySet DEF TrailInv
  <2> QED
    BY <2>1, <2>2
<1> QED
  BY <1>1 DEF LetThrough, Speech

\* The audit trail, whatever is asked in whatever order: one row for every call of a tool,
\* spoken word and set plan that was let through, none of what was turned away.
THEOREM TrailHasTheAdmitted == GatewaySpec => []TrailIsOfTheAdmitted
<1>1. GatewayInit => TrailInv
  BY TrailStarts
<1>2. TrailInv /\ [GatewayNext]_gatewayVars => TrailInv'
  BY TrailNextPreserves
<1> QED
  BY <1>1, <1>2, TrailMeans, PTL DEF GatewaySpec

-----------------------------------------------------------------------------
(* Tasks, the page and the inbox.                                          *)

USE TasksAssumption

Outstanding == {"posted", "staged", "refused"}
Events == [task : TaskIds, type : {"delta", "done", "error"}]
PageStates == [task : TaskIds \cup {0}, url : TaskIds \cup {0}, running : BOOLEAN,
               report : SUBSET TaskIds, error : BOOLEAN]
InboxStates == [listed : SUBSET TaskIds, open : TaskIds \cup {0}, awaits : SUBSET TaskIds,
                report : TaskIds \cup {0}]
TasksTyping ==
  /\ asks \in Seq(Kinds) /\ Len(asks) <= MaxAsks
  /\ task \in [TaskIds -> TaskStates]
  /\ \A n \in TaskIds : task[n] # "none" => n \in DOMAIN asks
  /\ taskRows \subseteq DOMAIN asks /\ ahead \subseteq TaskIds /\ losses \in 0..MaxLosses
  /\ wire \in Seq(Events)
  /\ taskPage \in PageStates /\ inbox \in InboxStates
  /\ overlaps \subseteq {"page", "inbox"}
Admitted == {n \in DOMAIN asks : asks[n] = "task" /\ (n \in taskRows \/ task[n] \in Staged)}
AdmittedByQuota == Cardinality(Admitted \ ahead) <= TaskLimit
\* What comes down the connection is of the task that the page names.
PageListens ==
  /\ taskPage.url # 0 => taskPage.url = taskPage.task
  /\ taskPage.url = 0 => wire = <<>>
  /\ \A i \in DOMAIN wire : wire[i].task = taskPage.url
\* While an answer is awaited, it is the only one and the page is empty.
AwaitsOne ==
  /\ taskPage.report \subseteq {taskPage.task}
  /\ \A n \in TaskIds : task[n] \in Outstanding =>
       /\ taskPage.url = 0 /\ taskPage.report = {}
       /\ \A m \in TaskIds : task[m] \in Outstanding => m = n
PageFollows == PageListens /\ ("page" \notin overlaps => AwaitsOne)
InboxFollows ==
  "inbox" \notin overlaps /\ inbox.open # 0 =>
    inbox.awaits \subseteq {inbox.open} /\ inbox.report \in {0, inbox.open}
TasksInv == TasksTyping /\ AdmittedByQuota /\ PageFollows /\ InboxFollows

LEMMA TasksStarts == TasksInit => TasksInv
<1> SUFFICES ASSUME TasksInit
             PROVE  TasksInv
  OBVIOUS
<1>1. TasksTyping
  <2>1. NoPage \in PageStates /\ NoInbox \in InboxStates
    BY DEF NoPage, NoInbox, PageStates, InboxStates
  <2>2. task \in [TaskIds -> TaskStates] /\ \A n \in TaskIds : task[n] = "none"
    BY DEF TasksInit, TaskStates
  <2>3. asks \in Seq(Kinds) /\ Len(asks) = 0 /\ wire \in Seq(Events)
    BY DEF TasksInit
  <2>4. 0 \in 0..MaxLosses
    OBVIOUS
  <2>5. /\ taskRows = {} /\ taskPage = NoPage /\ inbox = NoInbox /\ losses = 0 /\ ahead = {}
        /\ overlaps = {}
    BY DEF TasksInit
  <2>6. Len(asks) <= MaxAsks
    BY <2>3
  <2>7. /\ \A n \in TaskIds : task[n] # "none" => n \in DOMAIN asks
        /\ taskRows \subseteq DOMAIN asks /\ ahead \subseteq TaskIds
    BY <2>2, <2>5
  <2> QED
    BY <2>1, <2>2, <2>3, <2>4, <2>5, <2>6, <2>7 DEF TasksTyping
<1>2. AdmittedByQuota
  <2>1. Admitted = {}
    BY DEF TasksInit, Admitted
  <2> QED
    BY <2>1, FS_EmptySet DEF AdmittedByQuota, TasksInit
<1>3. PageFollows /\ InboxFollows
  BY DEF TasksInit, PageFollows, PageListens, AwaitsOne, InboxFollows, NoPage, NoInbox, Outstanding
<1> QED
  BY <1>1, <1>2, <1>3 DEF TasksInv

-----------------------------------------------------------------------------
\* Typing.
LEMMA RunIsTyped ==
  ASSUME TasksTyping, NEW kind \in Kinds, Run(kind)
  PROVE  TasksTyping' /\ Len(asks) + 1 \notin DOMAIN asks
<1>1. /\ asks \in Seq(Kinds) /\ Len(asks) < MaxAsks /\ asks' = Append(asks, kind)
      /\ task' = [task EXCEPT ![Len(asks) + 1] = "posted"] /\ Len(asks) \in Nat
  BY DEF Run, TasksTyping
<1>2. /\ asks' \in Seq(Kinds) /\ Len(asks') = Len(asks) + 1
      /\ DOMAIN asks = 1..Len(asks) /\ DOMAIN asks' = 1..(Len(asks) + 1)
  BY <1>1
<1>3. task' \in [TaskIds -> TaskStates]
  BY <1>1 DEF TasksTyping, TaskStates
<1>4. \A n \in TaskIds : task'[n] # "none" => n \in DOMAIN asks'
  BY <1>1, <1>2 DEF TasksTyping
<1>5. taskPage' \in PageStates /\ overlaps' \subseteq {"page", "inbox"}
  BY DEF Run, Overlapping, TasksTyping, PageStates
<1>6. UNCHANGED <<taskRows, wire, inbox, losses, ahead>>
  BY DEF Run
<1> QED
  BY <1>1, <1>2, <1>3, <1>4, <1>5, <1>6 DEF TasksTyping

\* The other steps leave what was asked, and move at most one task.
LEMMA ServerIsTyped ==
  ASSUME TasksTyping, NEW n \in DOMAIN asks,
         \/ CreateTask(n) \/ RunSkill(n) \/ OpenStream(n) \/ \E e \in {"done", "error"} : End(n, e)
  PROVE  TasksTyping'
<1>1. n \in TaskIds /\ DOMAIN asks \subseteq TaskIds
  BY DEF TasksTyping, TaskIds
<1>2. /\ UNCHANGED <<asks, taskPage, inbox, losses, overlaps>>
      /\ \E s \in TaskStates : task' = [task EXCEPT ![n] = s]
      /\ taskRows' = taskRows \/ taskRows' = taskRows \cup {n}
      /\ wire' = wire \/ \E e \in {"done", "error"} : wire' = Append(wire, [task |-> n, type |-> e])
      /\ ahead' = ahead \/ ahead' = ahead \cup {m \in DOMAIN asks : asks[m] = "task" /\ task[m] \in Staged}
  BY DEF CreateTask, RunSkill, OpenStream, End, Send, TaskStates
<1>3. wire' \in Seq(Events)
  <2>1. wire \in Seq(Events)
    BY DEF TasksTyping
  <2>2. ASSUME NEW e \in {"done", "error"}, wire' = Append(wire, [task |-> n, type |-> e])
        PROVE  wire' \in Seq(Events)
    <3>1. [task |-> n, type |-> e] \in Events
      BY <1>1 DEF Events
    <3> QED
      BY <2>1, <2>2, <3>1
  <2> QED
    BY <1>2, <2>1, <2>2
<1>4. task' \in [TaskIds -> TaskStates] /\ \A m \in TaskIds : task'[m] # "none" => m \in DOMAIN asks
  BY <1>1, <1>2 DEF TasksTyping
<1>5. taskRows' \subseteq DOMAIN asks /\ ahead' \subseteq TaskIds
  BY <1>1, <1>2 DEF TasksTyping
<1> QED
  BY <1>2, <1>3, <1>4, <1>5 DEF TasksTyping

LEMMA AnsweredIsTyped ==
  ASSUME TasksTyping, NEW n \in DOMAIN asks, Answered(n)
  PROVE  TasksTyping'
<1>1. n \in TaskIds
  BY DEF TasksTyping, TaskIds
<1>2. /\ UNCHANGED <<asks, taskRows, inbox, losses, ahead, overlaps>>
      /\ \E s \in TaskStates : task' = [task EXCEPT ![n] = s]
      /\ wire' = wire \/ wire' = <<>>
      /\ \/ taskPage' = [taskPage EXCEPT !.task = n, !.url = n]
         \/ taskPage' = [taskPage EXCEPT !.error = TRUE, !.running = FALSE]
  BY DEF Answered, TaskStates
<1>3. task' \in [TaskIds -> TaskStates] /\ \A m \in TaskIds : task'[m] # "none" => m \in DOMAIN asks
  BY <1>1, <1>2 DEF TasksTyping
<1>4. wire' \in Seq(Events)
  <2>1. wire \in Seq(Events) /\ <<>> \in Seq(Events)
    BY DEF TasksTyping
  <2> QED
    BY <1>2, <2>1
<1>5. taskPage' \in PageStates
  <2>1. taskPage \in PageStates
    BY DEF TasksTyping
  <2>2. CASE taskPage' = [taskPage EXCEPT !.task = n, !.url = n]
    BY <1>1, <2>1, <2>2 DEF PageStates
  <2>3. CASE taskPage' = [taskPage EXCEPT !.error = TRUE, !.running = FALSE]
    BY <2>1, <2>3 DEF PageStates
  <2> QED
    BY <1>2, <2>2, <2>3
<1> QED
  BY <1>2, <1>3, <1>4, <1>5 DEF TasksTyping

LEMMA FirstEvent ==
  ASSUME TasksTyping, wire # <<>>
  PROVE  /\ Head(wire) \in Events /\ Head(wire) = wire[1] /\ 1 \in DOMAIN wire
         /\ Tail(wire) \in Seq(Events)
         /\ \A i \in DOMAIN Tail(wire) : i + 1 \in DOMAIN wire /\ Tail(wire)[i] = wire[i + 1]
  BY DEF TasksTyping

LEMMA OnEventIsTyped ==
  ASSUME TasksTyping, OnEvent
  PROVE  TasksTyping'
<1> DEFINE e == Head(wire)
<1>1. e \in Events /\ Tail(wire) \in Seq(Events)
  BY FirstEvent DEF OnEvent
<1>2. /\ UNCHANGED <<asks, task, taskRows, inbox, losses, ahead, overlaps>>
      /\ wire' = <<>> \/ wire' = Tail(wire)
      /\ \/ taskPage' = [taskPage EXCEPT !.report = @ \cup {e.task}]
         \/ taskPage' = [taskPage EXCEPT !.running = FALSE, !.url = 0]
         \/ taskPage' = [taskPage EXCEPT !.running = FALSE, !.url = 0, !.error = TRUE]
  BY DEF OnEvent
<1> HIDE DEF e
<1>3. taskPage' \in PageStates
  <2>1. taskPage \in PageStates /\ e.task \in TaskIds
    BY <1>1 DEF TasksTyping, Events
  <2>2. CASE taskPage' = [taskPage EXCEPT !.report = @ \cup {e.task}]
    BY <2>1, <2>2 DEF PageStates
  <2>3. CASE taskPage' = [taskPage EXCEPT !.running = FALSE, !.url = 0]
    BY <2>1, <2>3 DEF PageStates
  <2>4. CASE taskPage' = [taskPage EXCEPT !.running = FALSE, !.url = 0, !.error = TRUE]
    BY <2>1, <2>4 DEF PageStates
  <2> QED
    BY <1>2, <2>2, <2>3, <2>4
<1>4. wire' \in Seq(Events)
  <2>1. <<>> \in Seq(Events)
    OBVIOUS
  <2> QED
    BY <1>1, <1>2, <2>1
<1> QED
  BY <1>2, <1>3, <1>4 DEF TasksTyping

LEMMA TasksTypingPreserved ==
  ASSUME TasksTyping, [TasksNext]_tasksVars
  PROVE  TasksTyping'
  <1>1. ASSUME NEW n \in DOMAIN asks, Tell(n)
        PROVE  TasksTyping'
    <2>1. n \in TaskIds /\ [task |-> n, type |-> "delta"] \in Events
      BY DEF TasksTyping, TaskIds, Events
    <2> QED
      BY <1>1, <2>1 DEF Tell, Send, TasksTyping
  <1>2. ASSUME NEW n \in DOMAIN asks, SendFeedback(n)
        PROVE  TasksTyping'
    BY <1>2 DEF SendFeedback, TasksTyping, PageStates
  <1>3. ASSUME Lose
        PROVE  TasksTyping'
    <2>1. task' \in [TaskIds -> TaskStates] /\ \A n \in TaskIds : task'[n] # "none" => task[n] # "none"
      BY <1>3 DEF Lose, TasksTyping, TaskStates
    <2>2. taskPage' \in PageStates
      BY <1>3 DEF Lose, TasksTyping, PageStates
    <2>3. losses' \in 0..MaxLosses /\ wire' = <<>> /\ UNCHANGED <<asks, taskRows, inbox, ahead, overlaps>>
      BY <1>3 DEF Lose, TasksTyping
    <2> QED
      BY <2>1, <2>2, <2>3 DEF TasksTyping
  <1>4. ASSUME LoadInbox \/ \E n \in TaskIds : Toggle(n) \/ OnReport(n)
        PROVE  TasksTyping'
    <2>1. taskRows \subseteq TaskIds
      BY DEF TasksTyping, TaskIds
    <2>2. inbox' \in InboxStates
      <3>1. inbox \in InboxStates
        BY DEF TasksTyping
      <3>2. CASE LoadInbox
        BY <2>1, <3>2 DEF LoadInbox, InboxStates, NoInbox
      <3>3. ASSUME NEW n \in TaskIds, Toggle(n)
            PROVE  inbox' \in InboxStates
        <4>1. \/ inbox' = [inbox EXCEPT !.open = 0, !.report = 0]
              \/ inbox' = [inbox EXCEPT !.open = n, !.report = 0, !.awaits = @ \cup {n}]
          BY <3>3 DEF Toggle
        <4>2. CASE inbox' = [inbox EXCEPT !.open = 0, !.report = 0]
          BY <3>1, <4>2 DEF InboxStates
        <4>3. CASE inbox' = [inbox EXCEPT !.open = n, !.report = 0, !.awaits = @ \cup {n}]
          BY <3>1, <4>3 DEF InboxStates
        <4> QED
          BY <4>1, <4>2, <4>3
      <3>4. ASSUME NEW n \in TaskIds, OnReport(n)
            PROVE  inbox' \in InboxStates
        BY <3>1, <3>4 DEF OnReport, InboxStates
      <3> QED
        BY <1>4, <3>2, <3>3, <3>4
    <2>3. /\ overlaps' \subseteq {"page", "inbox"}
          /\ UNCHANGED <<asks, task, taskRows, wire, taskPage, losses, ahead>>
      BY <1>4 DEF LoadInbox, Toggle, OnReport, Overlapping, TasksTyping
    <2> QED
      BY <2>2, <2>3 DEF TasksTyping
  <1>5. CASE UNCHANGED tasksVars
    BY <1>5 DEF tasksVars, TasksTyping
  <1> QED
    BY <1>1, <1>2, <1>3, <1>4, <1>5, RunIsTyped, ServerIsTyped, AnsweredIsTyped, OnEventIsTyped
    DEF TasksNext

-----------------------------------------------------------------------------
\* The quota.
LEMMA RowsAreFew ==
  ASSUME TasksTyping, NEW S, S \subseteq DOMAIN asks
  PROVE  IsFiniteSet(S) /\ Cardinality(S) \in Nat
<1>1. DOMAIN asks = 1..Len(asks) /\ Len(asks) \in Nat
  BY DEF TasksTyping
<1>2. IsFiniteSet(DOMAIN asks)
  BY <1>1, FS_Interval
<1> QED
  BY <1>2, FS_Subset, FS_CardinalityType

LEMMA NoneMoreIsWithin ==
  ASSUME TasksTyping, AdmittedByQuota, Admitted' \ ahead' \subseteq Admitted \ ahead
  PROVE  AdmittedByQuota'
<1>1. IsFiniteSet(Admitted \ ahead)
  BY RowsAreFew DEF Admitted
<1>2. IsFiniteSet(Admitted' \ ahead') /\ Cardinality(Admitted' \ ahead') <= Cardinality(Admitted \ ahead)
  BY <1>1, FS_Subset
<1>3. Cardinality(Admitted \ ahead) \in Nat /\ Cardinality(Admitted' \ ahead') \in Nat
  BY <1>1, <1>2, FS_CardinalityType
<1> QED
  BY <1>2, <1>3 DEF AdmittedByQuota

LEMMA CreateTaskIsWithin ==
  ASSUME TasksTyping, AdmittedByQuota, NEW n \in DOMAIN asks, CreateTask(n)
  PROVE  AdmittedByQuota'
<1>1. DOMAIN asks \subseteq TaskIds /\ UNCHANGED <<asks, taskRows>> /\ task \in [TaskIds -> TaskStates]
  BY DEF CreateTask, TasksTyping, TaskIds
<1>2. CASE Quota
  <2>1. /\ task' = [task EXCEPT ![n] = "staged"]
        /\ ahead' = ahead \cup {m \in DOMAIN asks : asks[m] = "task" /\ task[m] \in Staged}
    BY <1>2 DEF CreateTask
  <2>2. Admitted' \ ahead' \subseteq taskRows \cup {n}
    BY <1>1, <2>1 DEF Admitted
  <2>3. IsFiniteSet(taskRows) /\ Cardinality(taskRows) \in Nat
    BY RowsAreFew DEF TasksTyping
  <2>4. /\ IsFiniteSet(taskRows \cup {n})
        /\ Cardinality(taskRows \cup {n}) \in {Cardinality(taskRows), Cardinality(taskRows) + 1}
    BY <2>3, FS_AddElement
  <2>5. /\ Cardinality(Admitted' \ ahead') \in Nat
        /\ Cardinality(Admitted' \ ahead') <= Cardinality(taskRows \cup {n})
    BY <2>2, <2>4, FS_Subset, FS_CardinalityType
  <2>6. Cardinality(taskRows) < TaskLimit
    BY <1>2 DEF Quota
  <2>7. Cardinality(Admitted' \ ahead') <= TaskLimit
    BY <2>3, <2>4, <2>5, <2>6
  <2> QED
    BY <2>7 DEF AdmittedByQuota
<1>3. CASE ~Quota
  <2>1. task' = [task EXCEPT ![n] = "refused"] /\ UNCHANGED ahead
    BY <1>3 DEF CreateTask
  <2>2. Admitted' \subseteq Admitted
    BY <1>1, <2>1 DEF Admitted, Staged
  <2> QED
    BY <2>1, <2>2, NoneMoreIsWithin
<1> QED
  BY <1>2, <1>3

LEMMA QuotaPreserved ==
  ASSUME TasksTyping, AdmittedByQuota, [TasksNext]_tasksVars
  PROVE  AdmittedByQuota'
  <1>a. task \in [TaskIds -> TaskStates] /\ DOMAIN asks \subseteq TaskIds /\ taskRows \subseteq DOMAIN asks
    BY DEF TasksTyping, TaskIds
  <1>b. ASSUME Admitted' \subseteq Admitted, UNCHANGED ahead
        PROVE  AdmittedByQuota'
    BY <1>b, NoneMoreIsWithin
  <1>1. ASSUME NEW kind \in Kinds, Run(kind)
        PROVE  AdmittedByQuota'
    <2>1. /\ asks' = Append(asks, kind) /\ task' = [task EXCEPT ![Len(asks) + 1] = "posted"]
          /\ UNCHANGED <<taskRows, ahead>> /\ asks \in Seq(Kinds)
      BY <1>1 DEF Run, TasksTyping
    <2>2. /\ DOMAIN asks' = DOMAIN asks \cup {Len(asks) + 1} /\ Len(asks) + 1 \notin DOMAIN asks
          /\ \A m \in DOMAIN asks : asks'[m] = asks[m]
      BY <2>1
    <2>3. ASSUME NEW m \in Admitted'
          PROVE  m \in Admitted
      <3>1. m \in DOMAIN asks' /\ asks'[m] = "task" /\ (m \in taskRows \/ task'[m] \in Staged)
        BY <2>1, <2>3 DEF Admitted
      <3>2. CASE m = Len(asks) + 1
        <4>1. m \in TaskIds
          BY <1>1, <2>1, <3>2 DEF Run, TaskIds
        <4> QED
          BY <1>a, <2>1, <2>2, <3>1, <3>2, <4>1 DEF Staged
      <3>3. CASE m \in DOMAIN asks
        <4>1. task'[m] = task[m] /\ asks'[m] = asks[m]
          BY <1>a, <2>1, <2>2, <3>3
        <4> QED
          BY <3>1, <3>3, <4>1 DEF Admitted
      <3> QED
        BY <2>2, <3>1, <3>2, <3>3
    <2> QED
      BY <1>b, <2>1, <2>3
  <1>2. ASSUME NEW n \in DOMAIN asks, RunSkill(n)
        PROVE  AdmittedByQuota'
    BY <1>2, <1>a, <1>b DEF RunSkill, Admitted
  <1>3. ASSUME NEW n \in DOMAIN asks, Answered(n)
        PROVE  AdmittedByQuota'
    <2>1. UNCHANGED <<asks, taskRows, ahead>> /\ \A m \in TaskIds : task'[m] \in Staged => task[m] \in Staged
      BY <1>3, <1>a DEF Answered, Staged
    <2> QED
      BY <1>a, <1>b, <2>1 DEF Admitted
  <1>4. ASSUME NEW n \in DOMAIN asks, OpenStream(n)
        PROVE  AdmittedByQuota'
    <2>1. UNCHANGED <<asks, ahead>> /\ \A m \in TaskIds : task'[m] \in Staged => task[m] \in Staged
      BY <1>4, <1>a DEF OpenStream, Staged
    <2>2. \A m \in taskRows' : m \in taskRows \/ task[m] \in Staged
      BY <1>4, <1>a DEF OpenStream, Staged
    <2> QED
      BY <1>a, <1>b, <2>1, <2>2 DEF Admitted
  <1>5. ASSUME NEW n \in DOMAIN asks, NEW e, End(n, e)
        PROVE  AdmittedByQuota'
    <2>1. UNCHANGED <<asks, taskRows, ahead>> /\ \A m \in TaskIds : task'[m] \in Staged => task[m] \in Staged
      BY <1>5, <1>a DEF End, Staged
    <2> QED
      BY <1>a, <1>b, <2>1 DEF Admitted
  <1>6. ASSUME Lose
        PROVE  AdmittedByQuota'
    <2>1. UNCHANGED <<asks, taskRows, ahead>> /\ \A m \in TaskIds : task'[m] \in Staged => task[m] \in Staged
      BY <1>6, <1>a DEF Lose, Staged
    <2> QED
      BY <1>a, <1>b, <2>1 DEF Admitted
  <1>7. ASSUME UNCHANGED <<asks, task, taskRows, ahead>>
        PROVE  AdmittedByQuota'
    BY <1>7, <1>b DEF Admitted
  <1>8. ASSUME NEW n \in DOMAIN asks, Tell(n) \/ SendFeedback(n)
        PROVE  AdmittedByQuota'
    BY <1>7, <1>8 DEF Tell, SendFeedback
  <1>9. ASSUME OnEvent \/ LoadInbox \/ \E n \in TaskIds : Toggle(n) \/ OnReport(n)
        PROVE  AdmittedByQuota'
    BY <1>7, <1>9 DEF OnEvent, LoadInbox, Toggle, OnReport
  <1>10. CASE UNCHANGED tasksVars
    BY <1>7, <1>10 DEF tasksVars
  <1> QED
    BY <1>1, <1>2, <1>3, <1>4, <1>5, <1>6, <1>8, <1>9, <1>10, CreateTaskIsWithin DEF TasksNext

LEMMA AdmittedIsBounded ==
  ASSUME TasksTyping, AdmittedByQuota
  PROVE  OverrunIsBounded
<1> DEFINE Own == {n \in taskRows : asks[n] = "task"}
<1>1. Own \subseteq Admitted /\ Admitted \subseteq DOMAIN asks
  BY DEF Admitted, TasksTyping
<1>2. Own \subseteq (Admitted \ ahead) \cup ahead
  BY <1>1
<1>3. IsFiniteSet(Admitted \ ahead) /\ Cardinality(Admitted \ ahead) \in Nat
  BY <1>1, RowsAreFew
<1>4. IsFiniteSet(ahead)
  <2>1. 1 \in Int /\ MaxAsks \in Int /\ TaskIds = 1..MaxAsks
    BY DEF TaskIds
  <2>2. IsFiniteSet(TaskIds)
    BY <2>1, FS_Interval
  <2> QED
    BY <2>2, FS_Subset DEF TasksTyping
<1>5. /\ IsFiniteSet((Admitted \ ahead) \cup ahead)
      /\ Cardinality((Admitted \ ahead) \cup ahead)
           = Cardinality(Admitted \ ahead) + Cardinality(ahead) - Cardinality((Admitted \ ahead) \cap ahead)
  BY <1>3, <1>4, FS_Union
<1>6. Cardinality((Admitted \ ahead) \cap ahead) = 0
  <2>1. (Admitted \ ahead) \cap ahead = {}
    OBVIOUS
  <2> QED
    BY <2>1, FS_EmptySet
<1>7. Cardinality(Own) \in Nat /\ Cardinality(Own) <= Cardinality((Admitted \ ahead) \cup ahead)
  BY <1>2, <1>5, FS_Subset, FS_CardinalityType
<1>8. Cardinality(ahead) \in Nat
  BY <1>4, FS_CardinalityType
<1> HIDE DEF Own
<1>9. Cardinality(Own) <= TaskLimit + Cardinality(ahead)
  BY <1>3, <1>5, <1>6, <1>7, <1>8 DEF AdmittedByQuota
<1> QED
  BY <1>9 DEF Own, OverrunIsBounded

-----------------------------------------------------------------------------
\* The research page: it listens to the task it names, and awaits one answer.
LEMMA RunFollows ==
  ASSUME TasksTyping, PageFollows, NEW kind \in Kinds, Run(kind)
  PROVE  PageFollows'
<1>1. /\ task' = [task EXCEPT ![Len(asks) + 1] = "posted"] /\ UNCHANGED wire
      /\ taskPage' = [taskPage EXCEPT !.running = TRUE, !.report = {}, !.error = FALSE]
      /\ Overlapping("page", PageAwaits)
  BY DEF Run
<1>2. taskPage'.url = taskPage.url /\ taskPage'.task = taskPage.task /\ taskPage'.report = {}
  BY <1>1 DEF TasksTyping, PageStates
<1>3. \A n \in TaskIds : task'[n] \in Outstanding => n = Len(asks) + 1 \/ task[n] \in Outstanding
  BY <1>1 DEF TasksTyping
<1>4. PageListens'
  BY <1>1, <1>2 DEF PageFollows, PageListens
<1>5. ASSUME "page" \notin overlaps'
      PROVE  AwaitsOne'
  <2>1. ~PageAwaits
    BY <1>1, <1>5 DEF Overlapping
  <2>2. taskPage.url = 0 /\ \A n \in TaskIds : task[n] \notin Outstanding
    BY <2>1 DEF PageAwaits, Outstanding
  <2> QED
    BY <1>2, <1>3, <2>2 DEF AwaitsOne
<1> QED
  BY <1>4, <1>5 DEF PageFollows

\* What a step of the server or of the page leaves of the task that is awaited.
LEMMA SameTaskFollows ==
  ASSUME TasksTyping, PageFollows, UNCHANGED wire,
         taskPage'.url = taskPage.url, taskPage'.task = taskPage.task,
         taskPage'.report = taskPage.report, "page" \in overlaps => "page" \in overlaps',
         \A n \in TaskIds : task'[n] \in Outstanding => task[n] \in Outstanding
  PROVE  PageFollows'
  BY DEF PageFollows, PageListens, AwaitsOne

LEMMA AnsweredFollows ==
  ASSUME TasksTyping, PageFollows, NEW n \in DOMAIN asks, Answered(n)
  PROVE  PageFollows'
<1>1. n \in TaskIds /\ task \in [TaskIds -> TaskStates] /\ n # 0
  BY DEF TasksTyping, TaskIds
<1>2. /\ task' = [task EXCEPT ![n] = IF @ = "staged" THEN "pending" ELSE "failed"]
      /\ UNCHANGED overlaps /\ task[n] \in Outstanding
  BY DEF Answered, Outstanding
<1>3. \A m \in TaskIds : task'[m] \in Outstanding => task[m] \in Outstanding /\ m # n
  BY <1>1, <1>2 DEF Outstanding
<1>4. CASE task[n] = "staged"
  <2>1. taskPage' = [taskPage EXCEPT !.task = n, !.url = n] /\ wire' = <<>>
    BY <1>4 DEF Answered
  <2>2. taskPage'.url = n /\ taskPage'.task = n /\ taskPage'.report = taskPage.report
    BY <2>1 DEF TasksTyping, PageStates
  <2>3. PageListens'
    BY <1>1, <2>1, <2>2 DEF PageListens
  <2>4. ASSUME AwaitsOne
        PROVE  AwaitsOne'
    BY <1>1, <1>2, <1>3, <2>2, <2>4 DEF AwaitsOne
  <2> QED
    BY <1>2, <2>3, <2>4 DEF PageFollows
<1>5. CASE task[n] # "staged"
  <2>1. taskPage' = [taskPage EXCEPT !.error = TRUE, !.running = FALSE] /\ UNCHANGED wire
    BY <1>5 DEF Answered
  <2>2. /\ taskPage'.url = taskPage.url /\ taskPage'.task = taskPage.task
        /\ taskPage'.report = taskPage.report
    BY <2>1 DEF TasksTyping, PageStates
  <2> QED
    BY <1>2, <1>3, <2>1, <2>2, SameTaskFollows
<1> QED
  BY <1>4, <1>5

LEMMA SendFollows ==
  ASSUME TasksTyping, PageFollows, UNCHANGED <<taskPage, overlaps>>, NEW n \in TaskIds, NEW e, Send(n, e),
         \A m \in TaskIds : task'[m] \in Outstanding => task[m] \in Outstanding
  PROVE  PageFollows'
<1>1. CASE taskPage.url = n
  <2> DEFINE event == [task |-> n, type |-> e]
  <2>1. wire' = Append(wire, event) /\ event.task = n /\ n # 0
    BY <1>1 DEF Send, TaskIds
  <2> HIDE DEF event
  <2>2. wire \in Seq(Events \cup {event})
    BY DEF TasksTyping
  <2>3. ASSUME NEW i \in DOMAIN wire'
        PROVE  wire'[i] = event \/ (i \in DOMAIN wire /\ wire'[i] = wire[i])
    <3>1. DOMAIN wire' = 1..(Len(wire) + 1) /\ DOMAIN wire = 1..Len(wire)
      BY <2>1, <2>2
    <3>2. CASE i \in DOMAIN wire
      BY <2>1, <2>2, <3>1, <3>2
    <3>3. CASE i = Len(wire) + 1
      BY <2>1, <2>2, <3>3
    <3> QED
      BY <3>1, <3>2, <3>3
  <2>4. \A i \in DOMAIN wire' : wire'[i].task = taskPage.url
    BY <1>1, <2>1, <2>3 DEF PageFollows, PageListens
  <2>5. PageListens'
    BY <1>1, <2>1, <2>4 DEF PageFollows, PageListens
  <2>6. AwaitsOne => AwaitsOne'
    BY DEF AwaitsOne
  <2> QED
    BY <2>5, <2>6 DEF PageFollows
<1>2. CASE taskPage.url # n
  BY <1>2, SameTaskFollows DEF Send
<1> QED
  BY <1>1, <1>2

LEMMA OnEventFollows ==
  ASSUME TasksTyping, PageFollows, OnEvent
  PROVE  PageFollows'
<1> DEFINE e == Head(wire)
<1>1. /\ e.task = taskPage.url /\ taskPage.url # 0 /\ taskPage.url = taskPage.task
      /\ \A i \in DOMAIN Tail(wire) : Tail(wire)[i].task = taskPage.url
  BY FirstEvent DEF OnEvent, PageFollows, PageListens
<1>2. UNCHANGED <<task, overlaps>> /\ wire' = IF taskPage'.url = 0 THEN <<>> ELSE Tail(wire)
  BY DEF OnEvent
<1>3. taskPage \in PageStates
  BY DEF TasksTyping
<1> HIDE DEF e
<1>4. CASE taskPage' = [taskPage EXCEPT !.report = @ \cup {e.task}]
  <2>1. /\ taskPage'.url = taskPage.url /\ taskPage'.task = taskPage.task
        /\ taskPage'.report = taskPage.report \cup {e.task}
    BY <1>3, <1>4 DEF PageStates
  <2>2. PageListens'
    BY <1>1, <1>2, <2>1 DEF PageListens
  <2>3. ASSUME AwaitsOne
        PROVE  AwaitsOne'
    BY <1>1, <1>2, <2>1, <2>3 DEF AwaitsOne
  <2> QED
    BY <1>2, <2>2, <2>3 DEF PageFollows
<1>5. CASE \/ taskPage' = [taskPage EXCEPT !.running = FALSE, !.url = 0]
           \/ taskPage' = [taskPage EXCEPT !.running = FALSE, !.url = 0, !.error = TRUE]
  <2>1. taskPage'.url = 0 /\ taskPage'.task = taskPage.task /\ taskPage'.report = taskPage.report
    BY <1>3, <1>5 DEF PageStates
  <2>2. PageListens'
    BY <1>2, <2>1 DEF PageListens
  <2>3. ASSUME AwaitsOne
        PROVE  AwaitsOne'
    BY <1>2, <2>1, <2>3 DEF AwaitsOne
  <2> QED
    BY <1>2, <2>2, <2>3 DEF PageFollows
<1> QED
  BY <1>4, <1>5 DEF OnEvent, e

LEMMA LoseFollows ==
  ASSUME TasksTyping, PageFollows, Lose
  PROVE  PageFollows'
<1>1. wire' = <<>> /\ taskPage' = [taskPage EXCEPT !.url = 0] /\ UNCHANGED overlaps
  BY DEF Lose
<1>2. taskPage'.url = 0 /\ taskPage'.task = taskPage.task /\ taskPage'.report = taskPage.report
  BY <1>1 DEF TasksTyping, PageStates
<1>3. \A n \in TaskIds : task'[n] \in Outstanding => task[n] \in Outstanding
  BY DEF Lose, TasksTyping, Outstanding
<1>4. PageListens'
  BY <1>1, <1>2 DEF PageListens
<1>5. ASSUME AwaitsOne
      PROVE  AwaitsOne'
  BY <1>2, <1>3, <1>5 DEF AwaitsOne
<1> QED
  BY <1>1, <1>4, <1>5 DEF PageFollows

LEMMA PagePreserved ==
  ASSUME TasksTyping, PageFollows, [TasksNext]_tasksVars
  PROVE  PageFollows'
  <1>a. DOMAIN asks \subseteq TaskIds /\ task \in [TaskIds -> TaskStates]
    BY DEF TasksTyping, TaskIds
  <1>1. ASSUME NEW n \in DOMAIN asks, CreateTask(n) \/ RunSkill(n) \/ OpenStream(n)
        PROVE  PageFollows'
    <2>1. \A m \in TaskIds : task'[m] \in Outstanding => task[m] \in Outstanding
      BY <1>1, <1>a DEF CreateTask, RunSkill, OpenStream, Outstanding
    <2>2. UNCHANGED <<taskPage, wire, overlaps>>
      BY <1>1 DEF CreateTask, RunSkill, OpenStream
    <2> QED
      BY <2>1, <2>2, SameTaskFollows
  <1>2. ASSUME NEW n \in DOMAIN asks, Tell(n)
        PROVE  PageFollows'
    <2>1. Send(n, "delta") /\ UNCHANGED <<task, taskPage, overlaps>>
      BY <1>2 DEF Tell
    <2> QED
      BY <1>a, <2>1, SendFollows
  <1>3. ASSUME NEW n \in DOMAIN asks, NEW e, End(n, e)
        PROVE  PageFollows'
    <2>1. \A m \in TaskIds : task'[m] \in Outstanding => task[m] \in Outstanding
      BY <1>3, <1>a DEF End, Outstanding
    <2>2. Send(n, e) /\ UNCHANGED <<taskPage, overlaps>>
      BY <1>3 DEF End
    <2> QED
      BY <1>a, <2>1, <2>2, SendFollows
  <1>4. ASSUME NEW n \in DOMAIN asks, SendFeedback(n)
        PROVE  PageFollows'
    <2>1. taskPage' = [taskPage EXCEPT !.error = TRUE] /\ UNCHANGED <<task, wire, overlaps>>
      BY <1>4 DEF SendFeedback
    <2>2. /\ taskPage'.url = taskPage.url /\ taskPage'.task = taskPage.task
          /\ taskPage'.report = taskPage.report
      BY <2>1 DEF TasksTyping, PageStates
    <2> QED
      BY <2>1, <2>2, SameTaskFollows
  <1>5. ASSUME LoadInbox \/ \E n \in TaskIds : Toggle(n) \/ OnReport(n)
        PROVE  PageFollows'
    <2>1. UNCHANGED <<task, taskPage, wire>>
      BY <1>5 DEF LoadInbox, Toggle, OnReport
    <2>2. "page" \in overlaps => "page" \in overlaps'
      BY <1>5 DEF LoadInbox, Toggle, OnReport, Overlapping
    <2> QED
      BY <2>1, <2>2, SameTaskFollows
  <1>6. CASE UNCHANGED tasksVars
    BY <1>6, SameTaskFollows DEF tasksVars
  <1> QED
    BY <1>1, <1>2, <1>3, <1>4, <1>5, <1>6, RunFollows, AnsweredFollows, OnEventFollows, LoseFollows
    DEF TasksNext

\* The inbox: it awaits at most the report of the task that is open.
LEMMA InboxPreserved ==
  ASSUME TasksTyping, InboxFollows, [TasksNext]_tasksVars
  PROVE  InboxFollows'
  <1>a. inbox \in InboxStates
    BY DEF TasksTyping
  <1>b. ASSUME UNCHANGED inbox, "inbox" \in overlaps => "inbox" \in overlaps'
        PROVE  InboxFollows'
    BY <1>b DEF InboxFollows
  <1>1. ASSUME NEW n \in TaskIds, Toggle(n)
        PROVE  InboxFollows'
    <2>1. CASE inbox.open = n
      <3>1. inbox' = [inbox EXCEPT !.open = 0, !.report = 0]
        BY <1>1, <2>1 DEF Toggle
      <3>2. inbox'.open = 0
        BY <1>a, <3>1 DEF InboxStates
      <3> QED
        BY <3>2 DEF InboxFollows
    <2>2. CASE inbox.open # n
      <3>1. /\ inbox' = [inbox EXCEPT !.open = n, !.report = 0, !.awaits = @ \cup {n}]
            /\ inbox.awaits \ {n} # {} => "inbox" \in overlaps'
        BY <1>1, <2>2 DEF Toggle, Overlapping
      <3>2. inbox'.open = n /\ inbox'.report = 0 /\ inbox'.awaits = inbox.awaits \cup {n}
        BY <1>a, <3>1 DEF InboxStates
      <3> QED
        BY <3>1, <3>2 DEF InboxFollows
    <2> QED
      BY <2>1, <2>2
  <1>2. ASSUME NEW n \in TaskIds, OnReport(n)
        PROVE  InboxFollows'
    <2>1. n \in inbox.awaits /\ inbox' = [inbox EXCEPT !.awaits = @ \ {n}, !.report = n]
          /\ UNCHANGED overlaps
      BY <1>2 DEF OnReport
    <2>2. inbox'.open = inbox.open /\ inbox'.report = n /\ inbox'.awaits = inbox.awaits \ {n}
      BY <1>a, <2>1 DEF InboxStates
    <2> QED
      BY <2>1, <2>2 DEF InboxFollows
  <1>3. CASE LoadInbox
    <2>1. inbox'.open = 0
      BY <1>3 DEF LoadInbox, NoInbox
    <2> QED
      BY <2>1 DEF InboxFollows
  <1>4. ASSUME NEW kind, Run(kind)
        PROVE  InboxFollows'
    BY <1>b, <1>4 DEF Run, Overlapping
  <1>5. ASSUME NEW n,
               \/ CreateTask(n) \/ RunSkill(n) \/ Answered(n) \/ OpenStream(n) \/ Tell(n)
               \/ (\E e : End(n, e)) \/ SendFeedback(n)
        PROVE  InboxFollows'
    BY <1>b, <1>5 DEF CreateTask, RunSkill, Answered, OpenStream, Tell, End, SendFeedback
  <1>6. CASE OnEvent \/ Lose
    BY <1>b, <1>6 DEF OnEvent, Lose
  <1>7. CASE UNCHANGED tasksVars
    BY <1>b, <1>7 DEF tasksVars
  <1> QED
    BY <1>1, <1>2, <1>3, <1>4, <1>5, <1>6, <1>7 DEF TasksNext

LEMMA TasksNextPreserves ==
  ASSUME TasksInv, [TasksNext]_tasksVars
  PROVE  TasksInv'
  BY TasksTypingPreserved, QuotaPreserved, PagePreserved, InboxPreserved DEF TasksInv

LEMMA TasksInvariant == TasksSpec => []TasksInv
<1>1. TasksInit => TasksInv
  BY TasksStarts
<1>2. TasksInv /\ [TasksNext]_tasksVars => TasksInv'
  BY TasksNextPreserves
<1> QED
  BY <1>1, <1>2, PTL DEF TasksSpec

\* The quota gate counts rows, and an admitted task gets its row later: the tasks asked for
\* under a quota exceed it at most by those that had been admitted, and had no row yet, when
\* another one was: for any limit and any number of requests.
THEOREM QuotaIsOverrunByFew == TasksSpec => []OverrunIsBounded
<1>1. TasksInv => OverrunIsBounded
  BY AdmittedIsBounded DEF TasksInv
<1> QED
  BY <1>1, TasksInvariant, PTL

\* The research page shows the text of the task it names and the inbox the report of the task
\* that is open there, however answers are delayed or lost: from any request on that a page
\* sends with nothing of an earlier one still to come, until one that it sends too early.
THEOREM PagesShowTheirOwn == TasksSpec => []ShownIsItsOwn
<1>1. TasksInv => ShownIsItsOwn
  BY DEF TasksInv, PageFollows, AwaitsOne, InboxFollows, ShownIsItsOwn
<1> QED
  BY <1>1, TasksInvariant, PTL

-----------------------------------------------------------------------------
(* The types of the parts.                                                 *)

\* Every variable of the readers keeps its type.
LEMMA FramingIsTyped == FramingSpec => []FramingTypeOK
BY ReadersHandOnWhatArrived, PTL

\* Every variable of the pages and their tasks keeps its type.
LEMMA TasksIsTyped == TasksSpec => []TasksTypeOK
<1>1. ASSUME TasksInv PROVE TasksTypeOK
  <2>1. TasksTyping /\ DOMAIN asks = 1..Len(asks) /\ Len(asks) \in Nat /\ Len(asks) <= MaxAsks
    BY <1>1 DEF TasksInv, TasksTyping
  <2>2. DOMAIN asks \subseteq TaskIds
    BY <2>1, TasksAssumption DEF TaskIds
  <2>3. /\ taskPage.task \in TaskIds \cup {0} /\ taskPage.url \in TaskIds \cup {0}
        /\ inbox.open \in TaskIds \cup {0} /\ inbox.report \in TaskIds \cup {0}
    BY <2>1 DEF TasksTyping, PageStates, InboxStates
  <2> QED
    BY <2>1, <2>2, <2>3 DEF TasksTyping, TasksTypeOK
<1> QED
  BY <1>1, TasksInvariant, PTL

\* The clock stops at its bound, and tasks are counted.
CountersOfTheGate == clock <= MaxTicks /\ taskCount \in Nat

LEMMA CountersKept ==
  ASSUME BucketInv, CountersOfTheGate, [GatewayNext]_gatewayVars
  PROVE  CountersOfTheGate'
<1>1. clock \in Nat /\ clock <= MaxTicks /\ taskCount \in Nat /\ MaxTicks \in Nat
  BY ConstantsAreNatural DEF BucketInv, CountersOfTheGate
<1>2. ASSUME NEW c, NEW goesOn, Allow(c, goesOn), goesOn => UNCHANGED taskCount
      PROVE  UNCHANGED taskCount
  BY <1>2 DEF Allow
<1>3. ASSUME UNCHANGED clock, taskCount' \in {taskCount, taskCount + 1}
      PROVE  CountersOfTheGate'
  BY <1>1, <1>3 DEF CountersOfTheGate
<1>4. CASE UNCHANGED gatewayVars
  BY <1>3, <1>4 DEF gatewayVars
<1>5. CASE Tick
  BY <1>1, <1>5 DEF Tick, CountersOfTheGate
<1>6. ASSUME NEW c \in Calls, NEW b \in BOOLEAN, Gate(c, b)
      PROVE  CountersOfTheGate'
  BY <1>3, <1>6 DEF Gate, Allow
<1>7. ASSUME NEW c \in Calls, NEW b \in BOOLEAN, Operate(c, b)
      PROVE  CountersOfTheGate'
  BY <1>3, <1>7 DEF Operate, Allow
<1>8. ASSUME NEW c \in Calls, NEW b \in BOOLEAN, SetPlan(c, b) \/ Speak(c, b)
      PROVE  CountersOfTheGate'
  BY <1>3, <1>8 DEF SetPlan, Speak
<1>9. ASSUME NEW c \in Calls, Rpc(c)
      PROVE  CountersOfTheGate'
  BY <1>3, <1>9 DEF Rpc, Allow
<1>10. ASSUME NEW c \in Calls, Route(c) \/ RunStaged(c)
      PROVE  CountersOfTheGate'
  BY <1>3, <1>10 DEF Route, RunStaged
<1>11. ASSUME NEW c \in Calls, Audited(c) \/ CheckQuota(c) \/ Record(c) \/ Handle(c)
      PROVE  CountersOfTheGate'
  BY <1>3, <1>11 DEF Audited, CheckQuota, Record, Handle
<1>12. ASSUME NEW c \in Calls, NEW ask \in AskedFor, NEW tool \in McpTools \cup {"none"},
             Arrive(c, ask, tool)
      PROVE  CountersOfTheGate'
  BY <1>3, <1>12 DEF Arrive
<1> QED
  BY <1>4, <1>5, <1>6, <1>7, <1>8, <1>9, <1>10, <1>11, <1>12 DEF GatewayNext

\* Every variable of the web server's gate keeps its type.
LEMMA GatewayIsTyped == GatewaySpec => []GatewayTypeOK
<1>1. ASSUME BucketInv, TrailInv, CountersOfTheGate
      PROVE  GatewayTypeOK
  <2>1. /\ clock \in Nat /\ clock <= MaxTicks /\ MaxTicks \in Nat /\ Burst \in Nat
        /\ bucket \in [tokens : Nat, last : Nat] /\ bucket.tokens <= Burst /\ bucket.last <= clock
        /\ admitted \in Seq(Nat) /\ \A i \in 1..Len(admitted) : Accounted(i, bucket)
    BY <1>1, ConstantsAreNatural DEF BucketInv, BucketOK, CountersOfTheGate
  <2>2. clock \in 0..MaxTicks
    BY <2>1
  <2>3. bucket \in [tokens : 0..Burst, last : 0..MaxTicks]
    <3>1. bucket.tokens \in 0..Burst /\ bucket.last \in 0..MaxTicks
      BY <2>1
    <3> QED
      BY <2>1, <3>1
  <2>4. admitted \in Seq(0..MaxTicks)
    <3>0. bucket.last \in 0..MaxTicks /\ MaxTicks \in Nat
      BY <2>1, <2>3
    <3>1. \A i \in 1..Len(admitted) : admitted[i] \in Nat /\ admitted[i] <= bucket.last
      BY <2>1 DEF Accounted
    <3>2. \A i \in 1..Len(admitted) : admitted[i] \in 0..MaxTicks
      BY ONLY <3>0, <3>1
    <3>3. Len(admitted) \in Nat /\ admitted = [i \in 1..Len(admitted) |-> admitted[i]]
      BY <2>1
    <3>4. admitted \in [1..Len(admitted) -> 0..MaxTicks]
      BY <3>2, <3>3
    <3> QED
      BY <3>3, <3>4, SeqDef
  <2>5. trail \in Seq(Calls) /\ \A c \in Calls : req[c] \in CallStates
    BY <1>1 DEF TrailInv
  <2>6. \A c \in Calls : req[c].ask \in AskedFor \cup {"none"} /\ req[c].tool \in McpTools \cup {"none"}
    BY <2>5 DEF CallStates
  <2> QED
    BY <1>1, <2>2, <2>3, <2>4, <2>5, <2>6 DEF GatewayTypeOK, CountersOfTheGate
<1>2. GatewayInit => CountersOfTheGate
  BY ConstantsAreNatural DEF GatewayInit, CountersOfTheGate
<1>3. BucketInv /\ CountersOfTheGate /\ [GatewayNext]_gatewayVars => CountersOfTheGate'
  BY CountersKept
<1>4. BucketInv /\ TrailInv /\ CountersOfTheGate => GatewayTypeOK
  BY <1>1
<1>5. TrailInv /\ [GatewayNext]_gatewayVars => TrailInv'
  BY TrailNextPreserves
<1>6. GatewayInit => TrailInv
  BY TrailStarts
<1> QED
  BY <1>2, <1>3, <1>4, <1>5, <1>6, BucketInitEstablishes, BucketNextPreserves, PTL DEF GatewaySpec

\* The calls that have loaded the list; each of them has loaded it once at most.
Loaded == {n \in 0..MaxClicks : clicks[n].at \in {"taken", "settled"}}
LoadsAreCounted ==
  /\ taken <= Cardinality(Loaded)
  /\ page \in DOMAIN Served /\ broken \in 0..MaxBroken

LEMMA LoadedAreFew ==
  ASSUME NEW S, S \subseteq 0..MaxClicks
  PROVE  IsFiniteSet(S) /\ Cardinality(S) \in Nat /\ Cardinality(S) <= MaxClicks + 1
<1>1. 0 \in Int /\ MaxClicks \in Int /\ MaxClicks \in Nat
  BY PagesAssumption
<1>2. IsFiniteSet(0..MaxClicks) /\ Cardinality(0..MaxClicks) = MaxClicks + 1
  <2>1. /\ IsFiniteSet(0..MaxClicks)
        /\ Cardinality(0..MaxClicks) = IF 0 > MaxClicks THEN 0 ELSE MaxClicks - 0 + 1
    BY ONLY <1>1, FS_Interval, Zenon
  <2> QED
    BY <1>1, <2>1
<1> QED
  BY <1>2, FS_Subset, FS_CardinalityType

\* A step that moves one call on, and loads nothing.
LEMMA LoadedGrow ==
  ASSUME LoadsAreCounted, NEW n \in 0..MaxClicks, taken \in Nat,
         \A m \in (0..MaxClicks) \ {n} : clicks'[m] = clicks[m],
         clicks[n].at \in {"taken", "settled"} => clicks'[n].at \in {"taken", "settled"},
         UNCHANGED <<taken, page>>, broken' \in 0..MaxBroken
  PROVE  LoadsAreCounted'
<1>1. Loaded \subseteq Loaded' /\ Loaded' \subseteq 0..MaxClicks
  BY DEF Loaded
<1> DEFINE before == Loaded
<1> DEFINE after == Loaded'
<1>2. taken <= Cardinality(before) /\ before \subseteq after /\ after \subseteq 0..MaxClicks
  BY <1>1 DEF LoadsAreCounted
<1>3. Cardinality(before) <= Cardinality(after)
  <2> HIDE DEF before, after
  <2> QED
    BY <1>2, LoadedAreFew, FS_Subset
<1>4. Cardinality(before) \in Nat /\ Cardinality(after) \in Nat
  <2> HIDE DEF before, after
  <2> QED
    BY <1>2, LoadedAreFew
<1>5. taken <= Cardinality(after)
  <2> HIDE DEF before, after
  <2> QED
    BY <1>2, <1>3, <1>4
<1> QED
  BY <1>5 DEF LoadsAreCounted

LEMMA ReadIsCounted ==
  ASSUME LoadsAreCounted, PagesTyping, NEW n \in 0..MaxClicks, ReadRows(n)
  PROVE  LoadsAreCounted'
<1>1. /\ clicks \in [0..MaxClicks -> ClickStates] /\ taken \in Nat /\ clicks[n].at = "loading"
      /\ clicks' = [clicks EXCEPT ![n] = [clicks[n] EXCEPT !.at = "taken", !.seen = stored, !.no = taken + 1]]
      /\ taken' = taken + 1 /\ UNCHANGED <<page, broken>>
  BY DEF PagesTyping, ReadRows
<1>2. /\ clicks'[n].at = "taken" /\ \A m \in (0..MaxClicks) \ {n} : clicks'[m] = clicks[m]
  <2>1. clicks[n] \in ClickStates
    BY <1>1
  <2> QED
    BY <1>1, <2>1 DEF ClickStates
<1> DEFINE before == Loaded
<1> DEFINE after == Loaded'
<1>3. before \cup {n} \subseteq after /\ n \notin before /\ after \subseteq 0..MaxClicks
  BY <1>1, <1>2 DEF Loaded
<1>4. taken <= Cardinality(before)
  BY DEF LoadsAreCounted
<1>5. taken + 1 <= Cardinality(after)
  <2> HIDE DEF before, after
  <2>1. IsFiniteSet(before) /\ IsFiniteSet(after) /\ Cardinality(before) \in Nat /\ Cardinality(after) \in Nat
    BY <1>3, LoadedAreFew
  <2>2. Cardinality(before \cup {n}) = Cardinality(before) + 1
    BY <1>3, <2>1, FS_AddElement
  <2>3. Cardinality(before \cup {n}) <= Cardinality(after)
    BY <1>3, <2>1, FS_Subset
  <2> QED
    BY <1>1, <1>4, <2>1, <2>2, <2>3
<1> QED
  BY <1>1, <1>5 DEF LoadsAreCounted

LEMMA LoadsKept ==
  ASSUME LoadsAreCounted, PagesInv, [PagesNext]_pagesVars
  PROVE  LoadsAreCounted'
<1>1. PagesTyping /\ taken \in Nat /\ broken \in 0..MaxBroken /\ MaxBroken \in Nat
  BY PagesAssumption DEF PagesInv, PagesTyping, LoadsAreCounted
<1>2. CASE UNCHANGED pagesVars
  BY <1>2 DEF pagesVars, LoadsAreCounted, Loaded
<1>3. ASSUME NEW n \in 0..MaxClicks, NEW op \in ClickOps, NEW r \in ListRows, Click(n, op, r)
      PROVE  LoadsAreCounted'
  <2>1. clicks \in [0..MaxClicks -> ClickStates] /\ clicks[n].at = "none"
    BY <1>1, <1>3, NoClickIs DEF Click, PagesTyping
  <2>2. \A m \in (0..MaxClicks) \ {n} : clicks'[m] = clicks[m]
    BY <1>3, <2>1 DEF Click
  <2>3. UNCHANGED <<taken, page, broken>>
    BY <1>3 DEF Click
  <2> QED
    BY <1>1, <2>1, <2>2, <2>3, LoadedGrow
<1>4. ASSUME NEW n \in 0..MaxClicks, NEW at \in ClickPlaces, To(n, at),
             clicks[n].at \in {"taken", "settled"} => at = "settled",
             UNCHANGED <<taken, page>>, broken' \in 0..MaxBroken
      PROVE  LoadsAreCounted'
  BY <1>1, <1>4, GoesTo, LoadedGrow
<1>5. {"copied", "ok", "failed", "lost", "loading", "settled"} \subseteq ClickPlaces
  BY DEF ClickPlaces
<1>6. ASSUME NEW n \in 0..MaxClicks, ServeClick(n) \/ SaveCopy(n)
      PROVE  LoadsAreCounted'
  <2>1. PICK at \in {"ok", "copied", "failed"} : To(n, at)
    BY <1>6 DEF ServeClick, SaveCopy
  <2>2. clicks[n].at \in {"sent", "copied"} /\ UNCHANGED <<taken, page, broken>>
    BY <1>6 DEF ServeClick, SaveCopy
  <2> QED
    BY <1>1, <1>4, <1>5, <2>1, <2>2
<1>7. ASSUME NEW n \in 0..MaxClicks, Settle(n)
      PROVE  LoadsAreCounted'
  <2>1. PICK at \in {"loading", "settled"} : To(n, at)
    BY <1>7 DEF Settle
  <2>2. clicks[n].at \in {"ok", "failed", "lost"} /\ UNCHANGED <<taken, page, broken>>
    BY <1>7 DEF Settle
  <2> QED
    BY <1>1, <1>4, <1>5, <2>1, <2>2
<1>8. ASSUME NEW n \in 0..MaxClicks, ShowRows(n)
      PROVE  LoadsAreCounted'
  <2>1. To(n, "settled") /\ UNCHANGED <<taken, page, broken>>
    BY <1>8 DEF ShowRows
  <2> QED
    BY <1>1, <1>4, <1>5, <2>1
<1>9. ASSUME NEW n \in 0..MaxClicks, Interrupt(n)
      PROVE  LoadsAreCounted'
  <2>1. PICK at \in {"lost", "settled"} :
          To(n, at) /\ (clicks[n].at \in {"taken", "settled"} => at = "settled")
    BY <1>9 DEF Interrupt
  <2>2. UNCHANGED <<taken, page>> /\ broken' \in 0..MaxBroken
    BY <1>1, <1>9 DEF Interrupt
  <2> QED
    BY <1>4, <1>5, <2>1, <2>2
<1> QED
  BY <1>1, <1>2, <1>3, <1>6, <1>7, <1>8, <1>9, ReadIsCounted DEF PagesNext

\* Every variable of the pages keeps its type.
LEMMA PagesIsTyped == PagesSpec => []PagesTypeOK
<1>1. PagesInit => LoadsAreCounted
  <2> SUFFICES ASSUME PagesInit PROVE LoadsAreCounted
    OBVIOUS
  <2>1. Loaded \subseteq 0..MaxClicks
    BY DEF Loaded
  <2>2. Cardinality(Loaded) \in Nat
    BY <2>1, LoadedAreFew
  <2>3. taken = 0 /\ page \in DOMAIN Served /\ broken = 0 /\ MaxBroken \in Nat
    BY PagesAssumption DEF PagesInit
  <2> QED
    BY <2>2, <2>3 DEF LoadsAreCounted
<1>2. ASSUME PagesInv, LoadsAreCounted
      PROVE  PagesTypeOK
  <2>1. Loaded \subseteq 0..MaxClicks
    BY DEF Loaded
  <2>2. Cardinality(Loaded) \in Nat /\ Cardinality(Loaded) <= MaxClicks + 1 /\ MaxClicks \in Nat
    BY <2>1, LoadedAreFew, PagesAssumption
  <2>3. taken \in Nat /\ newest \in Nat /\ newest <= taken /\ taken <= Cardinality(Loaded)
    BY <1>2 DEF PagesInv, PagesTyping, ListsAreNumbered, LoadsAreCounted
  <2>4. taken \in 0..(MaxClicks + 1) /\ newest \in 0..taken
    BY <2>2, <2>3
  <2> QED
    BY <1>2, <2>4 DEF PagesInv, PagesTyping, LoadsAreCounted, PagesTypeOK, Lists
<1>3. PagesInv /\ LoadsAreCounted /\ [PagesNext]_pagesVars => LoadsAreCounted'
  BY LoadsKept
<1>4. PagesInv /\ LoadsAreCounted => PagesTypeOK
  BY <1>2
<1> QED
  BY <1>1, <1>3, <1>4, PagesStarts, PagesNextPreserves, PTL DEF PagesSpec

\* The subquestions are counted, and a search has at least one.
SubquestionsAreCounted ==
  /\ stage \in Stages /\ todo \in 0..MaxSubquestions
  /\ stage \in {"search", "extract"} => 1 <= MaxSubquestions
  /\ row \in {"none", "plan", "done", "failed"} /\ hits \subseteq Origins

LEMMA SubquestionsKept ==
  ASSUME SubquestionsAreCounted, [ResearchNext]_researchVars
  PROVE  SubquestionsAreCounted'
<1>1. /\ stage \in Stages /\ todo \in 0..MaxSubquestions /\ MaxSubquestions \in Nat
      /\ stage \in {"search", "extract"} => 1 <= MaxSubquestions
      /\ row \in {"none", "plan", "done", "failed"} /\ hits \subseteq Origins
  BY ResearchAssumption DEF SubquestionsAreCounted
<1>2. {"plan", "search", "extract", "compare", "generate", "deliver", "note", "done", "failed"} \subseteq Stages
  BY DEF Stages
<1>3. CASE UNCHANGED researchVars
  BY <1>1, <1>3 DEF researchVars, SubquestionsAreCounted
<1>4. CASE Start
  BY <1>1, <1>2, <1>4 DEF Start, SubquestionsAreCounted
<1>5. CASE Fail
  BY <1>1, <1>2, <1>5 DEF Fail, Data, SubquestionsAreCounted
<1>6. CASE Plan
  <2>1. todo' \in 1..MaxSubquestions /\ stage' = "search" /\ UNCHANGED <<row, hits>>
    BY <1>6 DEF Plan, Data
  <2>2. 1 <= MaxSubquestions /\ todo' \in 0..MaxSubquestions
    BY <1>1, <2>1
  <2> QED
    BY <1>1, <1>2, <2>1, <2>2 DEF SubquestionsAreCounted
<1>7. CASE Search
  <2>1. PICK num \in 0..MaxHits : \E answer \in [1..num -> Origins] : hits' = hits \cup ToSet(answer)
    BY <1>7 DEF Search
  <2>2. PICK answer \in [1..num -> Origins] : hits' = hits \cup ToSet(answer)
    BY <2>1
  <2>3. hits' \subseteq Origins
    BY <1>1, <2>2 DEF ToSet
  <2>4. todo' = todo - 1 /\ todo > 0 /\ UNCHANGED <<stage, row>> /\ stage = "search"
    BY <1>7 DEF Search
  <2>5. todo' \in 0..MaxSubquestions
    BY <1>1, <2>4
  <2> QED
    BY <1>1, <2>3, <2>4, <2>5 DEF SubquestionsAreCounted
<1>8. CASE Fetch
  <2>1. stage = "search" /\ stage' = "extract" /\ todo' = 1 /\ UNCHANGED <<row, hits>>
    BY <1>8 DEF Fetch
  <2>2. 1 \in 0..MaxSubquestions
    BY <1>1, <2>1
  <2> QED
    BY <1>1, <1>2, <2>1, <2>2 DEF SubquestionsAreCounted
<1>9. CASE Extract
  <2>1. /\ stage = "extract" /\ UNCHANGED <<row, hits>>
        /\ stage' \in {"extract", "generate", "compare"}
        /\ todo' = todo \/ (todo < MaxSubquestions /\ todo' = todo + 1)
    BY <1>9 DEF Extract
  <2>2. todo' \in 0..MaxSubquestions
    BY <1>1, <2>1
  <2> QED
    BY <1>1, <1>2, <2>1, <2>2 DEF SubquestionsAreCounted
<1>10. CASE Compare \/ Generate
  BY <1>1, <1>2, <1>10 DEF Compare, Generate, SubquestionsAreCounted
<1>11. CASE Deliver \/ Note
  BY <1>1, <1>2, <1>11 DEF Deliver, Note, Data, SubquestionsAreCounted
<1> QED
  BY <1>3, <1>4, <1>5, <1>6, <1>7, <1>8, <1>9, <1>10, <1>11 DEF ResearchNext

\* Every variable of the research run keeps its type.
LEMMA ResearchIsTyped == ResearchSpec => []ResearchTypeOK
<1>1. ResearchInit => SubquestionsAreCounted
  BY ResearchAssumption DEF ResearchInit, SubquestionsAreCounted, Stages
<1>2. ASSUME ResearchInv, SubquestionsAreCounted
      PROVE  ResearchTypeOK
  <2>1. FetchedChunks \subseteq Chunks
    <3>1. ASSUME NEW i \in DOMAIN sources, sources[i].origin = "file"
          PROVE  sources[i].id \in Passages
      <4>1. sources[i] \in Evidence
        BY <1>2 DEF ResearchInv, Shelf
      <4> QED
        BY <3>1, <4>1, KindsDiffer
    <3> QED
      BY <3>1 DEF FetchedChunks, FileChunks, Chunks
  <2>2. PagesAreRequested /\ snippets \subseteq FetchedChunks /\ ClaimsAreBacked
    BY <1>2 DEF ResearchInv
  <2>3. \A c \in citations : c.support \cup c.conflict \subseteq Chunks
    BY <2>1, <2>2 DEF ClaimsAreBacked
  <2>4. \A p \in DOMAIN pageOf : pageOf[p] \in Origins
    BY <2>2 DEF PagesAreRequested, Web
  <2> QED
    BY <1>2, <2>1, <2>2, <2>3, <2>4 DEF SubquestionsAreCounted, PagesAreRequested, ResearchTypeOK
<1>3. ResearchInv /\ SubquestionsAreCounted => ResearchTypeOK
  BY <1>2
<1>4. SubquestionsAreCounted /\ [ResearchNext]_researchVars => SubquestionsAreCounted'
  BY SubquestionsKept
<1> QED
  BY <1>1, <1>3, <1>4, ResearchStart, ResearchKeeps, PTL DEF ResearchSpec

\* Every variable of the two backends keeps its type.
LEMMA StoresIsTyped == StoresSpec => []StoresTypeOK
<1>1. StoresInv => StoresTypeOK
  BY DEF StoresInv, StoresTyped, StoresTypeOK, RepoRows
<1> QED
  BY <1>1, StoresInvariant, PTL

-----------------------------------------------------------------------------
(* Spreadsheets.  A version is never changed once it is written, so that   *)
(* what a computing run read stays what it answers for.                    *)

Paths == {"table", "other"}
EditStates ==
  [at : {"none", "asked", "read", "written", "failed"}, mode : Modes, path : Paths \cup {"none"},
   read : Nat, version : Nat]

\* A document is a sequence of versions, of whatever the surfaces make.
Versioned(doc) == \E S : doc \in Seq(S)

\* A run that computes has read a version, and its answer is that one evaluated.
AnswersForIt(e) ==
  /\ e.at \in {"asked", "read"} => e.path \in Paths
  /\ e.at \in {"read", "written"} /\ e.mode = "compute" =>
       e.path \in Paths /\ e.read \in DOMAIN docs[e.path]
  /\ e.at = "written" /\ e.mode = "compute" =>
       /\ e.version \in DOMAIN docs[e.path]
       /\ docs[e.path][e.version] = Computed(Decoded(docs[e.path][e.read]))

SheetsInv ==
  /\ DOMAIN docs = Paths /\ \A p \in Paths : Versioned(docs[p])
  /\ edits \in [DOMAIN edits -> EditStates]
  /\ \A e \in DOMAIN edits : AnswersForIt(edits[e])

\* A document that gets a version keeps those it had.
LEMMA VersionsStay ==
  ASSUME NEW doc, Versioned(doc), NEW out
  PROVE  /\ Versioned(Append(doc, out)) /\ Len(doc) \in Nat /\ DOMAIN doc = 1..Len(doc)
         /\ DOMAIN Append(doc, out) = 1..(Len(doc) + 1)
         /\ \A i \in DOMAIN doc : Append(doc, out)[i] = doc[i]
         /\ Append(doc, out)[Len(doc) + 1] = out
<1>1. PICK S : doc \in Seq(S)
  BY DEF Versioned
<1> DEFINE T == S \cup {out}
<1>2. doc \in Seq(T) /\ out \in T
  <2>1. Len(doc) \in Nat /\ doc = [i \in 1..Len(doc) |-> doc[i]] /\ \A i \in 1..Len(doc) : doc[i] \in T
    BY <1>1
  <2> QED
    BY <2>1, SeqDef
<1> HIDE DEF T
<1>3. Append(doc, out) \in Seq(T)
  BY <1>2
<1> QED
  BY <1>2, <1>3 DEF Versioned

LEMMA HasVersions ==
  ASSUME NEW doc, Versioned(doc), doc # <<>>
  PROVE  Len(doc) \in DOMAIN doc
<1>1. PICK S : doc \in Seq(S)
  BY DEF Versioned
<1>2. Len(doc) \in Nat /\ DOMAIN doc = 1..Len(doc) /\ Len(doc) # 0
  BY <1>1, EmptySeq
<1> QED
  BY <1>2

LEMMA SheetsStart == SheetsInit => SheetsInv
<1> SUFFICES ASSUME SheetsInit PROVE SheetsInv
  OBVIOUS
<1>1. PICK runs \in 1..MaxRuns : edits = [e \in 1..runs |-> NoEdit]
  BY DEF SheetsInit
<1>2. PICK sheet : docs = [table |-> <<sheet>>, other |-> <<>>]
  BY DEF SheetsInit
<1>3. NoEdit \in EditStates /\ NoEdit.at = "none"
  BY DEF NoEdit, EditStates, Modes
<1>4. DOMAIN docs = Paths /\ docs["table"] = <<sheet>> /\ docs["other"] = <<>>
  BY <1>2 DEF Paths
<1>5. \A p \in Paths : Versioned(docs[p])
  <2>1. <<sheet>> \in Seq({sheet}) /\ <<>> \in Seq({sheet})
    OBVIOUS
  <2> QED
    BY <1>4, <2>1 DEF Paths, Versioned
<1> QED
  BY <1>1, <1>3, <1>4, <1>5 DEF SheetsInv, AnswersForIt

\* A step of one run that writes nothing.
LEMMA EditKeeps ==
  ASSUME SheetsInv, NEW e \in DOMAIN edits, NEW made \in EditStates, AnswersForIt(made),
         edits' = [edits EXCEPT ![e] = made], UNCHANGED docs
  PROVE  SheetsInv'
<1>1. /\ DOMAIN edits' = DOMAIN edits /\ edits'[e] = made /\ edits' \in [DOMAIN edits -> EditStates]
      /\ \A d \in DOMAIN edits \ {e} : edits'[d] = edits[d]
  BY DEF SheetsInv
<1>2. \A d \in DOMAIN edits : AnswersForIt(edits'[d])
  BY <1>1 DEF SheetsInv
<1>3. \A d \in DOMAIN edits : AnswersForIt(edits[d])'
  BY <1>2 DEF AnswersForIt
<1> QED
  BY <1>1, <1>3 DEF SheetsInv

LEMMA AskKeeps ==
  ASSUME SheetsInv, NEW e \in DOMAIN edits, NEW mode \in Modes, NEW path \in Paths, Ask(e, mode, path)
  PROVE  SheetsInv'
<1> DEFINE made == [NoEdit EXCEPT !.at = IF mode = "unknown" THEN "failed" ELSE "asked",
                                  !.mode = mode, !.path = path]
<1>1. made \in EditStates /\ made.at \in {"failed", "asked"} /\ made.path = path
  BY DEF NoEdit, EditStates
<1>2. AnswersForIt(made)
  <2> HIDE DEF made
  <2> QED
    BY <1>1 DEF AnswersForIt
<1>3. edits' = [edits EXCEPT ![e] = made] /\ UNCHANGED docs
  BY DEF Ask
<1> HIDE DEF made
<1> QED
  BY <1>1, <1>2, <1>3, EditKeeps

LEMMA ReadSourceKeeps ==
  ASSUME SheetsInv, NEW e \in DOMAIN edits, ReadSource(e)
  PROVE  SheetsInv'
<1> DEFINE doc == docs[edits[e].path]
<1> DEFINE at == IF doc # <<>> \/ edits[e].mode = "generate" THEN "read" ELSE "failed"
<1> DEFINE made == [edits[e] EXCEPT !.at = at, !.read = Len(doc)]
<1>1. edits[e] \in EditStates /\ edits[e].at = "asked" /\ AnswersForIt(edits[e]) /\ edits[e].path \in Paths
  BY DEF SheetsInv, ReadSource, AnswersForIt
<1>2. Versioned(doc) /\ Len(doc) \in Nat
  BY <1>1, VersionsStay DEF SheetsInv
<1>3. /\ made \in EditStates /\ made.at = at /\ made.path = edits[e].path /\ made.read = Len(doc)
      /\ made.mode = edits[e].mode
  BY <1>1, <1>2 DEF EditStates
<1>4. at # "asked" /\ at # "written" /\ (at = "read" /\ made.mode = "compute" => doc # <<>>)
  BY <1>3
<1>5. doc # <<>> => Len(doc) \in DOMAIN doc
  BY <1>2, HasVersions
<1>6. AnswersForIt(made)
  <2> HIDE DEF made, at
  <2> QED
    BY <1>1, <1>3, <1>4, <1>5 DEF AnswersForIt
<1>7. edits' = [edits EXCEPT ![e] = made] /\ UNCHANGED docs
  BY <1>1 DEF ReadSource, SheetsInv
<1> HIDE DEF made
<1> QED
  BY <1>3, <1>6, <1>7, EditKeeps

LEMMA DegradeKeeps ==
  ASSUME SheetsInv, NEW e \in DOMAIN edits, Degrade(e)
  PROVE  SheetsInv'
<1> DEFINE made == [edits[e] EXCEPT !.at = "failed"]
<1>1. edits[e] \in EditStates
  BY DEF SheetsInv
<1>2. made \in EditStates /\ made.at = "failed"
  BY <1>1 DEF EditStates
<1>3. AnswersForIt(made)
  <2> HIDE DEF made
  <2> QED
    BY <1>2 DEF AnswersForIt
<1>4. edits' = [edits EXCEPT ![e] = made] /\ UNCHANGED docs
  BY DEF Degrade
<1> HIDE DEF made
<1> QED
  BY <1>2, <1>3, <1>4, EditKeeps

LEMMA StoreKeeps ==
  ASSUME SheetsInv, NEW e \in DOMAIN edits, Store(e)
  PROVE  SheetsInv'
<1> DEFINE t == Target(e)
<1> DEFINE number == Len(docs[t]) + 1
<1> DEFINE made == [edits[e] EXCEPT !.at = "written", !.version = number]
<1>1. edits[e] \in EditStates /\ edits[e].at = "read" /\ AnswersForIt(edits[e]) /\ edits[e].path \in Paths
  BY DEF SheetsInv, Store, AnswersForIt
<1>2. t \in Paths /\ (edits[e].mode = "compute" => t = edits[e].path)
  BY <1>1 DEF Target, Paths
<1>3. PICK out \in Outputs(e) : docs' = [docs EXCEPT ![t] = Append(docs[t], out)]
  BY DEF Store
<1> HIDE DEF t
<1>4. Versioned(docs[t]) /\ DOMAIN docs = Paths
  BY <1>2 DEF SheetsInv
<1>5. /\ Versioned(Append(docs[t], out)) /\ Len(docs[t]) \in Nat /\ DOMAIN docs[t] = 1..Len(docs[t])
      /\ DOMAIN Append(docs[t], out) = 1..(Len(docs[t]) + 1)
      /\ \A i \in DOMAIN docs[t] : Append(docs[t], out)[i] = docs[t][i]
      /\ Append(docs[t], out)[Len(docs[t]) + 1] = out
  BY <1>4, VersionsStay
<1>6. /\ docs'[t] = Append(docs[t], out) /\ DOMAIN docs' = Paths
      /\ \A p \in Paths \ {t} : docs'[p] = docs[p]
  BY <1>2, <1>3, <1>4
<1>7. \A p \in Paths : Versioned(docs'[p])
  BY <1>5, <1>6 DEF SheetsInv
<1>8. \A p \in Paths : \A i \in DOMAIN docs[p] : i \in DOMAIN docs'[p] /\ docs'[p][i] = docs[p][i]
  <2>1. \A i \in DOMAIN docs[t] : i \in DOMAIN docs'[t] /\ docs'[t][i] = docs[t][i]
    BY <1>5, <1>6
  <2> QED
    BY <1>6, <2>1
<1>9. /\ made \in EditStates /\ made.at = "written" /\ made.path = edits[e].path
      /\ made.read = edits[e].read /\ made.mode = edits[e].mode /\ made.version = number
  <2>1. number \in Nat
    BY <1>5
  <2> HIDE DEF number
  <2> QED
    BY <1>1, <2>1 DEF EditStates
<1> HIDE DEF made
<1>10. /\ DOMAIN edits' = DOMAIN edits /\ edits'[e] = made /\ edits' \in [DOMAIN edits -> EditStates]
       /\ \A d \in DOMAIN edits \ {e} : edits'[d] = edits[d]
  BY <1>9 DEF SheetsInv, Store, made, t
<1>11. ASSUME NEW d \in DOMAIN edits \ {e}
       PROVE  AnswersForIt(edits[d])'
  <2>1. AnswersForIt(edits[d]) /\ edits'[d] = edits[d]
    BY <1>10 DEF SheetsInv
  <2> QED
    BY <1>8, <2>1 DEF AnswersForIt
<1>12. AnswersForIt(edits[e])'
  <2>1. CASE edits[e].mode # "compute"
    BY <1>9, <1>10, <2>1 DEF AnswersForIt
  <2>2. CASE edits[e].mode = "compute"
    <3>1. out = Computed(Decoded(docs[t][edits[e].read])) /\ edits[e].read \in DOMAIN docs[t]
      BY <1>1, <1>2, <1>3, <2>2 DEF Outputs, AnswersForIt
    <3>2. docs'[t][made.read] = docs[t][edits[e].read] /\ made.read \in DOMAIN docs'[t]
      BY <1>2, <1>8, <1>9, <3>1
    <3>3. docs'[t][made.version] = out /\ made.version \in DOMAIN docs'[t]
      BY <1>5, <1>6, <1>9
    <3>4. made.path = t /\ t \in Paths
      BY <1>2, <1>9, <2>2
    <3> QED
      BY <1>9, <1>10, <3>1, <3>2, <3>3, <3>4 DEF AnswersForIt
  <2> QED
    BY <2>1, <2>2
<1> QED
  BY <1>6, <1>7, <1>10, <1>11, <1>12 DEF SheetsInv

LEMMA SheetsKeep == SheetsInv /\ [SheetsNext]_sheetsVars => SheetsInv'
<1> SUFFICES ASSUME SheetsInv, [SheetsNext]_sheetsVars PROVE SheetsInv'
  OBVIOUS
<1>1. CASE UNCHANGED sheetsVars
  BY <1>1 DEF sheetsVars, SheetsInv, AnswersForIt
<1>2. ASSUME NEW e \in DOMAIN edits, NEW mode \in Modes, NEW path \in {"table", "other"}, Ask(e, mode, path)
      PROVE  SheetsInv'
  BY <1>2, AskKeeps DEF Paths
<1> QED
  BY <1>1, <1>2, ReadSourceKeeps, StoreKeeps, DegradeKeeps DEF SheetsNext

\* Every variable of the spreadsheets keeps its type.
LEMMA SheetsIsTyped == SheetsSpec => []SheetsTypeOK
<1>1. SheetsInv => SheetsTypeOK
  BY DEF SheetsInv, Paths, EditStates, SheetsTypeOK
<1> QED
  BY <1>1, SheetsStart, SheetsKeep, PTL DEF SheetsSpec

\* The evaluator is right about the versions that there are.
EvaluatesAsMeant ==
  \A p \in DOMAIN docs : \A v \in DOMAIN docs[p] :
    ShowsMeaning(Computed(Decoded(docs[p][v])), Decoded(docs[p][v]))

\* Whatever else is written while a run computes, and whatever the evaluator is: where it is
\* right about each version by itself, what runs answer with is right about what they read
\* (executeSheet in surface/executor.ts; that Formulas.tla's evaluator is right is TLC's part).
THEOREM RunsAnswerForWhatTheyRead == SheetsSpec => [](EvaluatesAsMeant => ComputedAsMeant)
<1>1. ASSUME SheetsInv, EvaluatesAsMeant
      PROVE  ComputedAsMeant
  <2> SUFFICES ASSUME NEW e \in DOMAIN edits, edits[e].at = "written", edits[e].mode = "compute"
               PROVE  ShowsMeaning(docs[edits[e].path][edits[e].version],
                                   Decoded(docs[edits[e].path][edits[e].read]))
    BY DEF ComputedAsMeant
  <2>1. /\ edits[e].path \in Paths /\ edits[e].read \in DOMAIN docs[edits[e].path]
        /\ docs[edits[e].path][edits[e].version] = Computed(Decoded(docs[edits[e].path][edits[e].read]))
    BY <1>1 DEF SheetsInv, AnswersForIt
  <2> QED
    BY <1>1, <2>1 DEF EvaluatesAsMeant, SheetsInv
<1>2. SheetsInv => (EvaluatesAsMeant => ComputedAsMeant)
  BY <1>1
<1> QED
  BY <1>2, SheetsStart, SheetsKeep, PTL DEF SheetsSpec

-----------------------------------------------------------------------------
(* The parts together.                                                     *)

\* One step of all of them is a step of the part in focus and of no other.
LEMMA NextIsOfEach ==
  ASSUME [Next]_platformVars
  PROVE  /\ focus' = focus
         /\ [AccountsNext]_accountsVars /\ [ResearchNext]_researchVars /\ [TasksNext]_tasksVars
         /\ [StoresNext]_storesVars /\ [GatewayNext]_gatewayVars /\ [PagesNext]_pagesVars
         /\ [SheetsNext]_sheetsVars /\ [FramingNext]_framingVars
<1>1. CASE Next
  BY <1>1, Zenon DEF Next
<1>2. CASE UNCHANGED platformVars
  BY <1>2 DEF platformVars
<1> QED
  BY <1>1, <1>2

\* A reader of an empty stream is a reader.
LEMMA NoStream ==
  ASSUME reader = "chat", frames = <<>>, arrived = 0, unread = <<>>, got = <<>>, outcome = "reading"
  PROVE  FramingInit
<1>1. "chat" \in DOMAIN Readers
  BY DEF Readers
<1>2. <<>> \in [1..0 -> FrameKinds("chat")] /\ 0 \in 0..MaxFrames
  <2>1. <<>> \in Seq(FrameKinds("chat")) /\ Len(<<>>) = 0
    OBVIOUS
  <2> QED
    BY <2>1, LenProperties, FramingAssumption
<1> QED
  BY <1>1, <1>2 DEF FramingInit

\* Composed, each part is the part of its own specification: what a theorem says of one
\* holds of it among the others (Platform.tla; spreadsheets have their initial state when
\* they are in focus).
THEOREM EachPartIsItself ==
  Spec => /\ AccountsSpec /\ ResearchSpec /\ TasksSpec /\ StoresSpec /\ GatewaySpec /\ PagesSpec
          /\ FramingSpec
          /\ focus = "sheets" => SheetsSpec
<1>1. Init => /\ AccountsInit /\ ResearchInit /\ TasksInit /\ StoresInit /\ GatewayInit /\ PagesInit
  BY Zenon DEF Init
<1>2. Init => FramingInit
  <2>1. Init => \/ FramingInit
                \/ reader = "chat" /\ frames = <<>> /\ arrived = 0 /\ unread = <<>> /\ got = <<>>
                     /\ outcome = "reading"
    BY Zenon DEF Init
  <2> QED
    BY <2>1, NoStream
<1>3. Init /\ focus = "sheets" => SheetsInit
  BY Zenon DEF Init
<1>4. [Next]_platformVars => [AccountsNext]_accountsVars
  BY NextIsOfEach, Zenon
<1>5. [Next]_platformVars => [ResearchNext]_researchVars
  BY NextIsOfEach, Zenon
<1>6. [Next]_platformVars => [TasksNext]_tasksVars
  BY NextIsOfEach, Zenon
<1>7. [Next]_platformVars => [StoresNext]_storesVars
  BY NextIsOfEach, Zenon
<1>8. [Next]_platformVars => [GatewayNext]_gatewayVars
  BY NextIsOfEach, Zenon
<1>9. [Next]_platformVars => [PagesNext]_pagesVars
  BY NextIsOfEach, Zenon
<1>10. [Next]_platformVars => [SheetsNext]_sheetsVars
  BY NextIsOfEach, Zenon
<1>11. [Next]_platformVars => [FramingNext]_framingVars
  BY NextIsOfEach, Zenon
<1> QED
  BY <1>1, <1>2, <1>3, <1>4, <1>5, <1>6, <1>7, <1>8, <1>9, <1>10, <1>11, PTL
  DEF Spec, AccountsSpec, ResearchSpec, TasksSpec, StoresSpec, GatewaySpec, PagesSpec, FramingSpec,
      SheetsSpec

\* The part in focus stays in focus.
LEMMA FocusStays ==
  Spec => [](focus = "sheets") \/ [](~(focus = "sheets"))
<1>1. focus = "sheets" /\ [Next]_platformVars => (focus = "sheets")'
  BY NextIsOfEach
<1>2. ~(focus = "sheets") /\ [Next]_platformVars => (~(focus = "sheets"))'
  BY NextIsOfEach
<1> QED
  BY <1>1, <1>2, PTL DEF Spec

\* Every variable of every part keeps its type, whatever people, models, providers and
\* networks do (the state of the eight modules that Platform.tla composes).
THEOREM PlatformKeepsItsTypes == Spec => []PlatformTypeOK
<1>1. /\ AccountsTypeOK /\ ResearchTypeOK /\ TasksTypeOK /\ StoresTypeOK /\ GatewayTypeOK
      /\ PagesTypeOK /\ FramingTypeOK /\ (~(focus = "sheets") \/ SheetsTypeOK)
      => PlatformTypeOK
  BY Zenon DEF PlatformTypeOK
<1>2. Spec => [](~(focus = "sheets") \/ SheetsTypeOK)
  BY FocusStays, EachPartIsItself, SheetsIsTyped, PTL
<1> QED
  BY <1>1, <1>2, EachPartIsItself, AccountsTyped, ResearchIsTyped, TasksIsTyped, StoresIsTyped,
     GatewayIsTyped, PagesIsTyped, FramingIsTyped, PTL

\* What each part promises it keeps in the composition (the safety properties that the run
\* of MCPlatform.cfg checks; the spreadsheets' for an evaluator that is right).
THEOREM PlatformKeepsItsPromises ==
  Spec => /\ [](SingleUse /\ DeletedMeansGone)
          /\ [](ClaimsAreBacked /\ ReadAsSent)
          /\ [](OverrunIsBounded /\ ShownIsItsOwn)
          /\ [](SameRows /\ ListIsCurrent)
          /\ [](NeverMoreThanTheBucket /\ TrailIsOfTheAdmitted)
          /\ focus = "sheets" => [](EvaluatesAsMeant => ComputedAsMeant)
<1> QED
  BY EachPartIsItself, ProofsAreUsedOnce, DeletionLeavesNobody, ClaimsRestOnSources,
     ReadersHandOnWhatArrived, QuotaIsOverrunByFew, PagesShowTheirOwn, BackendsAgree,
     PagesShowWhatIsStored, BucketBoundsEveryWindow, TrailHasTheAdmitted,
     RunsAnswerForWhatTheyRead, PTL
=============================================================================
