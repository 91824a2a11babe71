------------------------------ MODULE Research ------------------------------
(***************************************************************************)
(* One run of the research orchestrator: plan, search, fetch, extract,     *)
(* compare, generate, deliver.  Two paths lead to the report: the verified *)
(* one, over quotes found in fetched pages and files, and the legacy one.  *)
(* What a model answers is any answer of the right shape.                  *)
(***************************************************************************)
EXTENDS Naturals, Sequences, FiniteSets, SequencesExt

CONSTANTS
  Origins,         \* the URLs a search can find
  Pages,           \* the pages they lead to; a redirect may join two
  Files,           \* the project's files, of one passage each
  MaxSubquestions, \* bound: the subquestions of a plan
  MaxHits,         \* bound: the hits of a search
  TopN,            \* the pages fetched for a run
  MaxQuotes        \* bound: the quotes a model gives for a subquestion

\* A project's files are finitely many, and a web address is neither a file nor a memory.
ASSUME ResearchAssumption ==
  /\ IsFiniteSet(Files) /\ {MaxSubquestions, MaxHits} \subseteq Nat
  /\ {"file", "memory"} \cap Origins = {} /\ "failed" \notin Pages

VARIABLES
  stage,     \* where the generator stands
  todo,      \* subquestions still to search or to extract for
  sources,   \* task.sources: the evidence shown, in order
  pageOf,    \* the origin a fetched page was requested as
  degraded,  \* the origins whose page could not be fetched
  snippets,  \* task.snippets: the chunks a verified quote was taken from
  citations, \* task.citations
  row,       \* the state of the task's row, "none" before it is made
  hits       \* history: the origins the searches returned

researchVars == <<stage, todo, sources, pageOf, degraded, snippets, citations, row, hits>>

Stages == {"start", "plan", "search", "fetch", "extract", "compare", "generate",
           "deliver", "note", "finish", "done", "failed"}
Fetched == [kind : {"fetch"}, of : Pages, para : 1..2]
Passages == [kind : {"file"}, of : Files, para : {1}]
Chunks == Fetched \cup Passages
Source(id, origin) == [id |-> id, origin |-> origin]
HitId(i) == [kind |-> "hit", of |-> "answer", para |-> i]  \* a hit is numbered by its place in its own answer
PageKey(chunk) == <<chunk.kind, chunk.of>>
Ids == {sources[i].id : i \in DOMAIN sources}
Claim(support, conflict, ids, status) ==
  [support |-> support, conflict |-> conflict, sourceIds |-> ids, status |-> status]

ResearchInit ==
  /\ stage = "start" /\ todo = 0 /\ sources = <<>> /\ pageOf = <<>> /\ degraded = {}
  /\ snippets = {} /\ citations = {} /\ row = "none" /\ hits = {}

-----------------------------------------------------------------------------
Data == <<sources, pageOf, degraded, snippets, citations, hits>>

\* Evidence is kept once per source id.
Merge(old, new) ==
  FoldLeft(LAMBDA s, x : IF \E i \in DOMAIN s : s[i].id = x.id THEN s ELSE Append(s, x),
           old, new)

\* A note that shares a word with the question, or none.
Recalled == {<<>>, <<Source([kind |-> "mem", of |-> "memory", para |-> 1], "memory")>>}

\* The passages of a project's files that are nearest to the question.
Retrieved == {SetToSeq({Source(c, "file") : c \in passages}) : passages \in SUBSET Passages}

\* What is retrieved and recalled is evidence too.
Start ==
  /\ stage = "start"
  /\ \E files \in Retrieved, notes \in Recalled : sources' = files \o notes
  /\ row' = "plan" /\ stage' = "plan"
  /\ UNCHANGED <<todo, pageOf, degraded, snippets, citations, hits>>

\* A model call that fails, or gives no answer of the right shape, ends the run.
Fail ==
  /\ stage \in {"plan", "extract", "compare", "generate", "note"}
  /\ stage' = "failed" /\ row' = "failed"
  /\ UNCHANGED <<todo, Data>>

Plan ==
  /\ stage = "plan"
  /\ todo' \in 1..MaxSubquestions /\ stage' = "search"
  /\ UNCHANGED <<row, Data>>

\* The hits of one answer, as evidence.
AsEvidence(answer) == [i \in DOMAIN answer |-> Source(HitId(i), answer[i])]

\* A search that fails is a search without hits.
Search ==
  /\ stage = "search" /\ todo > 0
  /\ \E n \in 0..MaxHits : \E answer \in [1..n -> Origins] :
       /\ IsInjective(answer)
       /\ sources' = Merge(sources, AsEvidence(answer))
       /\ hits' = hits \cup ToSet(answer)
  /\ todo' = todo - 1
  /\ UNCHANGED <<stage, pageOf, degraded, snippets, citations, row>>

\* The web origins among the sources, each once, in the order they first appear.
Web == {o \in Origins : \E i \in DOMAIN sources : sources[i].origin = o}
FirstAt(o) == Min({i \in DOMAIN sources : sources[i].origin = o})

\* The first TopN of them are fetched.
Asked == {o \in Web : Cardinality({w \in Web : FirstAt(w) < FirstAt(o)}) < TopN}

\* Which origin a page was requested as: the last one that led to it.
Enrich(from) ==
  [p \in {from[o] : o \in Asked} \ {"failed"} |->
     CHOOSE o \in Asked : from[o] = p /\ \A w \in Asked : from[w] = p => FirstAt(w) <= FirstAt(o)]

FileChunks == {sources[i].id : i \in {j \in DOMAIN sources : sources[j].origin = "file"}}
FetchedChunks == {c \in Fetched : c.of \in DOMAIN pageOf} \cup FileChunks
VerifiedPath == FetchedChunks # {}

\* A page that cannot be fetched leaves its source with the search's snippet.
Fetch ==
  /\ stage = "search" /\ todo = 0
  /\ \E from \in [Asked -> Pages \cup {"failed"}] :
       /\ pageOf' = Enrich(from)
       /\ degraded' = {o \in Asked : from[o] = "failed"}
  /\ stage' = "extract" /\ todo' = 1
  /\ UNCHANGED <<sources, snippets, citations, row, hits>>

\* A quote counts when its chunk exists and contains it.
Verified(quotes) == {q.chunk : q \in {x \in quotes : x.chunk \in FetchedChunks /\ x.verbatim}}

\* The quotes of every subquestion are joined (todo counts the answers joined so far).
Extract ==
  /\ stage = "extract"
  /\ IF ~VerifiedPath
     THEN stage' = "generate" /\ UNCHANGED <<todo, snippets>>
     ELSE /\ \E chosen \in SUBSET Chunks :
               /\ Cardinality(chosen) <= MaxQuotes
               /\ \E verbatim \in [chosen -> BOOLEAN] :
                    snippets' = snippets \cup
                      Verified({[chunk |-> c, verbatim |-> verbatim[c]] : c \in chosen})
          /\ \/ todo < MaxSubquestions /\ todo' = todo + 1 /\ UNCHANGED stage
             \/ UNCHANGED todo /\ stage' = IF snippets' = {} THEN "generate" ELSE "compare"
  /\ UNCHANGED <<sources, pageOf, degraded, citations, row, hits>>

\* The source shown for a chunk: the file passage itself, or the hit its page was
\* requested from.  Of two hits with one origin the later one is meant.
DisplaySourceId(c) ==
  IF c.kind = "file" THEN {c} \cap Ids
  ELSE IF c.of \notin DOMAIN pageOf THEN {}
  ELSE LET from == {i \in DOMAIN sources : sources[i].origin = pageOf[c.of]} IN
       {sources[i].id : i \in {j \in from : \A k \in from : k <= j}}

\* Seeded fault: corroboration is counted in quotes instead of in pages.
StatusByQuotes(support, conflict) ==
  IF conflict # {} THEN "disputed"
  ELSE IF Cardinality(support) >= 2 THEN "corroborated" ELSE "single_source"

\* The status is computed again from the evidence.
StatusOf(support, conflict) ==
  IF conflict # {} THEN "disputed"
  ELSE IF Cardinality({PageKey(c) : c \in support}) >= 2 THEN "corroborated"
  ELSE "single_source"

\* A claim keeps the snippets that exist, and is dropped without support or source.
ValidateClaims(raw) ==
  LET known(c) == [support |-> c.support \cap snippets, conflict |-> c.conflict \cap snippets]
      shown(c) == UNION {DisplaySourceId(s) : s \in c.support}
  IN {Claim(c.support, c.conflict, shown(c), StatusOf(c.support, c.conflict)) :
        c \in {k \in {known(x) : x \in raw} : k.support # {} /\ shown(k) # {}}}

Compare ==
  /\ stage = "compare"
  /\ \E support, conflict \in SUBSET FetchedChunks :
       citations' = ValidateClaims({[support |-> support, conflict |-> conflict]})
  /\ stage' = "generate"
  /\ UNCHANGED <<todo, sources, pageOf, degraded, snippets, row, hits>>

\* The report is streamed.  Without a compared claim, claims are extracted from it
\* and keep the sources that are known.
Generate ==
  /\ stage = "generate"
  /\ IF citations = {}
     THEN \E named \in {{}} \cup {{HitId(i)} : i \in 1..MaxHits} :
            citations' = {c \in {Claim({}, {}, named \cap Ids, "none")} : c.sourceIds # {}}
     ELSE UNCHANGED citations
  /\ stage' = "deliver"
  /\ UNCHANGED <<todo, sources, pageOf, degraded, snippets, row, hits>>

Deliver ==
  /\ stage = "deliver"
  /\ row' = "done" /\ stage' = "note"
  /\ UNCHANGED <<todo, Data>>

\* What was found is noted in memory, and only then is the stream told.
Note ==
  /\ stage = "note"
  /\ stage' = "done"
  /\ UNCHANGED <<todo, row, Data>>

ResearchNext == Start \/ Fail \/ Plan \/ Search \/ Fetch \/ Extract \/ Compare \/ Generate
                \/ Deliver \/ Note

ResearchSpec == ResearchInit /\ [][ResearchNext]_researchVars

-----------------------------------------------------------------------------
\* Every variable keeps its type.
ResearchTypeOK ==
  /\ stage \in Stages /\ todo \in 0..MaxSubquestions
  /\ row \in {"none", "plan", "done", "failed"}
  /\ snippets \subseteq Chunks /\ degraded \subseteq Origins /\ hits \subseteq Origins
  /\ DOMAIN pageOf \subseteq Pages /\ \A p \in DOMAIN pageOf : pageOf[p] \in Origins
  /\ \A c \in citations : c.support \cup c.conflict \subseteq Chunks

\* Every claim cites sources the reader is shown, its quotes come from pages and files
\* that were read, a corroborated claim cites at least two different sources, and a
\* source whose page could not be read supports no quote.
ClaimsAreBacked ==
  \A c \in citations :
    /\ c.sourceIds # {} /\ c.sourceIds \subseteq Ids
    /\ c.support \cup c.conflict \subseteq FetchedChunks
    /\ c.status = "corroborated" => Cardinality(c.sourceIds) >= 2 /\ c.conflict = {}
    /\ c.support # {} =>
         \A i \in DOMAIN sources : sources[i].id \in c.sourceIds => sources[i].origin \notin degraded

\* A comment: the sources shown are the search hits, one per origin.
SourcesAreTheHits ==
  stage \notin {"start", "plan", "search"} =>
    \A o \in hits : \E i \in DOMAIN sources : sources[i].origin = o
=============================================================================
