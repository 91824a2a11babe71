------------------------------- MODULE Cowork -------------------------------
(***************************************************************************)
(* One Cowork run: the plan is cut to the fan-out cap, a pool of workers   *)
(* runs one sub-agent per sub-goal, the sections are written to the shared *)
(* workspace when files are authorized, and the brief is synthesized from  *)
(* what the workspace then holds.  Sub-agents with fs_write, the owner and *)
(* other runs write to the same paths meanwhile.                           *)
(***************************************************************************)
EXTENDS Naturals, Sequences, FiniteSets, FiniteSetsExt

CONSTANTS
  MaxPlanned,      \* bound on the sub-goals the model plans
  MaxSubAgents,
  Concurrency,
  MaxForeign       \* bound on the writes of others to a section

ASSUME CoworkAssumption ==
  /\ {MaxSubAgents, Concurrency} \subseteq Nat \ {0}
  /\ {MaxPlanned, MaxForeign} \subseteq Nat

VARIABLES
  cowork,    \* where the run stands
  pool,      \* pool[w]: the sub-goal worker w is on, 0 once it has returned
  begun,     \* begun[i]: how many sub-agents were started for sub-goal i
  results,   \* results[i]: how the sub-agent ended
  sections,  \* sections[i]: the writers of its versions, in order
  told       \* the events yielded

coworkVars == <<cowork, pool, begun, results, sections, told>>

Subgoals == 1..MaxSubAgents
Workers == 1..Concurrency

CoworkInit ==
  /\ cowork \in [pc : {"plan"}, files : BOOLEAN, kept : {0}, next : {1}, at : {1},
                 read : {[i \in Subgoals |-> 0]}]
  /\ pool = [w \in Workers |-> 0]
  /\ begun = [i \in Subgoals |-> 0]
  /\ results = [i \in Subgoals |-> "none"]
  /\ sections = [i \in Subgoals |-> <<>>]
  /\ told = <<>>

Tell(event) == told' = Append(told, event)

\* Sub-goals beyond the cap are dropped, and the plan says how many; an empty
\* plan is done at once.
CoworkPlan ==
  /\ cowork.pc = "plan"
  /\ \E planned \in 0..MaxPlanned :
       LET kept == Min({planned, MaxSubAgents}) IN
       /\ cowork' = [cowork EXCEPT !.kept = kept,
                                   !.pc = IF kept = 0 THEN "done" ELSE "pool"]
       /\ told' = <<<<"plan", kept>>>> \o (IF kept = 0 THEN <<<<"done", 0>>>> ELSE <<>>)
  /\ UNCHANGED <<pool, begun, results, sections>>

\* The plan itself fails: the generator throws, and its job fails.
CoworkPlanThrows ==
  /\ cowork.pc = "plan"
  /\ cowork' = [cowork EXCEPT !.pc = "thrown"]
  /\ UNCHANGED <<pool, begun, results, sections, told>>

\* All workers start in one go, each on the next index.
PoolStart ==
  /\ cowork.pc = "pool" /\ cowork.next = 1
  /\ LET size == Min({Concurrency, cowork.kept}) IN
     /\ pool' = [w \in Workers |-> IF w <= size THEN w ELSE 0]
     /\ begun' = [i \in Subgoals |-> IF i <= size THEN begun[i] + 1 ELSE begun[i]]
     /\ cowork' = [cowork EXCEPT !.next = size + 1]
  /\ UNCHANGED <<results, sections, told>>

\* A sub-agent ends; its worker takes the next index, if there is one.
SubAgentEnds(w) ==
  /\ pool[w] # 0
  /\ \E outcome \in {"ok", "failed"} : results' = [results EXCEPT ![pool[w]] = outcome]
  /\ IF cowork.next <= cowork.kept
       THEN /\ pool' = [pool EXCEPT ![w] = cowork.next]
            /\ begun' = [begun EXCEPT ![cowork.next] = @ + 1]
            /\ cowork' = [cowork EXCEPT !.next = @ + 1]
       ELSE /\ pool' = [pool EXCEPT ![w] = 0]
            /\ UNCHANGED <<begun, cowork>>
  /\ UNCHANGED <<sections, told>>

\* Seeded fault: the pool resolves with its first worker.
PoolEndsAtFirst ==
  /\ cowork.pc = "pool" /\ cowork.next > 1
  /\ \E w \in Workers : pool[w] = 0
  /\ cowork' = [cowork EXCEPT !.pc = "result"]
  /\ UNCHANGED <<pool, begun, results, sections, told>>

PoolEnds ==
  /\ cowork.pc = "pool" /\ cowork.next > 1
  /\ \A w \in Workers : pool[w] = 0
  /\ cowork' = [cowork EXCEPT !.pc = "result"]
  /\ UNCHANGED <<pool, begun, results, sections, told>>

\* A section of a sub-agent's result; written even if the sub-agent failed.
TellResult ==
  /\ cowork.pc = "result"
  /\ Tell(<<"result", cowork.at>>)
  /\ cowork' = [cowork EXCEPT !.pc = IF cowork.files THEN "write" ELSE "next"]
  /\ UNCHANGED <<pool, begun, results, sections>>

WriteSection ==
  /\ cowork.pc = "write"
  /\ sections' = [sections EXCEPT ![cowork.at] = Append(@, "run")]
  /\ Tell(<<"file", cowork.at>>)
  /\ cowork' = [cowork EXCEPT !.pc = "next"]
  /\ UNCHANGED <<pool, begun, results>>

NextSection ==
  /\ cowork.pc = "next"
  /\ cowork' = IF cowork.at < cowork.kept
                 THEN [cowork EXCEPT !.at = @ + 1, !.pc = "result"]
                 ELSE [cowork EXCEPT !.at = 1, !.pc = "read"]
  /\ UNCHANGED <<pool, begun, results, sections, told>>

\* The sections are read back, each on its own; without files the results are
\* taken from memory.
ReadSection ==
  /\ cowork.pc = "read" /\ cowork.files
  /\ \E i \in 1..cowork.kept :
       /\ cowork.read[i] = 0
       /\ cowork' = [cowork EXCEPT !.read[i] = Len(sections[i])]
  /\ UNCHANGED <<pool, begun, results, sections, told>>

Synthesize ==
  /\ cowork.pc = "read"
  /\ cowork.files => \A i \in 1..cowork.kept : cowork.read[i] > 0
  /\ Tell(<<"synthesize", 0>>)
  /\ cowork' = [cowork EXCEPT !.pc = IF cowork.files THEN "brief" ELSE "finish"]
  /\ UNCHANGED <<pool, begun, results, sections>>

WriteBrief ==
  /\ cowork.pc = "brief"
  /\ Tell(<<"file", 0>>)
  /\ cowork' = [cowork EXCEPT !.pc = "finish"]
  /\ UNCHANGED <<pool, begun, results, sections>>

CoworkFinish ==
  /\ cowork.pc = "finish"
  /\ Tell(<<"done", 0>>)
  /\ cowork' = [cowork EXCEPT !.pc = "done"]
  /\ UNCHANGED <<pool, begun, results, sections>>

\* A write is refused, or the synthesis fails.
CoworkError ==
  /\ cowork.pc \in {"write", "read", "brief"}
  /\ Tell(<<"error", 0>>)
  /\ cowork' = [cowork EXCEPT !.pc = "error"]
  /\ UNCHANGED <<pool, begun, results, sections>>

\* A sub-agent with fs_write, the owner or another run writes a section.
ForeignWrite ==
  /\ \E i \in Subgoals :
       /\ Cardinality({k \in DOMAIN sections[i] : sections[i][k] = "other"}) < MaxForeign
       /\ sections' = [sections EXCEPT ![i] = Append(@, "other")]
  /\ UNCHANGED <<cowork, pool, begun, results, told>>

CoworkNext ==
  \/ CoworkPlan \/ CoworkPlanThrows
  \/ PoolStart \/ (\E w \in Workers : SubAgentEnds(w)) \/ PoolEnds
  \/ TellResult \/ WriteSection \/ NextSection
  \/ ReadSection \/ Synthesize \/ WriteBrief \/ CoworkFinish \/ CoworkError
  \/ ForeignWrite

CoworkSpec == CoworkInit /\ [][CoworkNext]_coworkVars

-----------------------------------------------------------------------------
CoworkPcs == {"plan", "pool", "result", "write", "next", "read", "brief", "finish",
              "done", "error", "thrown"}

\* Every variable keeps its type.
CoworkTypeOK ==
  /\ cowork.pc \in CoworkPcs /\ cowork.files \in BOOLEAN
  /\ cowork.kept \in 0..MaxSubAgents /\ cowork.next \in 1..(MaxSubAgents + 1)
  /\ cowork.at \in Subgoals /\ cowork.read \in [Subgoals -> Nat]
  /\ pool \in [Workers -> 0..MaxSubAgents]
  /\ begun \in [Subgoals -> Nat] /\ results \in [Subgoals -> {"none", "ok", "failed"}]
  /\ sections \in [Subgoals -> Seq({"run", "other"})]

\* Each kept sub-goal gets one sub-agent and no sub-goal two, never two workers
\* on one; nothing is told of the results before every sub-agent has ended; the
\* brief is made from each section as this run wrote it or as others changed it
\* since, never from a version older than the run (mapPool, read-back).
BriefIsOfThisRun ==
  /\ \A i \in Subgoals : begun[i] <= 1
  /\ \A w, u \in Workers : pool[w] = pool[u] /\ w # u => pool[w] = 0
  /\ (\E k \in DOMAIN told : told[k][1] = "result") =>
       \A i \in 1..cowork.kept : begun[i] = 1 /\ results[i] # "none"
  /\ (\E k \in DOMAIN told : told[k][1] = "synthesize") /\ cowork.files =>
       \A i \in 1..cowork.kept :
         \E k \in 1..cowork.read[i] : sections[i][k] = "run"
=============================================================================
