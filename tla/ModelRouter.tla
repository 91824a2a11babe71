---------------------------- MODULE ModelRouter ----------------------------
(***************************************************************************)
(* One call of the model router: a stream (complete) or a structured       *)
(* answer (json), over the route's candidates in order.  complete() goes   *)
(* through the keys of each candidate and may fail over only while it has  *)
(* passed nothing on; json() uses the first key and repeats a request      *)
(* whose answer does not validate before it moves to the next candidate.   *)
(***************************************************************************)
EXTENDS Naturals, Sequences, FiniteSets

CONSTANTS
  Candidates,       \* length of the route: the primary and its fallbacks
  MaxKeys,          \* bound on the keys of a provider
  MaxChunks,        \* bound on the chunks of a stream
  JsonMaxRetries

ASSUME RouterAssumption ==
  {Candidates, MaxKeys, MaxChunks} \subseteq Nat \ {0} /\ JsonMaxRetries \in Nat

VARIABLES
  keys,      \* keys[c]: the usable keys of candidate c; none without an adapter
  call,      \* where the call stands
  chunks,    \* what the caller has received, each with the attempt it is from
  attempts,  \* the failed attempts, as <<candidate, key>>
  metered    \* the attempts whose usage was recorded

routerVars == <<keys, call, chunks, attempts, metered>>

RouterPcs == {"open", "done", "thrown", "exhausted"}
Attempt == (1..Candidates) \X (0..MaxKeys)
Current == <<call.candidate, call.key>>

RouterInit ==
  /\ keys \in [1..Candidates -> 0..MaxKeys]
  /\ call \in [kind : {"complete", "json"}, pc : {"open"}, candidate : {1},
               key : {1}, tries : {0}]
  /\ chunks = <<>> /\ attempts = <<>> /\ metered = <<>>

Opened == call.pc = "open" /\ call.candidate <= Candidates
Asking == Opened /\ keys[call.candidate] > 0

NextCandidate == [call EXCEPT !.candidate = @ + 1, !.key = 1, !.tries = 0]

\* No adapter, or no key for its provider.
SkipCandidate ==
  /\ Opened /\ keys[call.candidate] = 0
  /\ attempts' = Append(attempts, <<call.candidate, 0>>)
  /\ call' = NextCandidate
  /\ UNCHANGED <<keys, chunks, metered>>

StreamChunk ==
  /\ Asking /\ call.kind = "complete"
  /\ Len(chunks) < MaxChunks
  /\ chunks' = Append(chunks, Current)
  /\ UNCHANGED <<keys, call, attempts, metered>>

StreamEnd ==
  /\ Asking /\ call.kind = "complete"
  /\ metered' = Append(metered, Current)
  /\ call' = [call EXCEPT !.pc = "done"]
  /\ UNCHANGED <<keys, chunks, attempts>>

\* `yielded` of the current attempt.
Yielded == \E k \in DOMAIN chunks : chunks[k] = Current

NextKey ==
  IF call.key < keys[call.candidate] THEN [call EXCEPT !.key = @ + 1] ELSE NextCandidate

FailOver ==
  /\ attempts' = Append(attempts, Current)
  /\ call' = NextKey

\* Seeded fault: a stream that breaks fails over whatever was passed on.
StreamBreakFailsOver ==
  /\ Asking /\ call.kind = "complete"
  /\ FailOver
  /\ UNCHANGED <<keys, chunks, metered>>

\* The stream or its usage fails: what was passed on cannot be taken back.
StreamBreak ==
  /\ Asking /\ call.kind = "complete"
  /\ \/ /\ Yielded
        /\ call' = [call EXCEPT !.pc = "thrown"]
        /\ UNCHANGED attempts
     \/ ~Yielded /\ FailOver
  /\ UNCHANGED <<keys, chunks, metered>>

JsonValid ==
  /\ Asking /\ call.kind = "json"
  /\ metered' = Append(metered, Current)
  /\ call' = [call EXCEPT !.pc = "done"]
  /\ UNCHANGED <<keys, chunks, attempts>>

\* The answer does not parse or validate, or the request fails.
JsonInvalid ==
  /\ Asking /\ call.kind = "json"
  /\ IF call.tries < JsonMaxRetries
       THEN /\ call' = [call EXCEPT !.tries = @ + 1]
            /\ UNCHANGED attempts
       ELSE /\ attempts' = Append(attempts, Current)
            /\ call' = NextCandidate
  /\ UNCHANGED <<keys, chunks, metered>>

Exhaust ==
  /\ call.pc = "open" /\ call.candidate > Candidates
  /\ call' = [call EXCEPT !.pc = "exhausted"]
  /\ UNCHANGED <<keys, chunks, attempts, metered>>

RouterNext ==
  \/ SkipCandidate
  \/ StreamChunk \/ StreamEnd \/ StreamBreak
  \/ JsonValid \/ JsonInvalid
  \/ Exhaust

RouterSpec == RouterInit /\ [][RouterNext]_routerVars

-----------------------------------------------------------------------------
\* Every variable keeps its type.
RouterTypeOK ==
  /\ keys \in [1..Candidates -> 0..MaxKeys]
  /\ call \in [kind : {"complete", "json"}, pc : RouterPcs,
               candidate : 1..(Candidates + 1), key : 1..MaxKeys, tries : 0..JsonMaxRetries]
  /\ {chunks, attempts, metered} \subseteq Seq(Attempt)

\* Every key the call may use, in a run that found no answer.
Usable ==
  {a \in Attempt :
     IF keys[a[1]] = 0 THEN a[2] = 0
     ELSE a[2] \in 1..(IF call.kind = "json" THEN 1 ELSE keys[a[1]])}

\* A caller never gets the text of two attempts; an answer is metered once, for
\* the attempt it came from; a call gives up only after it tried each key it may
\* use exactly once, and never after it passed something on (router.ts:109-117).
AnsweredByOne ==
  /\ \A j, k \in DOMAIN chunks : chunks[j] = chunks[k]
  /\ call.pc = "done" =>
       metered = <<Current>> /\ \A k \in DOMAIN chunks : chunks[k] = Current
  /\ call.pc # "done" => metered = <<>>
  /\ call.pc = "exhausted" =>
       /\ chunks = <<>>
       /\ {attempts[k] : k \in DOMAIN attempts} = Usable
       /\ Len(attempts) = Cardinality(Usable)
=============================================================================
