-------------------------------- MODULE Chat --------------------------------
(***************************************************************************)
(* The turns of one conversation.  A turn reads the row, folds its older   *)
(* part into a summary when it has grown too long, streams the reply and   *)
(* writes the whole row back: everything between the read and the write is *)
(* awaited, and turns sent from two windows overlap.                       *)
(***************************************************************************)
EXTENDS Naturals, Sequences, FiniteSets, SequencesExt

CONSTANTS
  Turns,           \* the texts a user sends, each once
  Threshold,       \* messages a transcript may hold before it is compacted
  KeepRecentTurns

ASSUME ChatAssumption == Threshold \in Nat /\ KeepRecentTurns \in Nat \ {0}

VARIABLES
  thread,  \* the conversation's row, empty before it is created
  turn,    \* turn[t]: where turn t stands
  saves    \* the turns in the order of their saves

chatVars == <<thread, turn, saves>>

\* A message and the turns it stands for.
Message(role, of) == [role |-> role, of |-> of]
System == Message("system", {})
Said(t) == <<Message("user", {t})>>
Replied(t) == <<Message("assistant", {t})>>

NewTurn == [pc |-> "idle", messages |-> <<>>, base |-> 0]

ChatInit ==
  /\ thread = <<>>
  /\ turn = [t \in Turns |-> NewTurn]
  /\ saves = <<>>

\* The first turn creates the conversation; a later one reads it.  `base`, the
\* number of saves this read saw, is not in the code.
TurnLoad(t) ==
  /\ turn[t].pc = "idle"
  /\ thread' = IF thread = <<>> THEN <<System>> ELSE thread
  /\ turn' = [turn EXCEPT ![t] =
       [pc |-> "compact", messages |-> thread' \o Said(t), base |-> Len(saves)]]
  /\ UNCHANGED saves

\* Seeded fault: the part kept verbatim begins with a reply.
KeepFromOffByOne(rest) ==
  LET users == {i \in DOMAIN rest : rest[i].role = "user"}
      later(i) == Cardinality({j \in users : j >= i})
  IN  IF Cardinality(users) < KeepRecentTurns THEN 1
      ELSE 1 + CHOOSE i \in users : later(i) = KeepRecentTurns

\* Where the part that is kept verbatim begins: at the user message that opens
\* the last KeepRecentTurns turns, or at the beginning.
KeepFrom(rest) ==
  LET users == {i \in DOMAIN rest : rest[i].role = "user"}
      later(i) == Cardinality({j \in users : j >= i})
  IN  IF Cardinality(users) < KeepRecentTurns THEN 1
      ELSE CHOOSE i \in users : later(i) = KeepRecentTurns

\* Seeded fault: an earlier summary is dropped when a new one is made.
CompactedForgetting(messages) ==
  LET rest == Tail(messages)
      old == SelectSeq(SubSeq(rest, 1, KeepFrom(rest) - 1), LAMBDA m : m.role # "summary")
  IN  IF old = <<>> THEN messages
      ELSE <<System, Message("summary", UNION {old[i].of : i \in DOMAIN old})>>
             \o SubSeq(rest, KeepFrom(rest), Len(rest))

Compacted(messages) ==
  LET rest == Tail(messages)
      old == SubSeq(rest, 1, KeepFrom(rest) - 1)
  IN  IF old = <<>> THEN messages
      ELSE <<System, Message("summary", UNION {old[i].of : i \in DOMAIN old})>>
             \o SubSeq(rest, KeepFrom(rest), Len(rest))

\* A summary that cannot be had leaves the transcript as it is.
TurnCompact(t) ==
  /\ turn[t].pc = "compact"
  /\ \E messages \in {turn[t].messages}
         \cup (IF Len(turn[t].messages) > Threshold THEN {Compacted(turn[t].messages)} ELSE {}) :
       turn' = [turn EXCEPT ![t].pc = "reply", ![t].messages = messages]
  /\ UNCHANGED <<thread, saves>>

TurnSave(t) ==
  /\ turn[t].pc = "reply"
  /\ thread' = turn[t].messages \o Replied(t)
  /\ turn' = [turn EXCEPT ![t].pc = "done"]
  /\ saves' = Append(saves, t)

\* The reply fails: nothing is saved.
TurnFail(t) ==
  /\ turn[t].pc = "reply"
  /\ turn' = [turn EXCEPT ![t].pc = "failed"]
  /\ UNCHANGED <<thread, saves>>

ChatNext == \E t \in Turns : TurnLoad(t) \/ TurnCompact(t) \/ TurnSave(t) \/ TurnFail(t)

ChatSpec == ChatInit /\ [][ChatNext]_chatVars

-----------------------------------------------------------------------------
Remembered(messages) == UNION {messages[i].of : i \in DOMAIN messages}

\* Every variable keeps its type.
ChatTypeOK ==
  /\ saves \in Seq(Turns)
  /\ \A t \in Turns : /\ turn[t].pc \in {"idle", "compact", "reply", "done", "failed"}
                      /\ Remembered(turn[t].messages) \subseteq Turns
  /\ Remembered(thread) \subseteq Turns

\* From a place on, n whole turns: a question and its reply, about a turn that nothing
\* before them stands for.
WholeTurns(messages, from, n) ==
  \A k \in 1..n : \E t \in Turns :
    /\ messages[from + 2 * k - 1] = Message("user", {t})
    /\ messages[from + 2 * k] = Message("assistant", {t})
    /\ \A i \in 1..(from + 2 * k - 2) : t \notin messages[i].of

\* The system prompt and at most one summary, then whole turns only.
Opening(messages) == IF Len(messages) > 1 /\ messages[2].role = "summary" THEN 2 ELSE 1
WellFormed ==
  thread # <<>> =>
    /\ thread[1] = System
    /\ \E n \in 0..Len(thread) :
         /\ Len(thread) = Opening(thread) + 2 * n
         /\ WholeTurns(thread, Opening(thread), n)
         /\ Opening(thread) = 2 => n >= KeepRecentTurns

\* Compaction neither splits a turn nor repeats one, and the last KeepRecentTurns
\* turns stay verbatim (compactMessages); a turn that was answered is remembered,
\* verbatim or in the summary, unless a turn that had read the row before it was
\* saved was saved after it.
TranscriptIsWhole ==
  /\ WellFormed
  /\ \A i \in DOMAIN saves :
       \/ saves[i] \in Remembered(thread)
       \/ \E j \in DOMAIN saves : j > i /\ turn[saves[j]].base < i
=============================================================================
