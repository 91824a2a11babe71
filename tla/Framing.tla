------------------------------ MODULE Framing ------------------------------
(***************************************************************************)
(* The readers of streamed answers: the model providers' streams, the chat *)
(* and the transcript in the browser, the extension, and the clients of    *)
(* MCP servers.  The sender writes frames; they arrive in chunks that end  *)
(* anywhere, also inside a character, and the stream may end early.  A     *)
(* frame is cut into the units that a chunk can separate.                  *)
(***************************************************************************)
EXTENDS Integers, SequencesExt

CONSTANT MaxFrames \* bound: frames of a stream

ASSUME FramingAssumption == MaxFrames \in Nat

VARIABLES
  reader,  \* who reads
  frames,  \* the kinds of the frames that the sender has to write
  arrived, \* counts the units that have arrived
  unread,  \* the reader's buffer
  got,     \* the events it has handed on
  outcome  \* "reading", "stopped" at the end marker, "done", "failed" or "waiting" for ever

framingVars == <<reader, frames, arrived, unread, got, outcome>>

\* How a reader frames and what it does with a payload that is not JSON; whether its decoder
\* keeps the first half of a character for the next chunk; what ends its stream.
Reader(ends, shape, malformed, keeps, marker) ==
  [ends |-> ends, shape |-> shape, malformed |-> malformed, keeps |-> keeps, marker |-> marker]

Lines == <<"nl">>
Blocks == <<"nl", "nl">>
DataLine == <<"data", "lead", "trail", "nl", "nl">>
NamedData == <<"name", "nl", "data", "lead", "trail", "nl", "nl">>

OpenAI == Reader(Lines, DataLine, "skip", TRUE, "stop")
Anthropic == Reader(Lines, NamedData, "skip", TRUE, "none")
Extension == Reader(Blocks, DataLine, "skip", TRUE, "skip")
ChatPage == Reader(Blocks, DataLine, "skip", TRUE, "none")
Transcript == Reader(Blocks, DataLine, "throw", TRUE, "none")
StdioMcp == Reader(Lines, <<"lead", "trail", "nl">>, "skip", FALSE, "none")
HttpMcp == Reader(Lines, NamedData, "skip", TRUE, "skip")

Readers == [openai |-> OpenAI, anthropic |-> Anthropic, extension |-> Extension, chat |-> ChatPage,
            transcript |-> Transcript, stdio |-> StdioMcp, http |-> HttpMcp]

\* What a frame holds: an event for the reader, something it has no use for, a payload that is
\* not JSON, or the end marker.  The server's own transcript holds events only; to the client
\* over HTTP an event is the answer to its call, and a stray one an answer to another.
FrameKinds(r) ==
  {"event"} \cup (IF r = "transcript" THEN {} ELSE {"other", "malformed"})
            \cup (IF r = "http" THEN {"stray"} ELSE {})
            \cup (IF Readers[r].marker = "none" THEN {} ELSE {"marker"})

Unit(i, part) == [frame |-> i, part |-> part]
Shape == Readers[reader].shape
UnitAt(k) == Unit(((k - 1) \div Len(Shape)) + 1, Shape[((k - 1) % Len(Shape)) + 1])
Sent == [k \in 1..(Len(frames) * Len(Shape)) |-> UnitAt(k)]

FramingInit ==
  /\ reader \in DOMAIN Readers
  /\ frames \in UNION {[1..n -> FrameKinds(reader)] : n \in 0..MaxFrames}
  /\ arrived = 0 /\ unread = <<>> /\ got = <<>> /\ outcome = "reading"

-----------------------------------------------------------------------------
\* Whether a buffer ends with the separator.
EndsPiece(buffer, ends) ==
  LET rest == Len(buffer) - Len(ends)
  IN  rest >= 0 /\ \A n \in DOMAIN ends : buffer[rest + n].part = ends[n]

\* The payloads in a piece: what follows "data:" on a line, or the whole line over stdio.
Payloads(piece) ==
  IF reader = "stdio" THEN IF piece = <<>> THEN {} ELSE {piece}
  ELSE {SubSeq(piece, n + 1, n + 2) : n \in {k \in DOMAIN piece : piece[k].part = "data" /\ k + 2 <= Len(piece)}}

\* Whole, and each half of its character decoded with the other.
IsWhole(p) == Len(p) = 2 /\ p[1].frame = p[2].frame
Clean(p) == p[1].part = "lead" /\ p[2].part = "trail"

\* What a reader does with a piece: it hands an event on, skips, stops or throws.
HandOn(piece, st) ==
  IF \A p \in Payloads(piece) : ~IsWhole(p) THEN st
  ELSE LET p == CHOOSE q \in Payloads(piece) : TRUE
           kind == frames[p[1].frame]
           does == Readers[reader] IN
       CASE kind \in {"event", "stray"} -> [st EXCEPT !.got = Append(@, [frame |-> p[1].frame, clean |-> Clean(p)])]
         [] kind = "malformed" /\ does.malformed = "throw" -> [st EXCEPT !.outcome = "failed"]
         [] kind = "marker" /\ does.marker = "stop" -> [st EXCEPT !.outcome = "stopped"]
         [] OTHER -> st

\* One unit more in a buffer that holds no separator: a piece is complete as soon as the
\* buffer ends with one.  After the end marker nothing is looked at.
TakeIn(st, unit) ==
  LET buffer == Append(st.unread, unit)  ends == Readers[reader].ends
  IN  IF st.outcome = "reading" /\ EndsPiece(buffer, ends)
      THEN HandOn(SubSeq(buffer, 1, Len(buffer) - Len(ends)), [st EXCEPT !.unread = <<>>])
      ELSE [st EXCEPT !.unread = buffer]

\* The loop over the complete pieces of the buffer; the rest stays there.
Drain(units, st) == FoldLeft(TakeIn, st, units)

Held == [unread |-> unread, got |-> got, outcome |-> outcome]

\* Seeded fault: what is left of a chunk is dropped when its pieces have been read.
ReadDroppingRest(units) ==
  LET st == Drain(units, Held) IN unread' = <<>> /\ got' = st.got /\ outcome' = st.outcome

Read(units) ==
  LET st == Drain(units, Held) IN unread' = st.unread /\ got' = st.got /\ outcome' = st.outcome

\* A chunk as the decoder hands it on: one that does not keep the first half of a character
\* spoils both halves.
Decode(chunk) ==
  IF Readers[reader].keeps \/ chunk = <<>> THEN chunk
  ELSE [n \in DOMAIN chunk |->
         IF (n = 1 /\ chunk[n].part = "trail") \/ (n = Len(chunk) /\ chunk[n].part = "lead")
         THEN [chunk[n] EXCEPT !.part = "spoilt"] ELSE chunk[n]]

\* A chunk arrives; the client over HTTP collects the whole body first.
Chunk(n) ==
  /\ outcome = "reading" /\ arrived + n <= Len(Sent)
  /\ arrived' = arrived + n
  /\ LET units == Decode(SubSeq(Sent, arrived + 1, arrived + n))
     IN  IF reader = "http" THEN unread' = unread \o units /\ UNCHANGED <<got, outcome>> ELSE Read(units)
  /\ UNCHANGED <<reader, frames>>

\* Of the answers in the body the first to the call, or else the first to any.
Answering(s) ==
  LET own == {n \in DOMAIN s : frames[s[n].frame] = "event"}
      candidates == IF own # {} THEN own ELSE DOMAIN s
  IN  IF candidates = {} THEN <<>> ELSE <<s[Min(candidates)]>>

\* The stream ends, after its last frame or before: a reader does not tell the two apart, and
\* what is left in the buffer is dropped.  Over stdio nobody notices that the server has gone.
EndOfStream ==
  /\ outcome \in {"reading", "stopped"}
  /\ IF reader = "http"
     THEN LET st == Drain(Append(unread, Unit(0, "nl")), [Held EXCEPT !.unread = <<>>])
          IN  /\ got' = Answering(st.got) /\ unread' = <<>>
              /\ outcome' = IF st.got = <<>> THEN "failed" ELSE "done"
     ELSE /\ outcome' = IF reader = "stdio" THEN "waiting" ELSE "done"
          /\ unread' = <<>> /\ UNCHANGED got
  /\ UNCHANGED <<reader, frames, arrived>>

\* The connection breaks, or the time is up.
BreakOff ==
  /\ outcome = "reading" /\ outcome' = "failed"
  /\ UNCHANGED <<reader, frames, arrived, unread, got>>

FramingNext == (\E n \in 1..Len(Sent) : Chunk(n)) \/ EndOfStream \/ BreakOff

FramingSpec == FramingInit /\ [][FramingNext]_framingVars

-----------------------------------------------------------------------------
\* Every variable keeps its type.
FramingTypeOK ==
  /\ reader \in DOMAIN Readers /\ arrived \in 0..Len(Sent)
  /\ outcome \in {"reading", "stopped", "done", "failed", "waiting"}

\* The frames of a kind that have arrived up to their separator, before any end marker.  The
\* end of the stream completes a line too, for the client over HTTP.
Needed == Len(Shape) - (CASE reader = "http" -> 2 [] reader \in {"openai", "anthropic"} -> 1 [] OTHER -> 0)
Complete(kind) ==
  {i \in DOMAIN frames :
     /\ frames[i] = kind /\ (i - 1) * Len(Shape) + Needed <= arrived
     /\ Readers[reader].marker = "stop" => \A k \in 1..(i - 1) : frames[k] # "marker"}

\* What the client over HTTP can answer a call with: answers to it, if one has arrived.
AnswersFor == IF Complete("event") # {} THEN Complete("event") ELSE Complete("stray")

\* Wherever the chunks of a stream are cut and wherever it ends: a reader has handed on, in
\* order, once and undamaged, exactly the events whose frames have arrived.  The client over
\* HTTP hands on the first answer, at the end, and an answer to another call only if none to
\* its own has arrived; over stdio a character that is cut is damaged.
ReadAsSent ==
  /\ reader # "http" =>
       /\ {got[n].frame : n \in DOMAIN got} = Complete("event")
       /\ \A m, n \in DOMAIN got : m < n => got[m].frame < got[n].frame
  /\ reader = "http" /\ outcome = "done" =>
       Len(got) = 1 /\ got[1].frame \in AnswersFor /\ \A i \in AnswersFor : got[1].frame <= i
  /\ reader # "stdio" => \A n \in DOMAIN got : got[n].clean
=============================================================================
