----------------------------- MODULE SseParser -----------------------------
(***************************************************************************)
(* SseParser.push (src/sse.ts): the HTTP proxy's view of an event stream.  *)
(* A line ends at CR, LF or CRLF, and a chunk may end between the last two *)
(* characters of a CRLF.  Each iteration of push's loop is a step, so that *)
(* the observer can throw between any two.                                 *)
(***************************************************************************)
EXTENDS Integers, SequencesExt

CONSTANTS
  MaxChunk,     \* bound: characters in a chunk
  MaxStream,    \* bound: characters of the stream
  MaxThrows     \* bound: times the observer throws

\* "data" stands for the field name with its colon; a line that begins with
\* another character is a comment or another field.
Chars == {"data", "x", " ", "cr", "lf"}

VARIABLES
  stream,       \* the characters pushed so far
  buf,          \* SseParser.buf
  dataLines,    \* SseParser.dataLines
  sawCr,        \* SseParser.sawCr
  events,       \* the data handed to the observer
  pc,           \* "idle", or "split": inside push's loop
  throws        \* times the observer has thrown

vars == <<stream, buf, dataLines, sawCr, events, pc, throws>>

Init == /\ stream = <<>> /\ buf = <<>> /\ dataLines = <<>> /\ sawCr = FALSE
        /\ events = <<>> /\ pc = "idle" /\ throws = 0

\* An HTTP body has no empty chunks: one between CR and LF would end the swallow.
Chunks == UNION {[1 .. k -> Chars] : k \in 1 .. MaxChunk}

Swallow_Never(text) == text                                      \* mutant
\* The LF of a CRLF whose CR ended the last chunk.
Swallow(text) == IF sawCr /\ Head(text) = "lf" THEN Tail(text) ELSE text

Push ==
  /\ pc = "idle"
  /\ \E chunk \in Chunks :
       /\ Len(stream) + Len(chunk) <= MaxStream
       /\ stream' = stream \o chunk
       /\ buf' = Swallow(buf \o chunk)
  /\ sawCr' = FALSE /\ pc' = "split"
  /\ UNCHANGED <<dataLines, events, throws>>

EndsIn(s) == {i \in DOMAIN s : s[i] \in {"cr", "lf"}}

\* Where the line end at place i of s ends: CRLF is one.
Taken(s, i) == IF s[i] = "cr" /\ i < Len(s) /\ s[i + 1] = "lf" THEN i + 1 ELSE i

\* handleLine: a data field without one leading space; "" is the end of an event.
Value(line) == IF Len(line) > 1 /\ line[2] = " " THEN SubSeq(line, 3, Len(line)) ELSE Tail(line)

\* dispatch: the lines joined with LF, unless there is nothing but blanks.
Join(lines) ==
  LET joined[n \in 0 .. Len(lines)] ==
        CASE n = 0 -> <<>>
          [] n = 1 -> lines[1]
          [] OTHER -> joined[n - 1] \o <<"lf">> \o lines[n]
  IN  joined[Len(lines)]
IsBlank(data) == \A i \in DOMAIN data : data[i] \in {" ", "lf"}

HandleLine(line) ==
  IF line = <<>>
  THEN /\ dataLines' = <<>>
       /\ IF IsBlank(Join(dataLines)) THEN UNCHANGED <<events, pc, throws>>
          ELSE /\ events' = Append(events, Join(dataLines))
               /\ \/ UNCHANGED <<pc, throws>>
                  \/ /\ throws < MaxThrows
                     /\ throws' = throws + 1 /\ pc' = "idle"
  ELSE /\ dataLines' = IF Head(line) = "data" THEN Append(dataLines, Value(line)) ELSE dataLines
       /\ UNCHANGED <<events, pc, throws>>

\* One turn of the loop.  (After a CR at the end of buf the code leaves the loop
\* at once; here the loop ends with buf empty.)
TakeLine ==
  /\ pc = "split" /\ EndsIn(buf) # {}
  /\ LET i == Min(EndsIn(buf))
     IN  /\ buf' = SubSeq(buf, Taken(buf, i) + 1, Len(buf))
         /\ sawCr' = (buf[i] = "cr" /\ i = Len(buf))
         /\ HandleLine(SubSeq(buf, 1, i - 1))
  /\ UNCHANGED stream

EndPush ==
  /\ pc = "split" /\ EndsIn(buf) = {}
  /\ pc' = "idle"
  /\ UNCHANGED <<stream, buf, dataLines, sawCr, events, throws>>

\* The bound on the stream is reached.
Finished == pc = "idle" /\ Len(stream) = MaxStream /\ UNCHANGED vars

Next == Push \/ TakeLine \/ EndPush \/ Finished
Spec == Init /\ [][Next]_vars

-----------------------------------------------------------------------------
TypeOK ==
  /\ stream \in Seq(Chars) /\ buf \in Seq(Chars) /\ Len(stream) <= MaxStream
  /\ dataLines \in Seq(Seq(Chars)) /\ events \in Seq(Seq(Chars))
  /\ sawCr \in BOOLEAN /\ pc \in {"idle", "split"} /\ throws \in 0 .. MaxThrows

\* The values of f over a set of numbers, in the order of the numbers.
Nth(S, n) == Min({i \in S : Cardinality({j \in S : j <= i}) >= n})
InOrder(S, f) == [n \in 1 .. Cardinality(S) |-> f[Nth(S, n)]]

\* The events of a text, read in one piece: its line ends, the lines before
\* them, and for each blank line the data of the lines since the blank one
\* before it.
Before(i, S) == Max({0} \cup {j \in S : j < i})
LineEnds(s) == {i \in EndsIn(s) : ~(s[i] = "lf" /\ i > 1 /\ s[i - 1] = "cr")}
LineAt(s, i) == SubSeq(s, Before(i, EndsIn(s)) + 1, i - 1)
EventEnds(s) == {i \in LineEnds(s) : LineAt(s, i) = <<>>}
Fields(s, i) ==
  LET e == Before(i, EventEnds(s))
  IN  {j \in LineEnds(s) : e < j /\ j < i /\ Head(LineAt(s, j)) = "data"}
DataBefore(s, i) == InOrder(Fields(s, i), [j \in Fields(s, i) |-> Value(LineAt(s, j))])
DataAt(s, i) == Join(DataBefore(s, i))
Full(s) == {i \in EventEnds(s) : ~IsBlank(DataAt(s, i))}
EventsOf(s) == InOrder(Full(s), [i \in Full(s) |-> DataAt(s, i)])

\* What the parser has taken off the stream.
Consumed == SubSeq(stream, 1, Len(stream) - Len(buf))

\* Wherever the chunks are cut, and if the observer throws, the events handed on
\* are at every moment those of the text consumed so far, and what is not
\* consumed holds no line end, unless an exception left one for the next chunk.
EventsAreTheStreams ==
  /\ TypeOK
  /\ events = EventsOf(Consumed)
  /\ pc = "idle" /\ throws = 0 => EndsIn(buf) = {}
=============================================================================
