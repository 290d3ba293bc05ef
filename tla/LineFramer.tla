----------------------------- MODULE LineFramer -----------------------------
(***************************************************************************)
(* LineFramer.push (src/framer.ts): chunks of bytes, cut anywhere, become  *)
(* the lines handed to the observer.  A chunk that is being split may be   *)
(* abandoned halfway, when the observer throws; a line past MAX_LINE is    *)
(* discarded and the framer resynchronises at the next newline.            *)
(*                                                                         *)
(* Each iteration of push's loop is a step, so that the throw can fall     *)
(* between any two.  What a line contains does not matter here: JSON.parse *)
(* and the trimming of an emitted line are left out, blank lines are not.  *)
(***************************************************************************)
EXTENDS Integers, SequencesExt

CONSTANTS
  MaxLine,      \* MAX_LINE, in characters
  MaxChunk,     \* bound: bytes in a chunk
  MaxBytes,     \* bound: bytes of the stream
  MaxThrows     \* bound: times the observer throws

ASSUME BoundsAssumption == /\ MaxLine \in Nat \ {0}
                           /\ MaxChunk \in Nat \ {0}
                           /\ MaxBytes \in Nat
                           /\ MaxThrows \in Nat

\* "x" a printing character, "s" a blank, "n" the newline; "h" and "t" are the
\* first and the last byte of a character of two bytes.
Bytes == {"x", "s", "n", "h", "t"}
Char == [c : Bytes \ {"h"}, at : 1 .. MaxBytes]   \* at: where its last byte is

VARIABLES
  sent,         \* the bytes of the stream so far
  held,         \* StringDecoder: the first byte of a character cut in two
  buf,          \* LineFramer.buf
  overflow,     \* LineFramer.overflow
  emitted,      \* the lines handed to the observer
  pc,           \* "idle", or "split": inside push's loop
  threw,        \* the observer has thrown since buf was last split to the end
  throws        \* times the observer has thrown

vars == <<sent, held, buf, overflow, emitted, pc, threw, throws>>

Init == /\ sent = <<>> /\ held = <<>> /\ buf = <<>> /\ overflow = FALSE
        /\ emitted = <<>> /\ pc = "idle" /\ threw = FALSE /\ throws = 0

\* The stream is well-formed UTF-8, as far as it goes.
WellFormed(bs) == \A i \in DOMAIN bs :
                    bs[i] = "t" <=> (i > 1 /\ bs[i - 1] = "h")

Chunks == UNION {[1 .. k -> Bytes] : k \in 1 .. MaxChunk}

\* decoder.write: the characters completed by these bytes, which follow the
\* first n of the stream; a character's first byte waits for its last, after
\* which the character is named.
Decoded(bs, n) ==
  LET chars[i \in 0 .. Len(bs)] ==
        IF i = 0 THEN <<>>
        ELSE IF bs[i] = "h" THEN chars[i - 1]
        ELSE Append(chars[i - 1], [c |-> bs[i], at |-> n + i])
  IN  chars[Len(bs)]
Decode(chunk) == Decoded(chunk, Len(sent))

NewlinesOf(s) == {i \in DOMAIN s : s[i].c = "n"}
FirstNewline(s) == Min(NewlinesOf(s))
After(s, i) == SubSeq(s, i + 1, Len(s))

\* Where an over-long line is being discarded, only what follows its newline counts.
Resync_AtChunk(text) == text                                     \* mutant
Resync(text) == After(text, FirstNewline(text))

Push(chunk) ==
  LET text == Decode(chunk)
  IN  /\ sent' = sent \o chunk
      /\ held' = IF Last(chunk) = "h" THEN <<"h">> ELSE <<>>
      /\ IF overflow /\ NewlinesOf(text) = {}
         THEN UNCHANGED <<buf, overflow, pc>>
         ELSE /\ buf' = IF overflow THEN Resync(text) ELSE buf \o text
              /\ overflow' = FALSE
              /\ pc' = "split"
      /\ UNCHANGED <<emitted, threw, throws>>

PushSome ==
  /\ pc = "idle"
  /\ \E chunk \in Chunks :
       /\ Len(sent) + Len(chunk) <= MaxBytes
       /\ WellFormed(sent \o chunk)
       /\ Push(chunk)

IsBlank(line) == \A i \in DOMAIN line : line[i].c = "s"

\* One turn of the loop: take the line off buf, then hand it on unless it is
\* blank; if the observer throws, push ends there and buf keeps the rest.
TakeLine ==
  /\ pc = "split" /\ NewlinesOf(buf) # {}
  /\ LET line == SubSeq(buf, 1, FirstNewline(buf) - 1)
     IN  IF IsBlank(line)
         THEN UNCHANGED <<emitted, pc, threw, throws>>
         ELSE /\ emitted' = Append(emitted, line)
              /\ \/ UNCHANGED <<pc, threw, throws>>
                 \/ /\ throws < MaxThrows
                    /\ pc' = "idle" /\ threw' = TRUE /\ throws' = throws + 1
  /\ buf' = After(buf, FirstNewline(buf))
  /\ UNCHANGED <<sent, held, overflow>>

TooLong(s) == Len(s) > MaxLine

\* The end of push: a buffer past the cap, without a newline, is dropped.
EndPush ==
  /\ pc = "split" /\ NewlinesOf(buf) = {}
  /\ pc' = "idle" /\ threw' = FALSE
  /\ IF TooLong(buf)
     THEN overflow' = TRUE /\ buf' = <<>>
     ELSE UNCHANGED <<overflow, buf>>
  /\ UNCHANGED <<sent, held, emitted, throws>>

\* The bound on the stream is reached.
Finished == pc = "idle" /\ Len(sent) = MaxBytes /\ UNCHANGED vars

Next == PushSome \/ TakeLine \/ EndPush \/ Finished

Spec == Init /\ [][Next]_vars

-----------------------------------------------------------------------------
TypeOK ==
  /\ sent \in Seq(Bytes) /\ Len(sent) <= MaxBytes
  /\ held \in {<<>>, <<"h">>}
  /\ buf \in Seq(Char) /\ emitted \in Seq(Seq(Char))
  /\ overflow \in BOOLEAN /\ threw \in BOOLEAN /\ throws \in 0 .. MaxThrows /\ pc \in {"idle", "split"}

\* The stream as one chunk would have given it.
Text == Decoded(sent, 0)
Breaks == {0} \cup NewlinesOf(Text)
LineBefore(i) == SubSeq(Text, Max({b \in Breaks : b < i}) + 1, i - 1)
Lines == {LineBefore(i) : i \in NewlinesOf(Text)}

\* Whatever the cuts, what the observer is given are whole lines of the stream,
\* in order, each at most once: no fragment of a discarded line, no line joined
\* to its neighbour, no character broken by a chunk's end.
EmittedAreLines ==
  /\ \A k \in DOMAIN emitted : emitted[k] \in Lines
  /\ \A j, k \in DOMAIN emitted : j < k => Last(emitted[j]).at < Head(emitted[k]).at

\* Between chunks, every line of at most MAX_LINE characters that is not blank
\* has been emitted, unless the observer threw: then what is missing is still
\* in buf and comes with the next chunk.
NoShortLineLost ==
  pc = "idle" =>
    \A line \in Lines :
      Len(line) <= MaxLine /\ ~IsBlank(line)
        => \/ \E k \in DOMAIN emitted : emitted[k] = line
           \/ threw /\ \E i \in DOMAIN buf : buf[i] = Last(line)

\* Memory stays bounded by the cap, and no line longer than the cap and the
\* rest of a chunk gets through, as long as the observer has not thrown.
BufferIsCapped ==
  throws = 0 => /\ pc = "idle" => Len(buf) <= MaxLine
                /\ \A k \in DOMAIN emitted : Len(emitted[k]) < MaxLine + MaxChunk

\* The observer gets the stream's lines, all and nothing else, from a bounded
\* buffer.
LinesInv == TypeOK /\ EmittedAreLines /\ NoShortLineLost /\ BufferIsCapped
=============================================================================
