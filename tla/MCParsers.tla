----------------------------- MODULE MCParsers -----------------------------
(***************************************************************************)
(* The parsers for TLC: a behaviour is one of LineFramer, over every       *)
(* stream of a few bytes, of SseParser, over every text of a few           *)
(* characters, both cut into chunks in every way, or of the native         *)
(* classifier, over every JSON text of small nesting.                      *)
(***************************************************************************)
EXTENDS LineFramer

CONSTANTS MaxSseChunk, MaxSseStream, MaxNesting, Keys, Strings

VARIABLES
  parser,       \* which of the three
  sseStream, sseBuf, dataLines, sawCr, sseEvents, ssePc, sseThrows,
  todo, open, val, scan, view

sseVars == <<sseStream, sseBuf, dataLines, sawCr, sseEvents, ssePc, sseThrows>>
jsonVars == <<todo, open, val, scan, view>>

Sse == INSTANCE SseParser WITH
  MaxChunk <- MaxSseChunk, MaxStream <- MaxSseStream,
  stream <- sseStream, buf <- sseBuf, events <- sseEvents, pc <- ssePc, throws <- sseThrows

\* Names and strings in which quotes, backslashes and brackets mean nothing.
MCKeys == {<<"method">>, <<"id">>, <<"result">>, <<"error">>, <<"a">>,
           <<"a", "\\", "quote", ":">>, <<"id", "\\", "\\">>}
MCStrings == {<<"id">>, <<"\\", "quote", ",">>, <<"{", "\\", "\\", "\\", "quote">>}

Json == INSTANCE Classifier WITH MaxDepth <- MaxNesting

ASSUME JsonAssumption == Json!TextsAreJson
ASSUME NestingAssumption == MaxNesting \in Nat
ASSUME SseAssumption == MaxSseChunk \in Nat /\ MaxSseStream \in Nat

ParsersInit == parser \in {"line", "sse", "json"} /\ Init /\ Sse!Init /\ Json!Init
ParsersNext ==
  /\ UNCHANGED parser
  /\ \/ parser = "line" /\ Next /\ UNCHANGED <<sseVars, jsonVars>>
     \/ parser = "sse" /\ Sse!Next /\ UNCHANGED <<vars, jsonVars>>
     \/ parser = "json" /\ Json!Next /\ UNCHANGED <<vars, sseVars>>
ParsersSpec == ParsersInit /\ [][ParsersNext]_<<parser, vars, sseVars, jsonVars>>

EventsAreTheStreams == Sse!EventsAreTheStreams
ProxiesAgree == Json!ProxiesAgree
=============================================================================
