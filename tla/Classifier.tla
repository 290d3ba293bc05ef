----------------------------- MODULE Classifier -----------------------------
(***************************************************************************)
(* The native proxy classifies a line without parsing it (scan_top_level   *)
(* and classify in native/mcpgaze-proxy/src/main.rs), Node by parsing it   *)
(* (classify in src/jsonrpc.ts).  A writer produces an arbitrary JSON text *)
(* piece by piece; scan reads its characters, while view is what JSON.parse *)
(* makes of it.  Texts may be of any length: only their nesting is bounded. *)
(*                                                                         *)
(* A word ("method", "null", "a") is one character here, and so is what    *)
(* follows a backslash; "quote" is the quotation mark.  Blanks, which the  *)
(* scanner skips, are left out.                                            *)
(***************************************************************************)
EXTENDS Integers, SequencesExt

CONSTANTS
  Keys,           \* raw texts of member names (sequences of characters)
  Strings,        \* raw texts of string values
  MaxDepth        \* bound: nesting of objects and arrays

Known == {"method", "id", "result", "error"}
None == "none"

\* JSON: a backslash escapes what follows it, unless it is escaped itself; a
\* quote inside a text is escaped, and no backslash is left at its end.
\* Escaped names (\u0069d for id) are left out: the scanner does not decode
\* them, which KNOWN-ISSUES.md (4) accepts.
IsJsonText(s) ==
  \E esc \in [1 .. Len(s) + 1 -> BOOLEAN] :      \* esc[i]: s[i] is escaped
    /\ ~esc[1] /\ ~esc[Len(s) + 1]
    /\ \A i \in DOMAIN s : /\ esc[i + 1] = (s[i] = "\\" /\ ~esc[i])
                           /\ s[i] = "quote" => esc[i]
TextsAreJson == \A s \in Keys \cup Strings : s \in Seq(STRING) /\ IsJsonText(s)

VARIABLES
  todo,           \* what the writer writes next
  open,           \* the containers it has opened: "obj" or "arr"
  val,            \* the value it will write after the colon
  scan,           \* the scanner's locals and the TopLevel it fills in
  view            \* the parsed text: its kind of value and, of each known
                  \* key, its last value at top level

vars == <<todo, open, val, scan, view>>

Values == [k : {"null", "number", "obj", "arr"}, s : {<<>>}] \cup [k : {"string"}, s : Strings]
NoValue == [k |-> None, s |-> <<>>]

Init ==
  /\ todo = "start" /\ open = <<>> /\ val = NoValue
  /\ scan = [object |-> FALSE, array |-> FALSE, first |-> TRUE, over |-> FALSE,
             has |-> {}, idNull |-> FALSE, method |-> NoValue,
             depth |-> 0, inStr |-> FALSE, esc |-> FALSE, expectKey |-> FALSE,
             reading |-> FALSE, key |-> <<>>, pendingKey |-> None]
  /\ view = [kind |-> None, last |-> [k \in Known |-> NoValue]]

-----------------------------------------------------------------------------
(* scan_top_level, one character at a time.                                *)

\* Phase 1: the first character that is no blank decides what the line is.
ScanFirst(s, c) ==
  CASE c = "{" -> [s EXCEPT !.first = FALSE, !.object = TRUE, !.depth = 1, !.expectKey = TRUE]
    [] c = "[" -> [s EXCEPT !.first = FALSE, !.array = TRUE, !.over = TRUE]
    [] OTHER   -> [s EXCEPT !.first = FALSE, !.over = TRUE]

Recognize(key) == IF Len(key) = 1 /\ key[1] \in Known THEN key[1] ELSE None

\* The closing quote: if it ends a key, remember a known one until its colon.
\* (cur_key is emptied here, the code empties it when the next key begins.)
EndString(s) ==
  LET name == Recognize(s.key)
  IN  IF ~s.reading THEN [s EXCEPT !.inStr = FALSE]
      ELSE [s EXCEPT !.inStr = FALSE, !.reading = FALSE, !.key = <<>>, !.expectKey = FALSE,
                     !.has = @ \cup ({name} \ {None}), !.pendingKey = name]

Grow(s, c) == IF s.reading THEN Append(s.key, c) ELSE s.key

ScanInString(s, c) ==
  CASE s.esc               -> [s EXCEPT !.esc = FALSE, !.key = Grow(s, c)]
    [] ~s.esc /\ c = "\\"  -> [s EXCEPT !.esc = TRUE, !.key = Grow(s, c)]
    [] ~s.esc /\ c = "quote"  -> EndString(s)
    [] OTHER               -> [s EXCEPT !.key = Grow(s, c)]

IdNull_Ever(s, v) == s.idNull \/ v.k = "null"                    \* mutant
\* The last top-level id decides.
IdNull(s, v) == v.k = "null"

MethodOf_First(s, v) == IF s.method.k = "string" THEN s.method ELSE v  \* mutant
\* read_json_string: the text of a string value, as it is written.
MethodOf(s, v) == IF v.k = "string" THEN v ELSE NoValue

\* A colon right inside the top object: look at the value v after it.
ScanColon(s, v) ==
  IF s.depth # 1 THEN s
  ELSE [s EXCEPT !.pendingKey = None,
                 !.idNull = IF s.pendingKey = "id" THEN IdNull(s, v) ELSE @,
                 !.method = IF s.pendingKey = "method" THEN MethodOf(s, v) ELSE @]

KeyMayStart(s) == s.depth = 1 /\ s.expectKey

ScanPlain(s, c, v) ==
  CASE c = "quote" /\ KeyMayStart(s) -> [s EXCEPT !.inStr = TRUE, !.reading = TRUE]
    [] c = "quote" /\ ~KeyMayStart(s) -> [s EXCEPT !.inStr = TRUE]
    [] c \in {"{", "["} -> [s EXCEPT !.depth = @ + 1]
    [] c = "}" -> [s EXCEPT !.depth = @ - 1, !.over = (s.depth = 1)]
    [] c = "]" -> [s EXCEPT !.depth = @ - 1]
    [] c = ":" -> ScanColon(s, v)
    [] c = "," /\ s.depth = 1 -> [s EXCEPT !.expectKey = TRUE, !.pendingKey = None]
    [] OTHER -> s

ScanChar(s, c, v) ==
  IF s.over THEN s
  ELSE CASE s.first             -> ScanFirst(s, c)
         [] ~s.first /\ s.inStr -> ScanInString(s, c)
         [] OTHER               -> ScanPlain(s, c, v)

\* The scanner reads a piece of text; v is the value that comes after it.
Scanned(s, piece, v) ==
  LET after[n \in 0 .. Len(piece)] ==
        IF n = 0 THEN s ELSE ScanChar(after[n - 1], piece[n], v)
  IN  after[Len(piece)]

Write(piece, v) == scan' = Scanned(scan, piece, v)

-----------------------------------------------------------------------------
(* The writer: the grammar of JSON.                                        *)

Quoted(s) == <<"quote">> \o s \o <<"quote">>

AfterValue(stack) == IF stack = <<>> THEN "end" ELSE "after"

\* Writes value v: a scalar, or the opening of a container.
WriteValue(v) ==
  IF v.k \in {"obj", "arr"}
  THEN /\ Len(open) < MaxDepth
       /\ open' = Append(open, v.k)
       /\ todo' = IF v.k = "obj" THEN "firstKey" ELSE "firstItem"
       /\ Write(<<IF v.k = "obj" THEN "{" ELSE "[">>, NoValue)
  ELSE /\ UNCHANGED open
       /\ todo' = AfterValue(open)
       /\ Write(IF v.k = "string" THEN Quoted(v.s) ELSE <<v.k>>, NoValue)

\* A line that is null, false, 0 or "" is "unparsed" to Node (accepted too).
Top ==
  /\ todo = "start"
  /\ \E v \in Values :
       /\ v.k \in {"obj", "arr", "number"}
       /\ WriteValue(v)
       /\ view' = [view EXCEPT !.kind = v.k]
  /\ UNCHANGED val

\* JSON.parse keeps the last member of each name.  Names in nested objects
\* are not the message's.
Member ==
  /\ todo \in {"firstKey", "key"}
  /\ \E k \in Keys, v \in Values :
       /\ Write(Quoted(k) \o <<":">>, v)
       /\ val' = v
       /\ view' = IF open = <<"obj">> /\ Len(k) = 1 /\ k[1] \in Known
                  THEN [view EXCEPT !.last[k[1]] = v] ELSE view
  /\ todo' = "value"
  /\ UNCHANGED open

MemberValue ==
  /\ todo = "value"
  /\ WriteValue(val)
  /\ val' = NoValue
  /\ UNCHANGED view

Item ==
  /\ todo \in {"firstItem", "item"}
  /\ \E v \in Values : WriteValue(v)
  /\ UNCHANGED <<val, view>>

Comma ==
  /\ todo = "after"
  /\ todo' = IF Last(open) = "obj" THEN "key" ELSE "item"
  /\ Write(<<",">>, NoValue)
  /\ UNCHANGED <<open, val, view>>

Close ==
  /\ todo \in {"after", "firstKey", "firstItem"}
  /\ Write(<<IF Last(open) = "obj" THEN "}" ELSE "]">>, NoValue)
  /\ open' = Front(open)
  /\ todo' = AfterValue(open')
  /\ UNCHANGED <<val, view>>

Next == Top \/ Member \/ MemberValue \/ Item \/ Comma \/ Close
Spec == Init /\ [][Next]_vars

-----------------------------------------------------------------------------
(* The two classifiers.                                                    *)

KindFrom(method, id, result, error) ==
  CASE method /\ id -> "request"
    [] method /\ ~id -> "notification"
    [] ~method /\ id /\ error -> "error"
    [] ~method /\ id /\ ~error /\ result -> "response"
    [] OTHER -> "unknown"

\* classify in main.rs.
NativeKind ==
  IF scan.array \/ ~scan.object THEN "unknown"
  ELSE KindFrom("method" \in scan.has, "id" \in scan.has /\ ~scan.idNull,
                "result" \in scan.has, "error" \in scan.has)

Defined(k) == view.last[k] # NoValue

\* classify in jsonrpc.ts: an array or a number has none of the properties.
NodeKind ==
  KindFrom(Defined("method"), Defined("id") /\ view.last["id"].k # "null",
           Defined("result"), Defined("error"))

-----------------------------------------------------------------------------
(* Properties.                                                             *)

TypeOK ==
  /\ todo \in {"start", "firstKey", "key", "value", "firstItem", "item", "after", "end"}
  /\ open \in Seq({"obj", "arr"}) /\ Len(open) <= MaxDepth
  /\ val \in Values \cup {NoValue}
  /\ scan.depth \in 0 .. MaxDepth /\ scan.has \subseteq Known
  /\ scan.method \in Values \cup {NoValue} /\ scan.pendingKey \in Known \cup {None}
  /\ view.last \in [Known -> Values \cup {NoValue}]

\* On every JSON text (but the bare falsy ones, and escaped names) the native
\* proxy logs the kind that Node logs, whatever stands in nested values and in
\* strings, and however often a name is repeated.
KindsAgree == todo = "end" => NativeKind = NodeKind

\* Both log the same method too, when it is a string or there is none.  (A method
\* that is a number or an object is logged by Node and is null natively.)
MethodsAgree ==
  todo = "end" /\ view.last["method"].k \in {"string", "null", None} =>
    scan.method = IF view.last["method"].k = "string" THEN view.last["method"] ELSE NoValue

\* The two proxies log one line of a session alike (scripts/diff-proxies.mjs
\* tests it on a corpus).
ProxiesAgree == TypeOK /\ KindsAgree /\ MethodsAgree
=============================================================================
