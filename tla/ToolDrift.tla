----------------------------- MODULE ToolDrift -----------------------------
(***************************************************************************)
(* snapshot and diff (src/snapshot.ts, src/diff.ts, src/client.ts,         *)
(* src/schema-diff.ts): the tools of a server, read page by page, against  *)
(* a baseline read before, with a gate that fails on drift.  The server is *)
(* free to change its tools at any time, between two pages too.            *)
(*                                                                         *)
(* Changes are a set: their order and their wording are left out, and so   *)
(* are descriptions, whose change is an "info".                            *)
(***************************************************************************)
EXTENDS Integers, FiniteSets

CONSTANTS
  Tools,        \* tool names
  Props,        \* property names of input schemas
  Types,        \* JSON types a schema can name
  TypeOf,       \* value -> its type
  Enums,        \* the enums schemas use: sets of values, none of them empty
  None,         \* no tool, no property, no type, no enum, no argument
  Thresholds,   \* of --fail-on: "breaking", "warning", "any"; "none" without it
  MaxEdits      \* bound: times the server changes

Values == DOMAIN TypeOf

\* A property that is not declared is never required (JSON Schema allows it,
\* and the differ does not look at it).
Prop == [type : Types \cup {None}, enum : Enums \cup {None}, required : BOOLEAN]
Schema == [Props -> Prop \cup {None}]
Surface == [Tools -> Schema \cup {None}]
Nothing == [t \in Tools |-> None]

VARIABLES
  surface,      \* what the server offers
  baseline,     \* the baseline file
  task,         \* "idle", or what a probe is made for: "diff", "update"
  failOn,       \* --fail-on of that diff
  left,         \* of the probe under way: tools the server has not listed yet
  found,        \* and what its pages have told so far
  edits,        \* how often the server has changed
  steady,       \* the server has not changed since the probe began
  verdict       \* of the last diff, until the server or the baseline changes:
                \* "none", "clean" (no change), "pass" or "fail" (exit 1)

vars == <<surface, baseline, task, failOn, left, found, edits, steady, verdict>>

Init ==
  /\ surface \in Surface /\ baseline = surface
  /\ task = "idle" /\ failOn = "none" /\ left = {} /\ found = Nothing
  /\ edits = 0 /\ steady = TRUE /\ verdict = "none"

-----------------------------------------------------------------------------
(* diffInputSchema and the tools around it.                                *)

Change(severity, p, message) == [severity |-> severity, prop |-> p, message |-> message]

Declared(s) == {p \in Props : s[p] # None}

Removed(old, new) ==
  {Change("breaking", p, "property removed") : p \in Declared(old) \ Declared(new)}

Added(old, new) ==
  {IF new[p].required THEN Change("breaking", p, "new required property added")
   ELSE Change("info", p, "new optional property added") : p \in Declared(new) \ Declared(old)}

TypeChanges(p, o, n) ==
  IF o.type # n.type THEN {Change("breaking", p, "type changed")} ELSE {}

\* No enum counts as an empty one.
EnumValues(x) == IF x.enum = None THEN {} ELSE x.enum
EnumChanges_Size(p, o, n) ==                                     \* mutant
  IF Cardinality(EnumValues(n)) < Cardinality(EnumValues(o))
  THEN {Change("breaking", p, "enum value removed")} ELSE
  IF EnumValues(n) # EnumValues(o) THEN {Change("info", p, "enum value added")} ELSE {}
EnumChanges(p, o, n) ==
  {Change("breaking", p, "enum value removed") : v \in EnumValues(o) \ EnumValues(n)}
    \cup {Change("info", p, "enum value added") : v \in EnumValues(n) \ EnumValues(o)}

RequiredChanges(p, o, n) ==
  CASE ~o.required /\ n.required -> {Change("breaking", p, "became required")}
    [] o.required /\ ~n.required -> {Change("warning", p, "no longer required")}
    [] o.required = n.required -> {}

DiffInputSchema(old, new) ==
  Removed(old, new) \cup Added(old, new)
    \cup UNION {TypeChanges(p, old[p], new[p]) \cup EnumChanges(p, old[p], new[p])
                  \cup RequiredChanges(p, old[p], new[p]) : p \in Declared(old) \cap Declared(new)}

ToolChanges(old, new) ==
  CASE old # None /\ new = None -> {Change("breaking", None, "tool removed")}
    [] old = None /\ new # None -> {Change("info", None, "tool added")}
    [] old = None /\ new = None -> {}
    [] OTHER -> DiffInputSchema(old, new)

Changes(old, new) == UNION {ToolChanges(old[t], new[t]) : t \in Tools}

\* worstSeverity and thresholdMet.
Rank(severity) == CASE severity = "info" -> 0 [] severity = "warning" -> 1 [] severity = "breaking" -> 2
Want(threshold) == CASE threshold = "any" -> 0 [] threshold = "warning" -> 1 [] OTHER -> 2
ThresholdMet(changes, threshold) ==
  threshold # "none" /\ \E c \in changes : Rank(c.severity) >= Want(threshold)

Verdict(changes, threshold) ==
  IF changes = {} THEN "clean" ELSE IF ThresholdMet(changes, threshold) THEN "fail" ELSE "pass"

-----------------------------------------------------------------------------
\* probeServer begins: initialize, then the pages.  Each probe starts a server
\* of its own, whose list begins anew.
Start ==
  /\ task = "idle"
  /\ \/ task' = "diff" /\ failOn' \in Thresholds
     \/ task' = "update" /\ UNCHANGED failOn
  /\ left' = {t \in Tools : surface[t] # None}
  /\ found' = Nothing
  /\ steady' = TRUE /\ verdict' = "none"
  /\ UNCHANGED <<surface, baseline, edits>>

Done == task' = "idle" /\ left' = {} /\ found' = Nothing

\* The probe ends with these tools; diff compares, snapshot overwrites the
\* baseline.
Finish(tools) ==
  /\ Done
  /\ IF task = "update"
     THEN baseline' = tools /\ UNCHANGED verdict
     ELSE verdict' = Verdict(Changes(baseline, tools), failOn) /\ UNCHANGED baseline

LastPage_First(page) == TRUE                                     \* mutant
\* A page without a cursor ends the loop.
LastPage(page) == page = left

\* The answer to tools/list: some of the tools not listed yet, as they are now,
\* and a cursor if there are more.
Page ==
  /\ task # "idle"
  /\ \E page \in SUBSET left :
       LET tools == [t \in Tools |-> IF t \in page THEN surface[t] ELSE found[t]]
       IN  /\ left # {} => page # {}
           /\ IF LastPage(page) THEN Finish(tools)
              ELSE left' = left \ page /\ found' = tools /\ UNCHANGED <<task, baseline, verdict>>
  /\ UNCHANGED <<surface, failOn, edits, steady>>

\* An error, a timeout or the server's end: the command fails, nothing is
\* compared or written.
ProbeFails ==
  /\ task # "idle" /\ Done
  /\ UNCHANGED <<surface, baseline, failOn, edits, steady, verdict>>

\* A tool of the server changes, comes or goes.
ServerChanges ==
  /\ \E t \in Tools, s \in Schema \cup {None} :
       s # surface[t] /\ surface' = [surface EXCEPT ![t] = s]
  /\ edits < MaxEdits /\ edits' = edits + 1
  /\ steady' = FALSE /\ verdict' = "none"
  /\ UNCHANGED <<baseline, task, failOn, left, found>>

Next == Start \/ Page \/ ProbeFails \/ ServerChanges
Spec == Init /\ [][Next]_vars

-----------------------------------------------------------------------------
TypeOK ==
  /\ surface \in Surface /\ baseline \in Surface /\ found \in Surface
  /\ task \in {"idle", "diff", "update"} /\ failOn \in Thresholds \cup {"none"}
  /\ left \subseteq Tools /\ edits \in 0 .. MaxEdits /\ steady \in BOOLEAN
  /\ verdict \in {"none", "clean", "pass", "fail"}

\* A call an agent makes: an argument for some of the properties.
Calls == [Props -> Values \cup {None}]
Accepts(x, v) == (x.type = None \/ TypeOf[v] = x.type) /\ (x.enum = None \/ v \in x.enum)
Understands(s, call) ==
  s # None /\ \A p \in Props :
    IF call[p] = None THEN s[p] = None \/ ~s[p].required
    ELSE s[p] # None /\ Accepts(s[p], call[p])

NewEnum(old, new) == \E p \in Declared(old) \cap Declared(new) : old[p].enum = None /\ new[p].enum # None

CallsSurvive(t) ==
  \A call \in Calls : Understands(baseline[t], call) => Understands(surface[t], call)

Passed == verdict \in {"clean", "pass"} /\ failOn # "none"

\* What the gate is for: when it passes a server that did not change under it,
\* every call an agent learnt to make from the baseline still works, unless
\* an enum was put on a property that had none (EnumsAreGuarded).
GateIsSound ==
  steady /\ Passed =>
    \A t \in Tools : baseline[t] = None \/ surface[t] = None \/ ~NewEnum(baseline[t], surface[t])
                       => CallsSurvive(t)

\* "No drift" is said exactly of a server that offers what the baseline holds,
\* all its pages, whatever probes failed and updates happened before.
CleanMeansSame == TypeOK /\ (steady /\ verdict # "none" => (verdict = "clean" <=> baseline = surface))

\* docs/architecture.md, "The schema differ": it covers exactly the changes that
\* break agents, enum narrowing among them.
EnumsAreGuarded == steady /\ Passed => \A t \in Tools : CallsSurvive(t)
=============================================================================
