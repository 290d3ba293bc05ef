------------------------------- MODULE Conform -------------------------------
(***************************************************************************)
(* mcpgaze conform (src/conform.ts, cmdConform of src/index.ts): for each  *)
(* protocol version a new server is asked initialize, tools/list and a     *)
(* method that does not exist; a catalog of checks judges what came back,  *)
(* and the exit code sums up.  A call may be answered with a result or an  *)
(* error, or fail (timeout, the server's end).                             *)
(***************************************************************************)
EXTENDS Integers, Sequences

CONSTANTS
  Specs,        \* how many versions are tested: one, or three with --all
  NullTool,     \* null in a list of tools
  Tools         \* what may stand there: NullTool, or records that tell whether
                \* the tool is named and whether its schema is sound: an
                \* object's, with its required names declared

Failed == [is |-> "failed"]
Error  == [is |-> "error"]
NotFound == [is |-> "error", code |-> -32601]

\* initialize: the result's members that are checked.
InitAnswers == {Failed, Error} \cup [is : {"result"}, version : BOOLEAN, name : BOOLEAN,
                                     capabilities : BOOLEAN]
\* tools/list: tools in any number, no tools in the result, or no array.
ArrayOf(set) == [is |-> "result", tools |-> "array", set |-> set]
NoTools == [is |-> "result", tools |-> "absent"]
NoArray == [is |-> "result", tools |-> "other"]
ListAnswers == {Failed, Error, NoTools, NoArray} \cup {ArrayOf(S) : S \in SUBSET Tools}
\* A method that does not exist.
UnknownAnswers == {Failed, Error, NotFound, [is |-> "result"]}

VARIABLES
  phase,        \* the call awaited, or "over"
  init,         \* what initialize was answered (Ctx.initResult, initError)
  tools,        \* Ctx.tools
  listed,       \* what tools/list was really answered
  reports,      \* ConformReport.passed of the versions done
  truth,        \* what was true of the server, for each of them
  exitCode      \* {the exit code}, or {}

vars == <<phase, init, tools, listed, reports, truth, exitCode>>

NotAsked == [is |-> "not asked"]

Init ==
  /\ phase = "initialize" /\ init = NotAsked /\ listed = NotAsked
  /\ tools = ArrayOf({})
  /\ reports = <<>> /\ truth = <<>> /\ exitCode = {}

-----------------------------------------------------------------------------
(* CHECKS.  A check that throws, as on a null tool, fails.                 *)

Verdict(good, otherwise) == IF good THEN "pass" ELSE otherwise

Listed == IF tools.tools = "array" THEN tools.set ELSE {}
OnSound == IF NullTool \in Listed THEN "fail"
           ELSE Verdict(\A t \in Listed : t.sound, "warn")

Required == {"init.result", "init.protocolVersion", "init.serverInfo",
             "tools.list", "tools.names", "error.unknownMethod"}

Status(check, unknown) ==
  LET result == init.is = "result" IN
  CASE check = "init.result"          -> Verdict(result, "fail")
    [] check = "init.protocolVersion" -> Verdict(result /\ init.version, "fail")
    [] check = "init.serverInfo"      -> Verdict(result /\ init.name, "fail")
    [] check = "init.capabilities"    -> Verdict(result /\ init.capabilities, "warn")
    [] check = "tools.list"           -> Verdict(tools.tools = "array", "fail")
    [] check = "tools.names"          ->
         Verdict(\A t \in Listed : t # NullTool /\ t.named, "fail")
    [] check \in {"tools.inputSchema", "tools.requiredRefs"} -> OnSound
    [] check = "error.unknownMethod"  ->
         IF unknown.is = "error" THEN Verdict(unknown = NotFound, "warn") ELSE "fail"

Catalog == Required \cup {"init.capabilities", "tools.inputSchema", "tools.requiredRefs"}

Report(unknown) == [check \in Catalog |-> Status(check, unknown)]
Passed(report)  == \A check \in Required : report[check] # "fail"

-----------------------------------------------------------------------------
Over(code) == phase' = "over" /\ exitCode' = {code}

\* initialize fails: conform rejects, and there is no report of any version.
NoInitialize ==
  /\ phase = "initialize"
  /\ Over(1) /\ init' = Failed
  /\ UNCHANGED <<tools, listed, reports, truth>>

\* It is answered; tools/list is asked after a result only.
Initialized ==
  /\ phase = "initialize"
  /\ init' \in InitAnswers \ {Failed}
  /\ phase' = IF init' = Error THEN "unknown" ELSE "tools/list"
  /\ UNCHANGED <<tools, listed, reports, truth, exitCode>>

\* An error and a failure leave no tools, like a result without any.
ToolsOf(answer) == IF answer \in {Failed, Error, NoTools} THEN ArrayOf({}) ELSE answer

ListAnswered ==
  /\ phase = "tools/list"
  /\ listed' \in ListAnswers
  /\ tools' = ToolsOf(listed')
  /\ phase' = "unknown"
  /\ UNCHANGED <<init, reports, truth, exitCode>>

ExitOf_Last(passed) == IF passed[Len(passed)] THEN 0 ELSE 1      \* mutant
ExitOf(passed) == IF \A i \in DOMAIN passed : passed[i] THEN 0 ELSE 1

IsArray(answer) == answer \in {ArrayOf(S) : S \in SUBSET Tools}

\* What docs/commands.md requires of a server, but that tools/list returns an
\* array: an error, a failure and a result without tools pass that check.
Conforms(unknown) ==
  /\ init.is = "result" /\ init.version /\ init.name
  /\ listed # NoArray
  /\ IsArray(listed) => \A t \in listed.set : t # NullTool /\ t.named
  /\ unknown.is = "error"

\* The last call of a version: the checks, and the next version's server.
UnknownAnswered ==
  /\ phase = "unknown"
  /\ \E unknown \in UnknownAnswers :
       /\ reports' = Append(reports, Passed(Report(unknown)))
       /\ truth' = Append(truth, Conforms(unknown))
  /\ IF Len(reports') = Specs
     THEN Over(ExitOf(reports')) /\ UNCHANGED <<init, listed, tools>>
     ELSE /\ phase' = "initialize" /\ init' = NotAsked /\ listed' = NotAsked
          /\ tools' = ArrayOf({})
          /\ UNCHANGED exitCode

Next == NoInitialize \/ Initialized \/ ListAnswered \/ UnknownAnswered

Spec == Init /\ [][Next]_vars

-----------------------------------------------------------------------------
\* An exit code of 0 means that every version was tested and that the server
\* did under each what is required of it, wherever in its answers a check
\* threw; 1 means that it did not, or that one initialize failed.
PassedMeansConforming ==
  \A code \in exitCode :
    code = 0 <=> Len(truth) = Specs /\ \A i \in DOMAIN truth : truth[i]
=============================================================================
