------------------------------ MODULE MCProbes ------------------------------
(***************************************************************************)
(* The two commands that probe a server, for TLC: a behaviour is the life  *)
(* of the health daemon, or one run of conform.                            *)
(***************************************************************************)
EXTENDS HealthDaemon

CONSTANTS Specs, NullTool

\* Three surfaces; the last two differ in what is not hashed.
MCSurfaces == {"one tool", "two tools", "two tools and a page"}
MCHash == [s \in MCSurfaces |-> IF s = "one tool" THEN "h1" ELSE "h2"]

VARIABLES
  command,      \* which of the two
  call, init, tools, listed, reports, truth, exitCode

conformVars == <<call, init, tools, listed, reports, truth, exitCode>>

\* Tools with every outcome of the checks, and null.
MCTools == [named : BOOLEAN, sound : BOOLEAN] \cup {NullTool}

Conf == INSTANCE Conform WITH phase <- call, Tools <- MCTools

ProbesInit == command \in {"health", "conform"} /\ Init /\ Conf!Init
ProbesNext ==
  /\ UNCHANGED command
  /\ \/ command = "health" /\ Next /\ UNCHANGED conformVars
     \/ command = "conform" /\ Conf!Next /\ UNCHANGED vars
ProbesSpec == /\ ProbesInit /\ [][ProbesNext]_<<command, vars, conformVars>>
              /\ WF_vars(command = "health" /\ Daemon)

PassedMeansConforming == Conf!PassedMeansConforming
=============================================================================
