---------------------------- MODULE MCToolDrift ----------------------------
(***************************************************************************)
(* ToolDrift for TLC, and the assumptions on its constants.                *)
(***************************************************************************)
EXTENDS Integers, TLC

CONSTANTS Tools, Props, Types, TypeOf, Enums, None, Thresholds, MaxEdits,
          SomeString, SomeNumber

VARIABLES toolSurface, baseline, task, failOn, left, found, edits, steady, verdict

Diff == INSTANCE ToolDrift WITH surface <- toolSurface

ASSUME ValuesAssumption == None \notin Diff!Values
ASSUME EnumsAssumption == \A E \in Enums : E \subseteq Diff!Values /\ E # {}
ASSUME NoneAssumption == None \notin Types
ASSUME EditsAssumption == MaxEdits \in Nat

\* A string and a number; schemas name the type of one or leave it open.
MCTypeOf == [v \in {SomeString, SomeNumber} |-> IF v = SomeNumber THEN "number" ELSE "string"]
MCEnums == {{SomeString}, {SomeNumber}, {SomeString, SomeNumber}}

ToolSymmetry == Permutations(Tools)

DiffSpec == Diff!Spec

GateIsSound == Diff!GateIsSound
CleanMeansSame == Diff!CleanMeansSame
EnumsAreGuarded == Diff!EnumsAreGuarded
=============================================================================
