SPECIFICATION DiffSpec
CONSTANTS
  SomeString = SomeString
  SomeNumber = SomeNumber
  Tools = {t1, t2}
  Props = {p1}
  Types = {"string"}
  TypeOf <- MCTypeOf
  Enums <- MCEnums
  None = None
  Thresholds = {"breaking", "any"}
  MaxEdits = 2
SYMMETRY ToolSymmetry
INVARIANTS GateIsSound CleanMeansSame
