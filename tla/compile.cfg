SPECIFICATION Spec
CONSTANTS
  Names <- MCNames
  Programs <- MCPrograms
  SourceOf <- SourceText
  Parses <- ParserOf
  Generates <- CallGenerateType
  Descends <- CallSpine
  Converts <- CallConvert
  Checks <- CallCheck
  Subsumes <- CallTypeSubtype
  Equals <- CallTypesEqual
  Builds <- CallBuild
  Computes <- CallEvaluate
  Reads <- CallLoads
  Means <- CallMeaning
  TreeMeans <- CallTreeMeaning
  Within <- CallSubtrees
  ShapesOf <- CallShapes
INVARIANTS TypeOK RunsAsMeant TypesAsWritten AssignmentsAdmitted 
CHECK_DEADLOCK FALSE
