SPECIFICATION Spec
CONSTANTS
  Names <- MCNames
  ReplLast = "repl.last"
  Chunks <- PartialChunks
  Composites = {}
  Checks <- CallCheck
  Builds <- CallBuild
  LlvmType <- InternalTypeToLlvm
  Computes <- CallEvaluate
  Reads <- CallLoads
  Means <- CallMeaning
  Subsumes <- CallTypeSubtype
  Equals <- CallTypesEqual
  MaxLeaked = 1
INVARIANTS CheckedCodeBuilds
CHECK_DEADLOCK FALSE
