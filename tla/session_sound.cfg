SPECIFICATION Spec
CONSTANTS
  Names <- MCNames
  ReplLast = "repl.last"
  Chunks <- SoundChunks
  Composites = {}
  Checks <- CallCheck
  Builds <- CallBuild
  LlvmType <- InternalTypeToLlvm
  Computes <- CallEvaluate
  Reads <- CallLoads
  Means <- CallMeaning
  Subsumes <- CallTypeSubtype
  Equals <- CallTypesEqual
  MaxLeaked = 2
INVARIANTS TypeOK CheckedCodeBuilds NamesAgree
PROPERTIES TypesFixed ImplementsInterpreter
CHECK_DEADLOCK FALSE
