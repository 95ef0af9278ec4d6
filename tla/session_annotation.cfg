SPECIFICATION Spec
CONSTANTS
  Names <- MCNames
  ReplLast = "repl.last"
  Chunks <- AnnotatedChunks
  Composites = {}
  Checks <- CallCheck
  Builds <- CallBuild
  LlvmType <- InternalTypeToLlvm
  Computes <- CallEvaluate
  Reads <- CallLoads
  Means <- CallMeaning
  Subsumes <- CallTypeSubtype
  Equals <- CallTypesEqual
  MaxLeaked = 1
INVARIANTS AnnotationsHold
CHECK_DEADLOCK FALSE
